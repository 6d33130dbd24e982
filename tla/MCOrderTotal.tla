---------------------------- MODULE MCOrderTotal ----------------------------
(* Instances of OrderTotal for TLC: units of three nanos, units below 16. *)
EXTENDS OrderTotal

CONSTANTS USD, EUR

Amount(units, nanos, code) == [units |-> units, nanos |-> nanos, code |-> code]

\* Ordinary ones, one so large that the sum overflows, none, less than a
\* unit, a negative one, an invalid one, and one of another currency.
SomeAmounts ==
  {Amount(1, 2, USD), Amount(2, 1, USD), Amount(13, 2, USD), Amount(0, 0, USD),
   Amount(0, 2, USD), Amount(-1, -2, USD), Amount(1, -1, USD), Amount(1, 0, EUR)}

TwoCodes == {USD, EUR}
=============================================================================
