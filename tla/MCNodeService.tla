--------------------------- MODULE MCNodeService ---------------------------
(* Instances of NodeService for TLC: units of twenty nanos, rates in steps of
   a hundredth. *)
EXTENDS NodeService

CONSTANTS EUR, USD, JPY, XXX

FourCodes == {EUR, USD, JPY, XXX}
ThreeListed == {EUR, USD, JPY}
SomeRates == [c \in ThreeListed |-> CASE c = EUR -> 100 [] c = USD -> 113 [] c = JPY -> 1264]

Amount(units, nanos, code) == [units |-> units, nanos |-> nanos, code |-> code]

\* Amounts whose euros are rounded down, rounded up, and rounded up to a whole
\* unit, of a currency weaker and one stronger than the one asked for, nothing,
\* and codes without a rate.
SomeConversions ==
  {[from |-> Amount(1, 19, USD), code |-> USD],
   [from |-> Amount(2, 5, USD), code |-> JPY],
   [from |-> Amount(2, 19, USD), code |-> JPY],
   [from |-> Amount(0, 6, JPY), code |-> USD],
   [from |-> Amount(0, 6, JPY), code |-> JPY],
   [from |-> Amount(0, 19, EUR), code |-> XXX]}

\* Cards for the turn of the year 3, which is month 36 to 37.
SomeCards ==
  {[valid |-> TRUE, type |-> "visa", expires |-> t] : t \in {35, 36, 48}}
    \cup {[valid |-> TRUE, type |-> "mastercard", expires |-> 47],
          [valid |-> FALSE, type |-> "visa", expires |-> 48],
          [valid |-> TRUE, type |-> "amex", expires |-> 48]}
=============================================================================
