----------------------------- MODULE Conversion -----------------------------
(***************************************************************************)
(* What a conversion of currencies answers: convert of                     *)
(* src/src/currencyservice/server.js, and convertCurrency of               *)
(* src/cloud-functions/gcf-currency-service/index.js, which repeats it but *)
(* treats unknown codes in another way.                                    *)
(*                                                                         *)
(* The numbers of the code are doubles.  Here they are rationals, written  *)
(* as a numerator over a denominator that is passed along: a rate is a     *)
(* whole number of 1/RateScale, as in currency_conversion.json.  What the  *)
(* 53 bits of a double round off, less than a nano for the amounts of the  *)
(* shop, is not modelled; what Math.floor and Math.round do is.            *)
(***************************************************************************)
EXTENDS Money

CONSTANTS
  RateScale,     \* rates have this many steps in a unit, 10^5 in the data
  Listed,        \* the codes that have a rate
  Rate           \* Rate[c]: what a euro is in c, in 1/RateScale

ASSUME RateAssumption ==
  /\ RateScale \in Nat \ {0}
  /\ Listed \subseteq Codes
  /\ Rate \in [Listed -> Nat \ {0}]

\* Mutant of carry: nanos beyond a unit are cut off.
carryLost(u, n, d) ==
  [units |-> u \div d, nanos |-> Rem(n + Rem(u, d) * NanosMod, d * NanosMod)]

\* _carry of (u / d) units and (n / d) nanos: whole units, and nanos over d.
\* For Math.floor and % see \div, which rounds down, and Rem, which has the
\* sign of the dividend.
carry(u, n, d) ==
  LET nanos == n + Rem(u, d) * NanosMod
  IN [units |-> (u \div d) + (nanos \div (d * NanosMod)), nanos |-> Rem(nanos, d * NanosMod)]

\* Math.round(n / d), which rounds half a nano up.
Round(n, d) == (2 * n + d) \div (2 * d)

\* The amount in euros, its nanos rounded: they may be a whole unit then.
Euros(m) ==
  LET euros == carry(m.units * RateScale, m.nanos * RateScale, Rate[m.code])
  IN [units |-> euros.units, nanos |-> Round(euros.nanos, Rate[m.code])]

\* Mutants of Converted: what was rounded up to a unit is not carried again;
\* the first rounding is to whole units.
ConvertedOnce(m, code) ==
  [units |-> (Euros(m).units * Rate[code]) \div RateScale,
   nanos |-> (Euros(m).nanos * Rate[code] + Rem(Euros(m).units * Rate[code], RateScale) * NanosMod)
               \div RateScale,
   code  |-> code]
ConvertedCoarsely(m, code) ==
  LET result == carry((Euros(m).units + Round(Euros(m).nanos, NanosMod)) * Rate[code], 0, RateScale)
  IN [units |-> result.units, nanos |-> result.nanos \div RateScale, code |-> code]

\* Both halves of the conversion, from m.code to euros and on to code.
Converted(m, code) ==
  LET result == carry(Euros(m).units * Rate[code], Euros(m).nanos * Rate[code], RateScale)
  IN [units |-> result.units, nanos |-> result.nanos \div RateScale, code |-> code]

Known(m, code) == m.code \in Listed /\ code \in Listed

\* A number that is not one, as the protocol buffers library sends it: zero.
NaN(code) == [units |-> 0, nanos |-> 0, code |-> code]

OK(m) == [status |-> "ok", money |-> m]
BadRequest == [status |-> "400"]

\* convert of the container answers a code without a rate with NaN.
convert(m, code) == IF Known(m, code) THEN OK(Converted(m, code)) ELSE OK(NaN(code))

\* convertCurrency of the function refuses it.
convertCurrency(m, code) == IF Known(m, code) THEN OK(Converted(m, code)) ELSE BadRequest

----------------------------------------------------------------------------
(* What a conversion is for. *)

\* An amount of zero or more, as prices and shipping costs are.
Price(m) == m.units >= 0 /\ 0 <= m.nanos /\ m.nanos < NanosMod

\* m is worth Value(m) * Rate[code] / Rate[m.code] nanos of code.  The answer
\* is at most half a nano of a euro above that, and less than a nano of code
\* and half a nano of a euro below it.
CloseTo(m, code, answer) ==
  LET r == Rate[m.code]
      t == Rate[code]
  IN /\ 2 * r * RateScale * Value(answer) <= (2 * RateScale * Value(m) + r) * t
     /\ (2 * RateScale * Value(m) - r) * t < 2 * r * RateScale * (Value(answer) + 1)
=============================================================================
