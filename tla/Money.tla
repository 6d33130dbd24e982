------------------------------- MODULE Money -------------------------------
(***************************************************************************)
(* Package money of src/src/checkoutservice/money/money.go; the frontend   *)
(* has the same file.  An amount has whole units, an int64, and nanos, an  *)
(* int32, of the same sign.                                                *)
(***************************************************************************)
EXTENDS Integers

CONSTANTS
  NanosMod,      \* nanos in a unit, 10^9 in the code
  UnitsHalf,     \* units are in -UnitsHalf .. UnitsHalf-1, 2^63 in the code
  NanosHalf,     \* nanos are in -NanosHalf .. NanosHalf-1, 2^31 in the code
  Codes          \* currency codes

ASSUME MoneyAssumption ==
  /\ NanosMod \in Nat /\ NanosMod > 1
  /\ UnitsHalf \in Nat /\ UnitsHalf > 1
  /\ NanosHalf \in Nat /\ 2 * NanosMod <= NanosHalf

Money ==
  [units : -UnitsHalf .. UnitsHalf - 1, nanos : -NanosHalf .. NanosHalf - 1, code : Codes]

\* Integers of two's complement, and division that truncates.
Wrap(x, half) == ((x + half) % (2 * half)) - half
Quot(n, d) == IF n >= 0 THEN n \div d ELSE - ((- n) \div d)
Rem(n, d) == n - d * Quot(n, d)

signMatches(m) ==
  \/ m.nanos = 0
  \/ m.units = 0
  \/ (m.nanos < 0) = (m.units < 0)

validNanos(nanos) == 1 - NanosMod <= nanos /\ nanos <= NanosMod - 1

IsValid(m) == signMatches(m) /\ validNanos(m.nanos)

\* Sum returns an error, or a value.
SumFails(l, r) == ~ IsValid(l) \/ ~ IsValid(r) \/ l.code # r.code

Normal(units, nanos) ==
  IF \/ units = 0 /\ nanos = 0
     \/ units > 0 /\ nanos >= 0
     \/ units < 0 /\ nanos <= 0
  THEN [units |-> Wrap(units + Quot(nanos, NanosMod), UnitsHalf), nanos |-> Rem(nanos, NanosMod)]
  ELSE IF units > 0
  THEN [units |-> units - 1, nanos |-> nanos + NanosMod]
  ELSE [units |-> units + 1, nanos |-> Wrap(nanos - NanosMod, NanosHalf)]

\* Mutant of Sum: the sum is not normalised.
SumPlain(l, r) ==
  [units |-> Wrap(l.units + r.units, UnitsHalf), nanos |-> l.nanos + r.nanos, code |-> l.code]

Sum(l, r) ==
  LET sum == Normal(Wrap(l.units + r.units, UnitsHalf), l.nanos + r.nanos)
  IN [units |-> sum.units, nanos |-> sum.nanos, code |-> l.code]

----------------------------------------------------------------------------
(* What the functions are for. *)

Value(m) == m.units * NanosMod + m.nanos

\* The values of valid amounts.
Representable(value) ==
  - (UnitsHalf + 1) * NanosMod < value /\ value < UnitsHalf * NanosMod

\* Adding l and r needs more than int64 or int32 hold.  The latter happens only
\* where the units cancel to zero, because the code then borrows a unit.
Overflows(l, r) ==
  \/ ~ Representable(Value(l) + Value(r))
  \/ l.units + r.units = 0 /\ l.nanos + r.nanos < NanosMod - NanosHalf
=============================================================================
