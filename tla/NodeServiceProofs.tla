------------------------- MODULE NodeServiceProofs --------------------------
(***************************************************************************)
(* What the currency and the payment server answer, for every rate, price  *)
(* and card, any number of calls, and a clock that runs on between any two *)
(* steps of a charge.                                                      *)
(***************************************************************************)
EXTENDS NodeService, SequenceTheorems, TLAPS

----------------------------------------------------------------------------
(* A conversion is valid, close and monotone for every rate and price.     *)
(* The products are what a prover finds hard here: they are named, and     *)
(* related by the few laws below.                                          *)

\* \div rounds down.
LEMMA Floor ==
  ASSUME NEW n \in Int, NEW d \in Nat \ {0}
  PROVE  /\ n \div d \in Int
         /\ d * (n \div d) \in Int
         /\ d * (n \div d) <= n
         /\ n < d * (n \div d) + d
OBVIOUS

LEMMA FloorOfNat ==
  ASSUME NEW n \in Nat, NEW d \in Nat \ {0}
  PROVE  n \div d \in Nat
OBVIOUS

LEMMA Product == ASSUME NEW a \in Int, NEW b \in Int PROVE a * b \in Int
OBVIOUS

LEMMA ProductOfNats == ASSUME NEW a \in Nat, NEW b \in Nat PROVE a * b \in Nat
OBVIOUS

LEMMA Associate ==
  ASSUME NEW a \in Int, NEW b \in Int, NEW c \in Int
  PROVE  a * (b * c) = (a * b) * c
OBVIOUS

LEMMA Distribute ==
  ASSUME NEW a \in Int, NEW b \in Int, NEW c \in Int
  PROVE  (a + b) * c = a * c + b * c /\ (a - b) * c = a * c - b * c
OBVIOUS

LEMMA Commute == ASSUME NEW a \in Int, NEW b \in Int PROVE a * b = b * a
OBVIOUS

LEMMA Grow ==
  ASSUME NEW a \in Int, NEW b \in Int, NEW k \in Nat, a <= b
  PROVE  a * k <= b * k
OBVIOUS

LEMMA GrowStrictly ==
  ASSUME NEW a \in Int, NEW b \in Int, NEW k \in Nat \ {0}, a < b
  PROVE  a * k < b * k
OBVIOUS

\* Only a greater factor makes a product greater.
LEMMA Cancel ==
  ASSUME NEW a \in Int, NEW b \in Int, NEW k \in Nat \ {0}, a * k < b * k
  PROVE  a < b
<1> SUFFICES ASSUME b <= a PROVE FALSE
  OBVIOUS
<1>1. b * k <= a * k  BY Grow
<1> QED  BY <1>1, Product

----------------------------------------------------------------------------
(* The parts of a conversion. *)

\* carry moves whole units from the nanos to the units, and nothing else.
LEMMA CarryExact ==
  ASSUME NEW u \in Nat, NEW n \in Nat, NEW d \in Nat \ {0}
  PROVE  /\ carry(u, n, d).units \in Nat
         /\ carry(u, n, d).nanos \in Nat
         /\ carry(u, n, d).nanos < d * NanosMod
         /\ carry(u, n, d).units * (d * NanosMod) + carry(u, n, d).nanos = u * NanosMod + n
<1> DEFINE M == NanosMod
           q == u \div d
           rest == u - d * q
           nanos == n + rest * M
           dM == d * M
           k == nanos \div dM
<1>1. M \in Nat \ {0}  BY MoneyAssumption
<1>2. q \in Nat /\ d * q \in Int /\ rest \in Nat  BY Floor, FloorOfNat
<1>3. rest * M \in Nat  BY <1>1, <1>2, ProductOfNats
<1>4. nanos \in Nat  BY <1>3
<1>5. dM \in Nat \ {0}  BY <1>1
<1>6. k \in Nat  BY <1>4, <1>5, FloorOfNat
<1>7. /\ dM * k \in Int
      /\ dM * k <= nanos
      /\ nanos < dM * k + dM
  <2>1. nanos \in Int  BY <1>4
  <2> HIDE DEF nanos, dM
  <2> QED  BY <2>1, <1>5, Floor
<1> HIDE DEF M, q, rest, nanos, dM, k
<1>8. carry(u, n, d) = [units |-> q + k, nanos |-> nanos - dM * k]
  BY <1>2, <1>4 DEF carry, Quot, Rem, M, q, rest, nanos, dM, k
<1>9. q * dM + rest * M = u * M
  <2>1. q * dM = (d * q) * M
    <3>1. q * (d * M) = (q * d) * M  BY <1>1, <1>2, Associate
    <3>2. q * d = d * q  BY <1>2, Commute
    <3> QED  BY <3>1, <3>2 DEF dM
  <2>2. (d * q) * M + rest * M = (d * q + rest) * M  BY <1>1, <1>2, Distribute
  <2>3. d * q + rest = u  BY <1>2 DEF rest
  <2> QED  BY <2>1, <2>2, <2>3
<1>10. (q + k) * dM = q * dM + dM * k
  <2>1. (q + k) * dM = q * dM + k * dM  BY <1>2, <1>5, <1>6, Distribute
  <2> QED  BY <2>1, <1>5, <1>6, Commute
<1>11. nanos = n + rest * M /\ d * M = dM  BY DEF nanos, dM
<1>12. q * dM \in Int /\ u * M \in Int /\ (q + k) * dM \in Int
  BY <1>1, <1>2, <1>5, <1>6, Product
<1>13. u * NanosMod = u * M /\ d * NanosMod = dM  BY DEF M, dM
<1>14. /\ carry(u, n, d).units = q + k
       /\ carry(u, n, d).nanos = nanos - dM * k
  BY <1>8
<1>15. nanos - dM * k \in Nat /\ nanos - dM * k < dM
  BY <1>4, <1>5, <1>7
<1>16. (q + k) * dM + (nanos - dM * k) = u * M + n
  BY <1>3, <1>7, <1>9, <1>10, <1>11, <1>12
<1> QED
  BY <1>2, <1>6, <1>13, <1>14, <1>15, <1>16

\* Round is off by half at most.
LEMMA RoundNear ==
  ASSUME NEW n \in Nat, NEW d \in Nat \ {0}
  PROVE  /\ Round(n, d) \in Nat
         /\ (2 * d) * Round(n, d) <= 2 * n + d
         /\ 2 * n - d < (2 * d) * Round(n, d)
<1> DEFINE x == 2 * n + d
           y == 2 * d
<1>1. x \in Nat /\ x \in Int /\ y \in Nat \ {0} /\ x - y = 2 * n - d  OBVIOUS
<1>2. Round(n, d) = x \div y  BY DEF Round
<1> HIDE DEF x, y
<1>3. Round(n, d) \in Nat  BY <1>1, <1>2, FloorOfNat
<1>4. y * Round(n, d) \in Int /\ y * Round(n, d) <= x /\ x < y * Round(n, d) + y
  BY <1>1, <1>2, Floor
<1>5. x - y < y * Round(n, d)  BY <1>1, <1>4
<1> QED  BY <1>1, <1>3, <1>4, <1>5 DEF x, y

\* What is below k is not rounded up to more than k.
LEMMA RoundAtMost ==
  ASSUME NEW n \in Nat, NEW d \in Nat \ {0}, NEW k \in Nat, n < d * k
  PROVE  Round(n, d) <= k
<1>1. /\ Round(n, d) \in Nat
      /\ (2 * d) * Round(n, d) <= 2 * n + d
  BY RoundNear
<1>2. d * k \in Nat /\ 2 * n + d < 2 * (d * k) + 2 * d  BY ProductOfNats
<1>3. 2 * (d * k) + 2 * d = (k + 1) * (2 * d)  OBVIOUS
<1>4. (2 * d) * Round(n, d) = Round(n, d) * (2 * d)  BY <1>1, Commute
<1>5. Round(n, d) * (2 * d) < (k + 1) * (2 * d)
  BY <1>1, <1>2, <1>3, <1>4, Product
<1>6. Round(n, d) < k + 1  BY <1>1, <1>5, Cancel
<1> QED  BY <1>1, <1>6

LEMMA RateIs == ASSUME NEW c \in Listed PROVE Rate[c] \in Nat \ {0}
BY RateAssumption

LEMMA PriceIs ==
  ASSUME NEW m \in Money, Price(m)
  PROVE  m.units \in Nat /\ m.nanos \in Nat /\ Value(m) \in Nat
<1>1. m.units \in Nat /\ m.nanos \in Nat
  BY MoneyAssumption DEF Money, Price
<1>2. m.units * NanosMod \in Nat  BY <1>1, MoneyAssumption, ProductOfNats
<1> QED  BY <1>1, <1>2 DEF Value

\* A factor of the units and the nanos is one of the value.
LEMMA Scale ==
  ASSUME NEW u \in Nat, NEW n \in Nat, NEW k \in Nat
  PROVE  (u * k) * NanosMod + n * k = (u * NanosMod + n) * k
<1>1. NanosMod \in Int  BY MoneyAssumption
<1>2. (u * k) * NanosMod = (u * NanosMod) * k
  <2>1. u * (k * NanosMod) = (u * k) * NanosMod  BY <1>1, Associate
  <2>2. u * (NanosMod * k) = (u * NanosMod) * k  BY <1>1, Associate
  <2> QED  BY <2>1, <2>2, <1>1, Commute
<1> QED  BY <1>1, <1>2, Product, Distribute

\* Euros is off by half a nano at most.
LEMMA EurosNear ==
  ASSUME NEW m \in Money, Price(m), m.code \in Listed
  PROVE  LET r == Rate[m.code]
             E == Value(Euros(m))
             exactly == 2 * (Value(m) * RateScale)
         IN /\ Euros(m).units \in Nat
            /\ Euros(m).nanos \in 0 .. NanosMod
            /\ E \in Nat
            /\ exactly \in Int
            /\ (2 * r) * E \in Int
            /\ (2 * r) * E <= exactly + r
            /\ exactly - r < (2 * r) * E
<1> DEFINE S == RateScale
           M == NanosMod
           r == Rate[m.code]
           u == m.units * S
           n == m.nanos * S
           c == carry(u, n, r)
           R == Round(c.nanos, r)
           E == Value(Euros(m))
           V == Value(m)
<1>1. S \in Nat \ {0} /\ M \in Nat \ {0} /\ r \in Nat \ {0}
  BY RateAssumption, MoneyAssumption, RateIs
<1>2. m.units \in Nat /\ m.nanos \in Nat /\ V \in Nat  BY PriceIs
<1>3. u \in Nat /\ n \in Nat  BY <1>1, <1>2, ProductOfNats
<1>4. /\ c.units \in Nat /\ c.nanos \in Nat
      /\ c.nanos < r * M
      /\ c.units * (r * M) + c.nanos = u * M + n
  <2> HIDE DEF u, n, r
  <2> QED  BY <1>1, <1>3, CarryExact
<1>5. u * M + n = V * S  BY <1>1, <1>2, Scale DEF Value
<1>6. /\ R \in Nat
      /\ (2 * r) * R <= 2 * c.nanos + r
      /\ 2 * c.nanos - r < (2 * r) * R
  <2> HIDE DEF c, r
  <2> QED  BY <1>1, <1>4, RoundNear
<1>7. R <= M
  <2> HIDE DEF c, r, M
  <2> QED  BY <1>1, <1>4, RoundAtMost
<1>8. Euros(m).units = c.units /\ Euros(m).nanos = R  BY DEF Euros
<1> HIDE DEF S, M, r, u, n, c, R, V
<1>9. E = c.units * M + R  BY <1>8 DEF Value, M
<1>10. (2 * r) * E = 2 * (c.units * (r * M)) + (2 * r) * R
  <2>1. c.units * M \in Int  BY <1>1, <1>4, Product
  <2>2. (2 * r) * (c.units * M + R) = (2 * r) * (c.units * M) + (2 * r) * R
    <3>1. (c.units * M + R) * (2 * r) = (c.units * M) * (2 * r) + R * (2 * r)
      BY <1>1, <1>6, <2>1, Distribute
    <3> QED  BY <3>1, <1>1, <1>6, <2>1, Commute
  <2>3. (2 * r) * (c.units * M) = 2 * (c.units * (r * M))
    <3>1. (2 * r) * (c.units * M) = 2 * (r * (c.units * M))  BY <1>1, <2>1, Associate
    <3>2. r * (c.units * M) = (r * c.units) * M  BY <1>1, <1>4, Associate
    <3>3. c.units * (r * M) = (c.units * r) * M  BY <1>1, <1>4, Associate
    <3>4. r * c.units = c.units * r  BY <1>1, <1>4, Commute
    <3> QED  BY <3>1, <3>2, <3>3, <3>4
  <2> HIDE DEF E
  <2> QED  BY <1>9, <2>2, <2>3
<1>11. /\ c.units * (r * M) \in Int /\ V * S \in Int /\ (2 * r) * R \in Int
       /\ c.units * M \in Nat
  BY <1>1, <1>2, <1>4, <1>6, ProductOfNats
<1>12. E \in Nat  BY <1>6, <1>9, <1>11
<1>13. /\ (2 * r) * E \in Int
       /\ (2 * r) * E <= 2 * (V * S) + r
       /\ 2 * (V * S) - r < (2 * r) * E
  <2> HIDE DEF E
  <2> QED  BY <1>1, <1>4, <1>5, <1>6, <1>10, <1>11
<1>14. 2 * (V * S) \in Int  BY <1>11
<1> QED
  BY <1>1, <1>4, <1>6, <1>7, <1>8, <1>12, <1>13, <1>14 DEF V, S, r, M

\* The answer is rounded down.
LEMMA ConvertedNear ==
  ASSUME NEW m \in Money, Price(m), m.code \in Listed, NEW code \in Listed
  PROVE  LET t == Rate[code]
             E == Value(Euros(m))
             A == Value(Converted(m, code))
         IN /\ Converted(m, code).units \in Nat
            /\ Converted(m, code).nanos \in 0 .. NanosMod - 1
            /\ A \in Nat
            /\ E * t \in Int /\ RateScale * A \in Int
            /\ RateScale * A <= E * t
            /\ E * t < RateScale * A + RateScale
<1> DEFINE S == RateScale
           M == NanosMod
           t == Rate[code]
           e == Euros(m)
           E == Value(e)
           u == e.units * t
           n == e.nanos * t
           c == carry(u, n, S)
           f == c.nanos \div S
           A == Value(Converted(m, code))
<1>1. S \in Nat \ {0} /\ M \in Nat \ {0} /\ t \in Nat \ {0}
  BY RateAssumption, MoneyAssumption, RateIs
<1>2. e.units \in Nat /\ e.nanos \in Nat /\ E \in Nat  BY EurosNear, MoneyAssumption
<1>3. u \in Nat /\ n \in Nat  BY <1>1, <1>2, ProductOfNats
<1>4. /\ c.units \in Nat /\ c.nanos \in Nat
      /\ c.nanos < S * M
      /\ c.units * (S * M) + c.nanos = u * M + n
  <2> HIDE DEF u, n, S
  <2> QED  BY <1>1, <1>3, CarryExact
<1>5. u * M + n = E * t
  <2> HIDE DEF e, t
  <2> QED  BY <1>1, <1>2, Scale DEF Value
<1>6. /\ f \in Nat /\ S * f \in Int
      /\ S * f <= c.nanos
      /\ c.nanos < S * f + S
  <2> DEFINE x == c.nanos
  <2>1. x \in Nat /\ x \in Int  BY <1>4
  <2> HIDE DEF x, S
  <2>2. x \div S \in Nat  BY <1>1, <2>1, FloorOfNat
  <2>3. S * (x \div S) \in Int /\ S * (x \div S) <= x /\ x < S * (x \div S) + S
    BY <1>1, <2>1, Floor
  <2> QED  BY <2>2, <2>3 DEF x, S
<1>7. Converted(m, code).units = c.units /\ Converted(m, code).nanos = f
  BY DEF Converted
<1> HIDE DEF S, M, t, e, E, u, n, c, f
<1>8. f < M
  <2>1. f * S = S * f /\ M * S = S * M /\ S * M \in Int /\ f * S \in Int
    BY <1>1, <1>6, Commute, Product
  <2>2. f * S < M * S  BY <2>1, <1>4, <1>6
  <2> QED  BY <2>2, <1>1, <1>6, Cancel
<1>9. A = c.units * M + f  BY <1>7 DEF Value, M
<1>10. c.units * M \in Nat  BY <1>1, <1>4, ProductOfNats
<1>11. A \in Nat  BY <1>6, <1>9, <1>10
<1>12. S * A = c.units * (S * M) + S * f
  <2>1. (c.units * M + f) * S = (c.units * M) * S + f * S
    BY <1>1, <1>6, <1>10, Distribute
  <2>2. c.units * (M * S) = (c.units * M) * S  BY <1>1, <1>4, Associate
  <2>3. M * S = S * M /\ f * S = S * f /\ A * S = S * A
    BY <1>1, <1>6, <1>11, Commute
  <2> HIDE DEF A
  <2> QED  BY <1>9, <2>1, <2>2, <2>3
<1>13. E * t \in Int /\ c.units * (S * M) \in Int /\ S * A \in Int
  BY <1>1, <1>2, <1>4, <1>11, Product
<1>14. S * A <= E * t /\ E * t < S * A + S
  <2> HIDE DEF A
  <2> QED  BY <1>1, <1>4, <1>5, <1>6, <1>12, <1>13
<1> QED
  BY <1>1, <1>4, <1>6, <1>7, <1>8, <1>11, <1>13, <1>14 DEF S, M, t, e, E

----------------------------------------------------------------------------
(* What a conversion is for. *)

\* What a price is converted to is a price, a valid amount, and of the
\* currency that was asked for, for all rates: the two carries suffice.
THEOREM ConvertedValid ==
  ASSUME NEW m \in Money, Price(m), m.code \in Listed, NEW code \in Listed
  PROVE  /\ IsValid(Converted(m, code))
         /\ Price(Converted(m, code))
         /\ Converted(m, code).code = code
<1>1. /\ Converted(m, code).units \in Nat
      /\ Converted(m, code).nanos \in 0 .. NanosMod - 1
  BY ConvertedNear
<1>2. Converted(m, code).code = code  BY DEF Converted
<1> QED
  BY <1>1, <1>2, MoneyAssumption DEF IsValid, signMatches, validNanos, Price

\* The answer differs from the exact one by the two roundings only.
THEOREM ConvertedClose ==
  ASSUME NEW m \in Money, Price(m), m.code \in Listed, NEW code \in Listed
  PROVE  CloseTo(m, code, Converted(m, code))
<1> DEFINE S == RateScale
           r == Rate[m.code]
           t == Rate[code]
           V == Value(m)
           E == Value(Euros(m))
           A == Value(Converted(m, code))
           X == 2 * (V * S)
           Y == (2 * r) * E
<1>1. S \in Nat \ {0} /\ r \in Nat \ {0} /\ t \in Nat \ {0} /\ V \in Nat
  BY RateAssumption, RateIs, PriceIs
<1>2. E \in Nat /\ X \in Int /\ Y \in Int /\ Y <= X + r /\ X - r < Y
  BY EurosNear
<1>3. A \in Nat /\ E * t \in Int /\ S * A \in Int /\ S * A <= E * t /\ E * t < S * A + S
  BY ConvertedNear
<1> HIDE DEF S, r, t, V, E, A, X, Y
<1>4. 2 * S * V = X
  <2>1. (2 * S) * V = 2 * (S * V) /\ S * V = V * S  BY <1>1, Associate, Commute
  <2> QED  BY <2>1 DEF X
<1>5. Y * t = (2 * r) * (E * t)  BY <1>1, <1>2, Associate DEF Y
<1>6. 2 * r * S * A = (2 * r) * (S * A)  BY <1>1, <1>3, Associate
<1>7. 2 * r * S * (A + 1) = (2 * r) * (S * A + S)
  <2>1. (2 * r) * (S * (A + 1)) = 2 * r * S * (A + 1)  BY <1>1, <1>3, Associate
  <2>2. (A + 1) * S = A * S + S  BY <1>1, <1>3
  <2>3. (A + 1) * S = S * (A + 1) /\ A * S = S * A  BY <1>1, <1>3, Commute
  <2> QED  BY <2>1, <2>2, <2>3
<1>8. 2 * r \in Nat \ {0} /\ X + r \in Int /\ X - r \in Int /\ S * A + S \in Int
  BY <1>1, <1>2, <1>3
<1>9. (2 * r) * (S * A) <= (2 * r) * (E * t)
  <2>1. (S * A) * (2 * r) <= (E * t) * (2 * r)  BY <1>3, <1>8, Grow
  <2> QED  BY <2>1, <1>3, <1>8, Commute
<1>10. (2 * r) * (E * t) < (2 * r) * (S * A + S)
  <2>1. (E * t) * (2 * r) < (S * A + S) * (2 * r)  BY <1>3, <1>8, GrowStrictly
  <2> QED  BY <2>1, <1>3, <1>8, Commute
<1>11. Y * t <= (X + r) * t  BY <1>1, <1>2, <1>8, Grow
<1>12. (X - r) * t < Y * t  BY <1>1, <1>2, <1>8, GrowStrictly
<1>13. /\ (2 * r) * (S * A) \in Int /\ (2 * r) * (E * t) \in Int
       /\ (2 * r) * (S * A + S) \in Int
       /\ (X + r) * t \in Int /\ (X - r) * t \in Int
  BY <1>1, <1>3, <1>8, Product
<1>14. /\ 2 * r * S * A <= (2 * S * V + r) * t
       /\ (2 * S * V - r) * t < 2 * r * S * (A + 1)
  BY <1>4, <1>5, <1>6, <1>7, <1>9, <1>10, <1>11, <1>12, <1>13
<1> QED  BY <1>14 DEF CloseTo, S, r, t, V, A

\* Of two prices in one currency the dearer one stays at least as dear.
THEOREM ConvertedMonotone ==
  ASSUME NEW l \in Money, Price(l), NEW m \in Money, Price(m), l.code = m.code,
         m.code \in Listed, NEW code \in Listed, Value(l) <= Value(m)
  PROVE  Value(Converted(l, code)) <= Value(Converted(m, code))
<1> DEFINE S == RateScale
           r == Rate[m.code]
           t == Rate[code]
           D == Value(Euros(l))
           E == Value(Euros(m))
           A == Value(Converted(l, code))
           B == Value(Converted(m, code))
           U == Value(l) * S
           V == Value(m) * S
<1>1. S \in Nat \ {0} /\ r \in Nat \ {0} /\ t \in Nat \ {0}
  BY RateAssumption, RateIs
<1>2. U \in Int /\ V \in Int /\ U <= V
  BY <1>1, PriceIs, Product, Grow
<1>3. D \in Nat /\ (2 * r) * D \in Int /\ (2 * r) * D <= 2 * U + r
  BY EurosNear
<1>4. E \in Nat /\ (2 * r) * E \in Int /\ 2 * V - r < (2 * r) * E
  BY EurosNear
<1>5. A \in Nat /\ D * t \in Int /\ S * A \in Int /\ S * A <= D * t
  BY ConvertedNear
<1>6. B \in Nat /\ E * t \in Int /\ S * B \in Int /\ E * t < S * B + S
  BY ConvertedNear
<1> HIDE DEF S, r, t, D, E, A, B, U, V
<1>7. D <= E
  <2>1. 2 * r \in Nat \ {0} /\ (E + 1) * (2 * r) = (2 * r) * E + 2 * r
    BY <1>1, <1>4, Distribute, Commute
  <2>2. D * (2 * r) = (2 * r) * D  BY <1>3, <2>1, Commute
  <2>3. D * (2 * r) < (E + 1) * (2 * r)  BY <1>1, <1>2, <1>3, <1>4, <2>1, <2>2
  <2>4. D < E + 1  BY <1>3, <1>4, <2>1, <2>3, Cancel
  <2> QED  BY <1>3, <1>4, <2>4
<1>8. D * t <= E * t  BY <1>1, <1>3, <1>4, <1>7, Grow
<1>9. A < B + 1
  <2>1. (B + 1) * S = B * S + S  BY <1>1, <1>6
  <2>2. A * S = S * A /\ B * S = S * B  BY <1>1, <1>5, <1>6, Commute
  <2>3. A * S < (B + 1) * S  BY <1>1, <1>5, <1>6, <1>8, <2>1, <2>2
  <2> QED  BY <1>1, <1>5, <1>6, <2>3, Cancel
<1>10. A <= B  BY <1>5, <1>6, <1>9
<1> QED  BY <1>10 DEF A, B

----------------------------------------------------------------------------
(* The servers. *)

USE NodeAssumption

\* What a call asks for is one of the requests to the server at hand.
Asked(c) ==
  /\ request[c].to = "charge" =>
       service = "payment" /\ request[c].ask \in Cards \cup {Absent}
  /\ request[c].to \in {"convert", "convertCurrency"} =>
       service = "currency" /\ request[c].ask \in Conversions \cup {Absent}

\* A conversion is answered as convert and convertCurrency say.
ConvertedAsAsked(c) ==
  stage[c] = "answered" =>
    LET ask == request[c].ask
    IN /\ request[c].to = "convert" =>
            answer[c] = IF ask = Absent THEN Unknown ELSE convert(ask.from, ask.code)
       /\ request[c].to = "convertCurrency" =>
            answer[c] = IF ask = Absent THEN BadRequest ELSE convertCurrency(ask.from, ask.code)

\* A charge that read the month keeps the one of its first date.
Dating(c) ==
  stage[c] = "dating" =>
    /\ request[c].to = "charge" /\ request[c].ask \in Cards
    /\ \E a \in Nat \ {0} :
         dates[c] = <<a>> /\ a <= now /\ currentMonth = Month(a)

\* A charge is accepted or refused by the month of its first date and the year
\* of its second.
ChargedByDates(c) ==
  stage[c] = "answered" /\ request[c].to = "charge" =>
    IF dates[c] = <<>> THEN answer[c].status # "ok"
    ELSE /\ request[c].ask \in Cards
         /\ \E a, b \in Nat \ {0} :
              /\ dates[c][1] = a /\ dates[c][2] = b /\ a <= b
              /\ answer[c].status = IF Year(b) * 12 + Month(a) > request[c].ask.expires
                                    THEN "400" ELSE "ok"

\* Only charges have dates.
OnlyChargesDate(c) ==
  dates[c] # <<>> => stage[c] \in {"dating", "answered"} /\ request[c].to = "charge"

\* Between its two readings of the clock a charge has the thread, so that
\* currentMonth is its own.
OneDates ==
  \A c, d \in Calls : stage[c] = "dating" /\ stage[d] = "dating" => c = d

Shapes ==
  /\ DOMAIN request = Calls /\ DOMAIN stage = Calls
  /\ DOMAIN answer = Calls /\ DOMAIN dates = Calls
  /\ now \in Nat \ {0}

CallInv(c) ==
  Asked(c) /\ ConvertedAsAsked(c) /\ Dating(c) /\ ChargedByDates(c) /\ OnlyChargesDate(c)

IInv == Shapes /\ OneDates /\ \A c \in Calls : CallInv(c)

----------------------------------------------------------------------------

\* The month of one date and the year of a later one make no earlier month
\* than the first; they make just that one within a year.
LEMMA TwoReadings ==
  ASSUME NEW a \in Nat \ {0}, NEW b \in Nat \ {0}, a <= b
  PROVE  /\ Year(b) * 12 + Month(a) >= a
         /\ Year(a) = Year(b) => Year(b) * 12 + Month(a) = a
BY DEF Year, Month

LEMMA InitInv == Init => IInv
<1> SUFFICES ASSUME Init PROVE IInv
  OBVIOUS
<1>1. Shapes  BY DEF Init, Shapes
<1>2. OneDates  BY DEF Init, OneDates
<1>3. ASSUME NEW c \in Calls PROVE CallInv(c)
  <2>1. stage[c] = "idle" /\ request[c].to = "none" /\ dates[c] = <<>>
    BY DEF Init, NoRequest
  <2> QED
    BY <2>1 DEF CallInv, Asked, ConvertedAsAsked, Dating, ChargedByDates, OnlyChargesDate
<1> QED  BY <1>1, <1>2, <1>3 DEF IInv

\* A step that leaves the calls alone, whatever the process and the clock do.
LEMMA CallsAlone ==
  ASSUME IInv, UNCHANGED <<service, callVars>>, now' \in Nat, now <= now'
  PROVE  IInv'
<1>1. Shapes'  BY DEF IInv, Shapes, callVars
<1>2. OneDates'  BY DEF IInv, OneDates, callVars
<1>3. ASSUME NEW c \in Calls PROVE CallInv(c)'
  <2>1. CallInv(c)  BY DEF IInv
  <2>2. Asked(c)' /\ ConvertedAsAsked(c)' /\ ChargedByDates(c)' /\ OnlyChargesDate(c)'
    BY <2>1 DEF CallInv, Asked, ConvertedAsAsked, ChargedByDates, OnlyChargesDate, callVars
  <2>3. Dating(c)'
    BY <2>1 DEF IInv, Shapes, CallInv, Dating, callVars
  <2> QED  BY <2>2, <2>3 DEF CallInv
<1> QED  BY <1>1, <1>2, <1>3 DEF IInv

\* Calls that fail before they are answered.
LEMMA FailKeeps ==
  ASSUME IInv, NEW calls \in SUBSET Calls, Fail(calls), UNCHANGED <<service, now>>
  PROVE  IInv'
<1>1. Shapes'  BY DEF IInv, Shapes, Fail
<1>2. \A c \in Calls : stage'[c] = "dating" => stage[c] = "dating" /\ c \notin calls
  BY DEF Fail
<1>3. OneDates'  BY <1>2 DEF IInv, OneDates
<1>4. ASSUME NEW c \in Calls PROVE CallInv(c)'
  <2>1. CASE c \in calls
    <3>1. stage'[c] = "failed" /\ request'[c].to = "none" /\ dates'[c] = <<>>
      BY <2>1 DEF Fail, NoRequest
    <3> QED
      BY <3>1 DEF CallInv, Asked, ConvertedAsAsked, Dating, ChargedByDates, OnlyChargesDate
  <2>2. CASE c \notin calls
    <3>1. /\ stage'[c] = stage[c] /\ request'[c] = request[c] /\ dates'[c] = dates[c]
          /\ answer' = answer
      BY <2>2 DEF Fail
    <3>2. CallInv(c)  BY DEF IInv
    <3>3. stage[c] = "dating" => currentMonth' = currentMonth
      BY <2>2 DEF Fail, IInv, OneDates
    <3>4. Asked(c)' /\ ConvertedAsAsked(c)' /\ ChargedByDates(c)' /\ OnlyChargesDate(c)'
      BY <3>1, <3>2 DEF CallInv, Asked, ConvertedAsAsked, ChargedByDates, OnlyChargesDate
    <3>5. Dating(c)'  BY <3>1, <3>2, <3>3 DEF CallInv, Dating
    <3> QED  BY <3>4, <3>5 DEF CallInv
  <2> QED  BY <2>1, <2>2
<1> QED  BY <1>1, <1>3, <1>4 DEF IInv

\* A step of one call, while no other one is between its two dates or the one
\* that is keeps its month.
LEMMA OthersAlone ==
  ASSUME IInv, NEW c \in Calls, UNCHANGED <<service, now>>,
         DOMAIN request' = Calls, DOMAIN stage' = Calls,
         DOMAIN answer' = Calls, DOMAIN dates' = Calls,
         \A d \in Calls \ {c} :
           /\ stage'[d] = stage[d] /\ request'[d] = request[d]
           /\ answer'[d] = answer[d] /\ dates'[d] = dates[d],
         \/ \A d \in Calls \ {c} : stage[d] # "dating"
         \/ stage'[c] # "dating" /\ currentMonth' = currentMonth,
         CallInv(c)'
  PROVE  IInv'
<1>1. Shapes'  BY DEF IInv, Shapes
<1>2. OneDates'  BY DEF IInv, OneDates
<1>3. ASSUME NEW d \in Calls \ {c} PROVE CallInv(d)'
  <2>1. CallInv(d)  BY DEF IInv
  <2>2. Asked(d)' /\ ConvertedAsAsked(d)' /\ ChargedByDates(d)' /\ OnlyChargesDate(d)'
    BY <2>1 DEF CallInv, Asked, ConvertedAsAsked, ChargedByDates, OnlyChargesDate
  <2>3. Dating(d)'  BY <2>1 DEF CallInv, Dating
  <2> QED  BY <2>2, <2>3 DEF CallInv
<1> QED  BY <1>1, <1>2, <1>3 DEF IInv

\* An answer, while no other call is between its two dates.
LEMMA ReplyKeeps ==
  ASSUME IInv, NEW c \in Calls, NEW value, Reply(c, value),
         \A d \in Calls \ {c} : stage[d] # "dating",
         DOMAIN dates' = Calls, \A d \in Calls \ {c} : dates'[d] = dates[d],
         ConvertedAsAsked(c)', ChargedByDates(c)',
         dates'[c] # <<>> => request[c].to = "charge"
  PROVE  IInv'
<1>1. /\ stage' = [stage EXCEPT ![c] = "answered"]
      /\ answer' = [answer EXCEPT ![c] = value]
      /\ request' = request /\ service' = service /\ now' = now
  BY DEF Reply, settings
<1>2. CallInv(c)  BY DEF IInv
<1>3. /\ DOMAIN stage' = Calls /\ DOMAIN answer' = Calls /\ DOMAIN request' = Calls
      /\ stage'[c] = "answered"
  BY <1>1 DEF IInv, Shapes
<1>4. Asked(c)'  BY <1>1, <1>2 DEF CallInv, Asked
<1>5. Dating(c)' /\ OnlyChargesDate(c)'  BY <1>1, <1>3 DEF Dating, OnlyChargesDate
<1>6. CallInv(c)'  BY <1>4, <1>5 DEF CallInv
<1>7. \A d \in Calls \ {c} : stage'[d] = stage[d] /\ answer'[d] = answer[d]
  BY <1>1
<1> QED  BY <1>1, <1>3, <1>6, <1>7, OthersAlone

\* The requests to a server.
LEMMA RequestIs ==
  ASSUME NEW q \in RequestsOf(service)
  PROVE  /\ q.to = "charge" => service = "payment" /\ q.ask \in Cards \cup {Absent}
         /\ q.to \in {"convert", "convertCurrency"} => q.ask \in Conversions \cup {Absent}
         /\ q.to # "charge" => service # "payment"
BY DEF RequestsOf, Requests

LEMMA SendKeeps ==
  ASSUME IInv, service \in {"currency", "payment"}, NEW c \in Calls, Send(c)
  PROVE  IInv'
<1>1. service' = service /\ now' = now /\ stage[c] = "idle"
  BY DEF Send, settings
<1>2. CASE Fail({c})
  BY <1>1, <1>2, FailKeeps
<1>3. CASE /\ \E q \in RequestsOf(service) : request' = [request EXCEPT ![c] = q]
           /\ stage' = [stage EXCEPT ![c] = "sent"]
           /\ UNCHANGED <<answer, currentMonth, dates>>
  <2>1. PICK q \in RequestsOf(service) : request' = [request EXCEPT ![c] = q]
    BY <1>3
  <2>2. CallInv(c) /\ Shapes  BY DEF IInv
  <2>3. request'[c] = q /\ stage'[c] = "sent" /\ dates'[c] = dates[c] /\ dates[c] = <<>>
    BY <1>1, <1>3, <2>1, <2>2 DEF Shapes, CallInv, OnlyChargesDate
  <2>4. Asked(c)'  BY <1>1, <2>3, RequestIs DEF Asked
  <2>5. CallInv(c)'
    BY <2>3, <2>4 DEF CallInv, ConvertedAsAsked, Dating, ChargedByDates, OnlyChargesDate
  <2> QED  BY <1>1, <1>3, <2>1, <2>2, <2>3, <2>5, OthersAlone DEF Shapes
<1> QED  BY <1>2, <1>3 DEF Send

\* The handlers that answer at once.
LEMMA HandleKeeps ==
  ASSUME IInv, NEW c \in Calls,
         GetSupportedCurrencies(c) \/ Convert(c) \/ ConvertCurrency(c) \/ ChargeRefuses(c)
  PROVE  IInv'
<1>1. CallInv(c) /\ Shapes  BY DEF IInv
<1>2. stage[c] = "sent" /\ dates[c] = <<>> /\ dates' = dates
  BY <1>1 DEF GetSupportedCurrencies, Convert, ConvertCurrency, ChargeRefuses, Asks,
              CallInv, OnlyChargesDate
<1>3. PICK value : Reply(c, value)
  BY DEF GetSupportedCurrencies, Convert, ConvertCurrency, ChargeRefuses, Refuse
<1>4. \A d \in Calls : stage[d] # "dating"
  <2>1. CASE ConvertCurrency(c)
    <3>1. service = "currency"  BY <1>1, <2>1 DEF ConvertCurrency, Asks, CallInv, Asked
    <3> QED  BY <3>1 DEF IInv, CallInv, Asked, Dating
  <2>2. CASE Idle  BY <2>2 DEF Idle
  <2> QED  BY <2>1, <2>2 DEF GetSupportedCurrencies, Convert, ChargeRefuses
<1>5. request' = request /\ DOMAIN answer = Calls /\ DOMAIN dates' = Calls
  BY <1>1, <1>2, <1>3 DEF Reply, Shapes
<1>6. ConvertedAsAsked(c)' /\ ChargedByDates(c)'
  <2>1. CASE GetSupportedCurrencies(c)
    BY <1>5, <2>1 DEF GetSupportedCurrencies, Asks, ConvertedAsAsked, ChargedByDates
  <2>2. CASE Convert(c)
    <3>1. /\ request[c].to = "convert"
          /\ answer'[c] = IF request[c].ask = Absent THEN Unknown
                          ELSE convert(request[c].ask.from, request[c].ask.code)
      BY <1>5, <2>2 DEF Convert, Asks, Reply
    <3> QED  BY <1>5, <3>1 DEF ConvertedAsAsked, ChargedByDates
  <2>3. CASE ConvertCurrency(c)
    <3>1. /\ request[c].to = "convertCurrency"
          /\ answer'[c] = IF request[c].ask = Absent THEN BadRequest
                          ELSE convertCurrency(request[c].ask.from, request[c].ask.code)
      BY <1>5, <2>3 DEF ConvertCurrency, Asks, Reply
    <3> QED  BY <1>5, <3>1 DEF ConvertedAsAsked, ChargedByDates
  <2>4. CASE ChargeRefuses(c)
    <3>1. request[c].to = "charge" /\ answer'[c].status \in {"UNKNOWN", "400"}
      BY <1>5, <2>4 DEF ChargeRefuses, Asks, Refuse, Reply, Unknown
    <3> QED  BY <1>2, <1>5, <3>1 DEF ConvertedAsAsked, ChargedByDates
  <2> QED  BY <2>1, <2>2, <2>3, <2>4
<1>7. dates'[c] = <<>>  BY <1>2
<1> QED  BY <1>2, <1>3, <1>4, <1>5, <1>6, <1>7, ReplyKeeps

LEMMA ReadsMonthKeeps ==
  ASSUME IInv, NEW c \in Calls, ChargeReadsMonth(c)
  PROVE  IInv'
<1>1. CallInv(c) /\ Shapes  BY DEF IInv
<1>2. /\ request[c].to = "charge" /\ request[c].ask # Absent
      /\ \A d \in Calls : stage[d] # "dating"
      /\ stage' = [stage EXCEPT ![c] = "dating"]
      /\ currentMonth' = Month(now)
      /\ dates' = [dates EXCEPT ![c] = <<now>>]
      /\ request' = request /\ answer' = answer /\ service' = service /\ now' = now
  BY DEF ChargeReadsMonth, Idle, Asks, settings
<1>3. stage'[c] = "dating" /\ dates'[c] = <<now>> /\ request'[c] = request[c]
  BY <1>1, <1>2 DEF Shapes
<1>4. request[c].ask \in Cards  BY <1>1, <1>2 DEF CallInv, Asked
<1>5. Dating(c)'
  BY <1>1, <1>2, <1>3, <1>4 DEF Shapes, Dating
<1>6. Asked(c)' /\ ConvertedAsAsked(c)' /\ ChargedByDates(c)' /\ OnlyChargesDate(c)'
  BY <1>1, <1>2, <1>3 DEF CallInv, Asked, ConvertedAsAsked, ChargedByDates, OnlyChargesDate
<1> QED  BY <1>1, <1>2, <1>5, <1>6, OthersAlone DEF CallInv, Shapes

LEMMA AppendPair ==
  ASSUME NEW a \in Nat, NEW b \in Nat
  PROVE  /\ Append(<<a>>, b) # <<>>
         /\ Append(<<a>>, b)[1] = a
         /\ Append(<<a>>, b)[2] = b
<1> DEFINE first == <<a>>
<1>1. first \in Seq(Nat) /\ Len(first) = 1 /\ first[1] = a  OBVIOUS
<1> HIDE DEF first
<1> QED  BY <1>1, AppendProperties DEF first

LEMMA ReadsYearKeeps ==
  ASSUME IInv, NEW c \in Calls, ChargeReadsYear(c)
  PROVE  IInv'
<1>1. CallInv(c) /\ Shapes  BY DEF IInv
<1>2. stage[c] = "dating" /\ dates' = [dates EXCEPT ![c] = Append(@, now)]
  BY DEF ChargeReadsYear
<1>3. /\ request[c].to = "charge" /\ request[c].ask \in Cards
      /\ \A d \in Calls \ {c} : stage[d] # "dating"
  BY <1>1, <1>2 DEF CallInv, Dating, IInv, OneDates
<1>4. PICK a \in Nat \ {0} : dates[c] = <<a>> /\ a <= now /\ currentMonth = Month(a)
  BY <1>1, <1>2 DEF CallInv, Dating
<1>5. dates'[c] # <<>> /\ dates'[c][1] = a /\ dates'[c][2] = now
  <2>1. dates'[c] = Append(<<a>>, now)  BY <1>1, <1>2, <1>4 DEF Shapes
  <2> QED  BY <1>1, <2>1, AppendPair DEF Shapes
<1>6. PICK value :
        /\ Reply(c, value)
        /\ value.status = IF Year(now) * 12 + Month(a) > request[c].ask.expires
                          THEN "400" ELSE "ok"
  BY <1>4 DEF ChargeReadsYear, Refuse, Expired
<1>7. request' = request /\ stage'[c] = "answered" /\ answer'[c] = value
  BY <1>1, <1>6 DEF Reply, Shapes
<1>8. ConvertedAsAsked(c)'  BY <1>3, <1>7 DEF ConvertedAsAsked
<1>9. ChargedByDates(c)'
  <2>1. now \in Nat \ {0}  BY <1>1 DEF Shapes
  <2> QED  BY <1>3, <1>4, <1>5, <1>6, <1>7, <2>1 DEF ChargedByDates
<1> QED  BY <1>1, <1>2, <1>3, <1>6, <1>8, <1>9, ReplyKeeps DEF Shapes

LEMMA StepInv == service \in {"currency", "payment"} /\ IInv /\ [Next]_vars => IInv'
<1> SUFFICES ASSUME service \in {"currency", "payment"}, IInv, [Next]_vars PROVE IInv'
  OBVIOUS
<1>1. now \in Nat  BY DEF IInv, Shapes
<1>2. CASE Start \/ Load \/ Bound \/ Probe \/ Tick \/ CalmDown \/ UNCHANGED vars
  <2>1. UNCHANGED <<service, callVars>> /\ now' \in {now, now + 1}
    BY <1>2 DEF Start, Load, Bound, Probe, Tick, CalmDown, vars, settings
  <2> QED  BY <1>1, <2>1, CallsAlone
<1>3. CASE Die
  <2> DEFINE calls == {c \in Calls : stage[c] \in {"sent", "dating"} /\ Served(request[c])}
  <2>1. Fail(calls) /\ UNCHANGED <<service, now>>  BY <1>3 DEF Die, settings
  <2>2. calls \in SUBSET Calls  OBVIOUS
  <2> HIDE DEF calls
  <2> QED  BY <2>1, <2>2, FailKeeps
<1>4. ASSUME NEW c \in Calls, Send(c) PROVE IInv'
  BY <1>4, SendKeeps
<1>5. ASSUME NEW c \in Calls, Lose(c) PROVE IInv'
  BY <1>5, FailKeeps DEF Lose, settings
<1>6. ASSUME NEW c \in Calls, Handle(c) PROVE IInv'
  <2>1. CASE ChargeReadsMonth(c)  BY <2>1, ReadsMonthKeeps
  <2>2. CASE ChargeReadsYear(c)  BY <2>2, ReadsYearKeeps
  <2>3. CASE GetSupportedCurrencies(c) \/ Convert(c) \/ ConvertCurrency(c) \/ ChargeRefuses(c)
    BY <2>3, HandleKeeps
  <2> QED  BY <1>6, <2>1, <2>2, <2>3 DEF Handle
<1> QED  BY <1>2, <1>3, <1>4, <1>5, <1>6 DEF Next, ProcessNext

\* What the answers rest on holds in every state of every behavior.
THEOREM NodeInvariant == Spec => []IInv
<1>1. Init => service \in {"currency", "payment"}  BY DEF Init
<1>2. service \in {"currency", "payment"} /\ [Next]_vars => (service \in {"currency", "payment"})'
  BY DEF Next, ProcessNext, Start, Load, Bound, Probe, Tick, CalmDown, Die, Send, Lose, Fail,
         Handle, GetSupportedCurrencies, Convert, ConvertCurrency, ChargeRefuses, Refuse, Reply,
         ChargeReadsMonth, ChargeReadsYear, vars, settings
<1> QED  BY <1>1, <1>2, InitInv, StepInv, PTL DEF Spec

----------------------------------------------------------------------------
(* Type correctness. *)

\* The types of the process and the clock, and those of the calls.
ProcessTypeOK ==
  /\ service \in {"currency", "payment"}
  /\ tracing \in BOOLEAN
  /\ process \in {"down", "loading", "binding", "serving"}
  /\ done \subseteq {"profiler", "instrumentation", "tracedInstrumentation", "exporter",
                     "grpc", "protos", "services", "bind"}
  /\ hooked \in BOOLEAN /\ ready \in BOOLEAN
  /\ now \in FirstMonth .. LastMonth
  /\ calm \in BOOLEAN

CallsTypeOK ==
  /\ request \in [Calls -> RequestsOf(service) \cup {NoRequest}]
  /\ stage \in [Calls -> {"idle", "sent", "dating", "answered", "failed"}]
  /\ \A c \in Calls : answer[c] # NoAnswer <=> stage[c] = "answered"
  /\ currentMonth \in 0 .. 12
  /\ currentMonth > 0 <=> \E c \in Calls : stage[c] = "dating"

LEMMA TypeParts == ASSUME ProcessTypeOK, CallsTypeOK PROVE TypeOK
BY DEF ProcessTypeOK, CallsTypeOK, TypeOK

\* A script is seven of the steps.
LEMMA ScriptSteps ==
  ASSUME NEW s
  PROVE  /\ Len(Script(s)) = 7
         /\ Script(s)[1] = "profiler"
         /\ s = "currency" => /\ Script(s)[2] = "instrumentation"
                              /\ Script(s)[3] = "exporter"
         /\ s # "currency" => /\ Script(s)[2] = "exporter"
                              /\ Script(s)[3] = "tracedInstrumentation"
         /\ Script(s)[4] = "grpc" /\ Script(s)[5] = "protos"
         /\ Script(s)[6] = "services" /\ Script(s)[7] = "bind"
<1>1. CASE s = "currency"
  BY <1>1 DEF Script, Requires, Serves
<1>2. CASE s # "currency"
  BY <1>2 DEF Script, Requires, Serves
<1> QED  BY <1>1, <1>2

\* A step of the script loads it in its order.
LEMMA LoadStep ==
  ASSUME Load
  PROVE  \E i \in 1 .. 7 :
           /\ \A j \in 1 .. i - 1 : Script(service)[j] \in done \cup Skipped
           /\ done' = done \cup {Script(service)[i]}
           /\ Script(service)[i] = "grpc" => hooked' = Instrumented
           /\ Script(service)[i] # "grpc" => hooked' = hooked
           /\ process' = IF Script(service)[i] = "bind" THEN "binding" ELSE "loading"
<1>1. PICK i \in Left :
        /\ \A j \in Left : i <= j
        /\ done' = done \cup {Script(service)[i]}
        /\ hooked' = IF Script(service)[i] = "grpc" THEN Instrumented ELSE hooked
        /\ process' = IF Script(service)[i] = "bind" THEN "binding" ELSE "loading"
  BY DEF Load
<1>2. i \in 1 .. 7
  BY <1>1, ScriptSteps DEF Left
<1>3. \A j \in 1 .. i - 1 : Script(service)[j] \in done \cup Skipped
  <2> SUFFICES ASSUME NEW j \in 1 .. i - 1, Script(service)[j] \notin done \cup Skipped
               PROVE  FALSE
    OBVIOUS
  <2>1. j \in 1 .. 7 /\ j < i  BY <1>2
  <2>2. j \in Left  BY <2>1, ScriptSteps DEF Left
  <2> QED  BY <1>1, <1>2, <2>1, <2>2
<1> QED  BY <1>1, <1>2, <1>3

LEMMA InitType == Init => TypeOK
<1> SUFFICES ASSUME Init PROVE TypeOK
  OBVIOUS
<1>1. ProcessTypeOK
  <2>1. now \in FirstMonth .. LastMonth  BY DEF Init
  <2>2. /\ service \in {"currency", "payment"} /\ tracing \in BOOLEAN
        /\ process = "down" /\ done = {} /\ hooked \in BOOLEAN /\ ready \in BOOLEAN
        /\ calm \in BOOLEAN
    BY DEF Init
  <2> QED  BY <2>1, <2>2 DEF ProcessTypeOK
<1>2. CallsTypeOK  BY DEF Init, CallsTypeOK
<1> QED  BY <1>1, <1>2, TypeParts

\* The process and the clock keep their types, whatever the calls do.
LEMMA ProcessType ==
  ASSUME TypeOK, [Next]_vars
  PROVE  ProcessTypeOK'
<1>0. ProcessTypeOK  BY DEF TypeOK, ProcessTypeOK
<1>1. CASE Load
  <2>1. PICK i \in 1 .. 7 :
          /\ done' = done \cup {Script(service)[i]}
          /\ Script(service)[i] = "grpc" => hooked' = Instrumented
          /\ Script(service)[i] # "grpc" => hooked' = hooked
          /\ process' = IF Script(service)[i] = "bind" THEN "binding" ELSE "loading"
    BY <1>1, LoadStep
  <2>2. Script(service)[i] \in {"profiler", "instrumentation", "tracedInstrumentation", "exporter",
                                "grpc", "protos", "services", "bind"}
    BY ScriptSteps
  <2>3. Instrumented \in BOOLEAN  BY DEF Instrumented
  <2>4. hooked' \in BOOLEAN
    <3>1. hooked \in BOOLEAN  BY <1>0 DEF ProcessTypeOK
    <3>2. hooked' = Instrumented \/ hooked' = hooked  BY <2>1
    <3> QED  BY <2>3, <3>1, <3>2, Zenon
  <2>5. done' \subseteq {"profiler", "instrumentation", "tracedInstrumentation", "exporter",
                         "grpc", "protos", "services", "bind"}
    BY <1>0, <2>1, <2>2 DEF ProcessTypeOK
  <2>6. UNCHANGED <<service, tracing, ready, now, calm>> /\ process' \in {"loading", "binding"}
    BY <1>1, <2>1 DEF Load, settings
  <2> QED  BY <1>0, <2>4, <2>5, <2>6 DEF ProcessTypeOK
<1>2. CASE Start \/ Bound \/ Die \/ Probe \/ CalmDown
  BY <1>0, <1>2 DEF Start, Bound, Die, Probe, CalmDown, settings, processVars, ProcessTypeOK
<1>3. CASE Tick
  <2>1. now' \in FirstMonth .. LastMonth
    BY <1>0, <1>3 DEF Tick, ProcessTypeOK
  <2> QED  BY <1>0, <1>3, <2>1 DEF Tick, settings, processVars, ProcessTypeOK
<1>4. ASSUME NEW c \in Calls, Send(c) \/ Lose(c) \/ Handle(c)
      PROVE  ProcessTypeOK'
  <2>1. UNCHANGED <<settings, processVars, now, calm>>
    BY <1>4 DEF Send, Lose, Handle, GetSupportedCurrencies, Convert, ConvertCurrency,
                ChargeRefuses, Refuse, ChargeReadsMonth, ChargeReadsYear, Reply
  <2> QED  BY <1>0, <2>1 DEF settings, processVars, ProcessTypeOK
<1>5. CASE UNCHANGED vars
  BY <1>0, <1>5 DEF vars, settings, processVars, ProcessTypeOK
<1> QED  BY <1>1, <1>2, <1>3, <1>4, <1>5 DEF Next, ProcessNext

\* Calls that fail keep the types, if one of them has the thread or none of all.
LEMMA FailType ==
  ASSUME TypeOK, NEW calls \in SUBSET Calls, Fail(calls), service' = service,
         \A c \in calls : stage[c] # "answered",
         (\E c \in calls : stage[c] = "dating") => \A c \in Calls \ calls : stage[c] # "dating"
  PROVE  CallsTypeOK'
<1>1. /\ request' = [c \in Calls |-> IF c \in calls THEN NoRequest ELSE request[c]]
      /\ stage' = [c \in Calls |-> IF c \in calls THEN "failed" ELSE stage[c]]
      /\ currentMonth' = IF \E c \in calls : stage[c] = "dating" THEN 0 ELSE currentMonth
      /\ answer' = answer
  BY DEF Fail
<1>2. request' \in [Calls -> RequestsOf(service) \cup {NoRequest}]
  <2>1. request \in [Calls -> RequestsOf(service) \cup {NoRequest}]  BY DEF TypeOK
  <2> QED  BY <1>1, <2>1
<1>3. stage' \in [Calls -> {"idle", "sent", "dating", "answered", "failed"}]
  <2>1. stage \in [Calls -> {"idle", "sent", "dating", "answered", "failed"}]  BY DEF TypeOK
  <2> QED  BY <1>1, <2>1
<1>4. \A c \in Calls : answer'[c] # NoAnswer <=> stage'[c] = "answered"
  BY <1>1 DEF TypeOK
<1>5. currentMonth' \in 0 .. 12 /\ (currentMonth' > 0 <=> \E c \in Calls : stage'[c] = "dating")
  <2>1. /\ currentMonth \in 0 .. 12
        /\ currentMonth > 0 <=> \E c \in Calls : stage[c] = "dating"
    BY DEF TypeOK
  <2>2. CASE \E c \in calls : stage[c] = "dating"
    <3>1. currentMonth' = 0 /\ \A c \in Calls : stage'[c] # "dating"
      BY <1>1, <2>2
    <3> QED  BY <3>1
  <2>3. CASE ~ \E c \in calls : stage[c] = "dating"
    <3>1. currentMonth' = currentMonth
      BY <1>1, <2>3
    <3>2. \A c \in Calls : stage'[c] = "dating" <=> stage[c] = "dating"
      BY <1>1, <2>3
    <3> QED  BY <2>1, <3>1, <3>2
  <2> QED  BY <2>2, <2>3
<1> QED  BY <1>2, <1>3, <1>4, <1>5 DEF CallsTypeOK

\* An answer keeps the types: none is going to be one of no answer, and no other
\* call has the thread.
LEMMA ReplyType ==
  ASSUME TypeOK, IInv, NEW c \in Calls, NEW value, Reply(c, value), value # NoAnswer,
         \A d \in Calls \ {c} : stage[d] # "dating"
  PROVE  CallsTypeOK'
<1>1. /\ stage' = [stage EXCEPT ![c] = "answered"]
      /\ answer' = [answer EXCEPT ![c] = value]
      /\ currentMonth' = 0 /\ request' = request /\ service' = service
  BY DEF Reply, settings
<1>2. DOMAIN answer = Calls  BY DEF IInv, Shapes
<1>3. stage \in [Calls -> {"idle", "sent", "dating", "answered", "failed"}]  BY DEF TypeOK
<1>4. stage' \in [Calls -> {"idle", "sent", "dating", "answered", "failed"}]  BY <1>1, <1>3
<1>5. \A d \in Calls : answer'[d] # NoAnswer <=> stage'[d] = "answered"
  <2>1. stage'[c] = "answered" /\ answer'[c] = value  BY <1>1, <1>2, <1>3
  <2>2. \A d \in Calls \ {c} : stage'[d] = stage[d] /\ answer'[d] = answer[d]
    BY <1>1, <1>2, <1>3
  <2> QED  BY <2>1, <2>2 DEF TypeOK
<1>6. \A d \in Calls : stage'[d] # "dating"  BY <1>1, <1>3
<1> QED  BY <1>1, <1>4, <1>5, <1>6 DEF CallsTypeOK, TypeOK

\* No answer of the servers is the one that stands for none.
LEMMA AnswersAreAnswers ==
  ASSUME NEW c \in Calls, GetSupportedCurrencies(c) \/ Convert(c) \/ ConvertCurrency(c) \/ ChargeRefuses(c)
                            \/ ChargeReadsYear(c)
  PROVE  \E value : Reply(c, value) /\ value # NoAnswer
<1>1. ASSUME NEW value, value.status \in {"ok", "UNKNOWN", "400"}
      PROVE  value # NoAnswer
  BY <1>1 DEF NoAnswer
<1>2. \A from, code : convert(from, code).status \in {"ok", "UNKNOWN", "400"}
  BY DEF convert, OK
<1>3. \A from, code : convertCurrency(from, code).status \in {"ok", "UNKNOWN", "400"}
  BY DEF convertCurrency, OK, BadRequest
<1>4. BadRequest.status \in {"ok", "UNKNOWN", "400"} /\ Unknown.status \in {"ok", "UNKNOWN", "400"}
  BY DEF BadRequest, Unknown
<1>5. CASE GetSupportedCurrencies(c)  BY <1>1, <1>5 DEF GetSupportedCurrencies
<1>6. CASE Convert(c)
  <2>1. PICK value : Reply(c, value) /\ (value = Unknown \/ \E from, code : value = convert(from, code))
    BY <1>6 DEF Convert
  <2> QED  BY <1>1, <1>2, <1>4, <2>1
<1>7. CASE ConvertCurrency(c)
  <2>1. PICK value :
          /\ Reply(c, value)
          /\ value = BadRequest \/ \E from, code : value = convertCurrency(from, code)
    BY <1>7 DEF ConvertCurrency
  <2> QED  BY <1>1, <1>3, <1>4, <2>1
<1>8. CASE ChargeRefuses(c)
  <2>1. PICK value :
          Reply(c, value) /\ (value = Unknown \/ \E why : value = [status |-> "400", why |-> why])
    BY <1>8 DEF ChargeRefuses, Refuse
  <2> QED  BY <1>1, <1>4, <2>1
<1>9. CASE ChargeReadsYear(c)
  <2>1. PICK value : Reply(c, value) /\ value.status \in {"ok", "400"}
    BY <1>9 DEF ChargeReadsYear, Refuse
  <2> QED  BY <1>1, <2>1
<1> QED  BY <1>5, <1>6, <1>7, <1>8, <1>9

\* A handler that answers has the thread for itself.
LEMMA AnswersAlone ==
  ASSUME IInv, NEW c \in Calls,
         GetSupportedCurrencies(c) \/ Convert(c) \/ ConvertCurrency(c) \/ ChargeRefuses(c)
           \/ ChargeReadsYear(c)
  PROVE  \A d \in Calls \ {c} : stage[d] # "dating"
<1>1. CASE ChargeReadsYear(c)  BY <1>1 DEF ChargeReadsYear, IInv, OneDates
<1>2. CASE ConvertCurrency(c)
  <2>1. service = "currency"  BY <1>2 DEF ConvertCurrency, Asks, IInv, CallInv, Asked
  <2> QED  BY <2>1 DEF IInv, CallInv, Asked, Dating
<1>3. CASE Idle  BY <1>3 DEF Idle
<1> QED  BY <1>1, <1>2, <1>3 DEF GetSupportedCurrencies, Convert, ChargeRefuses

\* The calls keep their types.
LEMMA CallsType ==
  ASSUME TypeOK, IInv, [Next]_vars
  PROVE  CallsTypeOK'
<1>1. CASE Start \/ Load \/ Bound \/ Probe \/ Tick \/ CalmDown \/ UNCHANGED vars
  <2>1. UNCHANGED <<service, callVars>>
    BY <1>1 DEF Start, Load, Bound, Probe, Tick, CalmDown, vars, settings
  <2> QED  BY <2>1 DEF callVars, CallsTypeOK, TypeOK
<1>2. CASE Die
  <2> DEFINE calls == {c \in Calls : stage[c] \in {"sent", "dating"} /\ Served(request[c])}
  <2>1. Fail(calls) /\ service' = service  BY <1>2 DEF Die, settings
  <2>2. calls \in SUBSET Calls /\ \A c \in calls : stage[c] # "answered"  OBVIOUS
  <2>3. (\E c \in calls : stage[c] = "dating") => \A c \in Calls \ calls : stage[c] # "dating"
    BY DEF IInv, OneDates
  <2> HIDE DEF calls
  <2> QED  BY <2>1, <2>2, <2>3, FailType
<1>3. ASSUME NEW c \in Calls, Send(c)
      PROVE  CallsTypeOK'
  <2>1. service' = service /\ stage[c] = "idle"  BY <1>3 DEF Send, settings
  <2>2. CASE Fail({c})
    BY <2>1, <2>2, FailType
  <2>3. CASE /\ \E q \in RequestsOf(service) : request' = [request EXCEPT ![c] = q]
             /\ stage' = [stage EXCEPT ![c] = "sent"]
             /\ UNCHANGED <<answer, currentMonth, dates>>
    <3>1. PICK q \in RequestsOf(service) : request' = [request EXCEPT ![c] = q]  BY <2>3
    <3>2. request' \in [Calls -> RequestsOf(service) \cup {NoRequest}]  BY <3>1 DEF TypeOK
    <3>3. stage \in [Calls -> {"idle", "sent", "dating", "answered", "failed"}]  BY DEF TypeOK
    <3>4. /\ stage' \in [Calls -> {"idle", "sent", "dating", "answered", "failed"}]
          /\ stage'[c] = "sent"
          /\ \A d \in Calls \ {c} : stage'[d] = stage[d]
      BY <2>3, <3>3
    <3>5. \A d \in Calls : /\ stage'[d] = "dating" <=> stage[d] = "dating"
                           /\ stage'[d] = "answered" <=> stage[d] = "answered"
      BY <2>1, <3>4
    <3> QED  BY <2>1, <2>3, <3>2, <3>4, <3>5 DEF TypeOK, CallsTypeOK
  <2> QED  BY <1>3, <2>2, <2>3 DEF Send
<1>4. ASSUME NEW c \in Calls, Lose(c)
      PROVE  CallsTypeOK'
  BY <1>4, FailType DEF Lose, settings
<1>5. ASSUME NEW c \in Calls, ChargeReadsMonth(c)
      PROVE  CallsTypeOK'
  <2>1. /\ stage' = [stage EXCEPT ![c] = "dating"]
        /\ currentMonth' = Month(now)
        /\ request' = request /\ answer' = answer /\ service' = service
        /\ stage[c] = "sent"
    BY <1>5 DEF ChargeReadsMonth, Asks, settings
  <2>2. now \in Nat \ {0}  BY DEF IInv, Shapes
  <2>3. Month(now) \in 1 .. 12  BY <2>2 DEF Month
  <2>4. stage \in [Calls -> {"idle", "sent", "dating", "answered", "failed"}]  BY DEF TypeOK
  <2>5. /\ stage' \in [Calls -> {"idle", "sent", "dating", "answered", "failed"}]
        /\ stage'[c] = "dating"
        /\ \A d \in Calls : stage'[d] = "answered" <=> stage[d] = "answered"
    BY <2>1, <2>4
  <2> QED  BY <2>1, <2>3, <2>5 DEF TypeOK, CallsTypeOK
<1>6. ASSUME NEW c \in Calls,
             GetSupportedCurrencies(c) \/ Convert(c) \/ ConvertCurrency(c) \/ ChargeRefuses(c)
               \/ ChargeReadsYear(c)
      PROVE  CallsTypeOK'
  <2>1. PICK value : Reply(c, value) /\ value # NoAnswer  BY <1>6, AnswersAreAnswers
  <2> QED  BY <1>6, <2>1, AnswersAlone, ReplyType
<1> QED  BY <1>1, <1>2, <1>3, <1>4, <1>5, <1>6 DEF Next, ProcessNext, Handle

\* The month of a charge at work is there exactly as long as one is, and a call
\* has an answer exactly when it was answered.
THEOREM NodeTypeCorrect == Spec => []TypeOK
<1>1. TypeOK /\ IInv /\ [Next]_vars => TypeOK'
  <2> SUFFICES ASSUME TypeOK, IInv, [Next]_vars PROVE TypeOK'
    OBVIOUS
  <2>1. ProcessTypeOK' /\ CallsTypeOK'  BY ProcessType, CallsType
  <2> QED  BY <2>1 DEF ProcessTypeOK, CallsTypeOK, TypeOK
<1> QED  BY <1>1, InitType, NodeInvariant, PTL DEF Spec

----------------------------------------------------------------------------
(* The order of the script. *)

Traced == service = "currency" \/ tracing

\* Once the library is loaded it is hooked, if the calls are to be traced, and
\* it is loaded before the server is bound.
ScriptInv ==
  /\ Traced /\ "grpc" \in done => hooked
  /\ process \in {"binding", "serving"} => "grpc" \in done

\* The settings leave out neither the library nor an instrumentation that traces.
LEMMA NeverSkipped ==
  /\ "grpc" \notin Skipped /\ "instrumentation" \notin Skipped
  /\ tracing => "tracedInstrumentation" \notin Skipped
BY DEF Skipped

LEMMA LoadKeepsScript ==
  ASSUME TypeOK, ScriptInv, Load
  PROVE  ScriptInv'
<1> DEFINE S == Script(service)
<1>1. PICK i \in 1 .. 7 :
        /\ \A j \in 1 .. i - 1 : S[j] \in done \cup Skipped
        /\ done' = done \cup {S[i]}
        /\ S[i] = "grpc" => hooked' = Instrumented
        /\ S[i] # "grpc" => hooked' = hooked
        /\ process' = IF S[i] = "bind" THEN "binding" ELSE "loading"
  BY LoadStep
<1>2. UNCHANGED <<service, tracing>>  BY DEF Load, settings
<1>3. i > 3 => S[2] \in done \cup Skipped /\ S[3] \in done \cup Skipped
  BY <1>1
<1>4. i > 4 => "grpc" \in done
  <2>1. S[4] = "grpc"  BY ScriptSteps
  <2> QED  BY <1>1, <2>1, NeverSkipped
<1>5. S[i] = "grpc" /\ Traced => Instrumented
  <2>1. SUFFICES ASSUME i = 4, Traced PROVE Instrumented
    BY ScriptSteps
  <2>2. CASE service = "currency"
    <3>1. S[2] = "instrumentation"  BY <2>2, ScriptSteps
    <3> QED  BY <1>3, <2>1, <3>1, NeverSkipped DEF Instrumented
  <2>3. CASE service # "currency"
    <3>1. S[3] = "tracedInstrumentation" /\ tracing  BY <2>1, <2>3, ScriptSteps DEF Traced
    <3> QED  BY <1>3, <2>1, <3>1, NeverSkipped DEF Instrumented
  <2> QED  BY <2>2, <2>3
<1>6. S[i] = "bind" => i = 7  BY ScriptSteps
<1> HIDE DEF S
<1>7. process' \in {"binding", "serving"} => "grpc" \in done'
  BY <1>1, <1>4, <1>6
<1>8. ASSUME Traced', "grpc" \in done' PROVE hooked'
  <2>1. Traced  BY <1>2, <1>8 DEF Traced
  <2>2. CASE S[i] = "grpc"
    <3>1. Instrumented /\ hooked' = Instrumented  BY <1>1, <1>5, <2>1, <2>2
    <3> QED  BY <3>1, Zenon
  <2>3. CASE S[i] # "grpc"
    <3>1. "grpc" \in done /\ hooked' = hooked  BY <1>1, <1>8, <2>3
    <3>2. hooked  BY <2>1, <3>1 DEF ScriptInv
    <3> QED  BY <3>1, <3>2, Zenon
  <2> QED  BY <2>2, <2>3
<1> QED  BY <1>7, <1>8 DEF ScriptInv

LEMMA ScriptNext == TypeOK /\ ScriptInv /\ [Next]_vars => ScriptInv'
<1> SUFFICES ASSUME TypeOK, ScriptInv, [Next]_vars PROVE ScriptInv'
  OBVIOUS
<1>1. CASE Load  BY <1>1, LoadKeepsScript
<1>2. CASE Die  BY <1>2 DEF Die, ScriptInv
<1>3. CASE Start \/ Bound
  BY <1>3 DEF Start, Bound, settings, ScriptInv, Traced
<1>4. CASE UNCHANGED <<settings, process, done, hooked>>
  BY <1>4 DEF settings, ScriptInv, Traced
<1>5. ASSUME NEW c \in Calls, Send(c) \/ Lose(c) \/ Handle(c)
      PROVE  UNCHANGED <<settings, process, done, hooked>>
  BY <1>5 DEF Send, Lose, Handle, GetSupportedCurrencies, Convert, ConvertCurrency,
              ChargeRefuses, Refuse, ChargeReadsMonth, ChargeReadsYear, Reply, processVars
<1>6. CASE Probe \/ Tick \/ CalmDown \/ UNCHANGED vars
  BY <1>4, <1>6 DEF Probe, Tick, CalmDown, processVars, vars
<1> QED  BY <1>1, <1>2, <1>3, <1>4, <1>5, <1>6 DEF Next, ProcessNext

\* Wherever a process dies and is started again, one that serves was hooked
\* before its library was loaded, if its calls are to be traced.
THEOREM TracesArePropagated == Spec => []TracesPropagate
<1>1. Init => ScriptInv  BY DEF Init, ScriptInv
<1>2. ScriptInv => TracesPropagate  BY DEF ScriptInv, TracesPropagate, Traced
<1> QED  BY <1>1, <1>2, ScriptNext, NodeTypeCorrect, PTL DEF Spec

----------------------------------------------------------------------------

\* What a successful conversion was asked for, and what it was answered.
LEMMA ConversionAnswered ==
  ASSUME IInv, NEW c \in Calls, Converts(c), Succeeded(c)
  PROVE  /\ request[c].ask \in Conversions
         /\ From(c) \in Money /\ Price(From(c))
         /\ IF Known(From(c), To(c)) THEN answer[c].money = Converted(From(c), To(c))
            ELSE request[c].to = "convert" /\ answer[c].money = NaN(To(c))
<1>1. Asked(c) /\ ConvertedAsAsked(c)  BY DEF IInv, CallInv
<1>2. request[c].to \in {"convert", "convertCurrency"} /\ stage[c] = "answered"
      /\ answer[c].status = "ok"
  BY DEF Converts, Succeeded
<1>3. request[c].ask # Absent
  BY <1>1, <1>2 DEF ConvertedAsAsked, Unknown, BadRequest
<1>4. request[c].ask \in Conversions  BY <1>1, <1>2, <1>3 DEF Asked
<1>5. From(c) \in Money /\ Price(From(c))  BY <1>4 DEF From
<1>6. CASE request[c].to = "convert"
  <2>1. answer[c] = convert(From(c), To(c))
    BY <1>1, <1>2, <1>3, <1>6 DEF ConvertedAsAsked, From, To
  <2> QED  BY <1>4, <1>5, <1>6, <2>1 DEF convert, OK
<1>7. CASE request[c].to = "convertCurrency"
  <2>1. answer[c] = convertCurrency(From(c), To(c))
    BY <1>1, <1>2, <1>3, <1>7 DEF ConvertedAsAsked, From, To
  <2> QED  BY <1>2, <1>4, <1>5, <2>1 DEF convertCurrency, OK, BadRequest
<1> QED  BY <1>2, <1>6, <1>7

\* Converted amounts are valid: neither Sum nor Must of the checkout service
\* stumbles over one.
THEOREM ConvertedAmountsAreValid == Spec => []ConvertedIsValid
<1>1. IInv => ConvertedIsValid
  <2> SUFFICES ASSUME IInv, NEW c \in Calls, Converts(c), Succeeded(c)
               PROVE  /\ IsValid(answer[c].money)
                      /\ Price(answer[c].money)
                      /\ answer[c].money.code = To(c)
    BY DEF ConvertedIsValid
  <2>1. CASE Known(From(c), To(c))
    BY <2>1, ConversionAnswered, ConvertedValid DEF Known
  <2>2. CASE ~ Known(From(c), To(c))
    <3>1. answer[c].money = NaN(To(c))  BY <2>2, ConversionAnswered
    <3> QED  BY <3>1, MoneyAssumption DEF NaN, IsValid, signMatches, validNanos, Price
  <2> QED  BY <2>1, <2>2
<1> QED  BY <1>1, NodeInvariant, PTL

\* Converted amounts are off by the two roundings of convert and no more.
THEOREM ConvertedAmountsAreClose == Spec => []ConvertedIsClose
<1>1. IInv => ConvertedIsClose
  BY ConversionAnswered, ConvertedClose DEF ConvertedIsClose, Known
<1> QED  BY <1>1, NodeInvariant, PTL

\* A dearer price is never converted to a cheaper one.
THEOREM ConversionsKeepOrder == Spec => []OrderPreserved
<1>1. IInv => OrderPreserved
  <2> SUFFICES ASSUME IInv, NEW c \in Calls, NEW d \in Calls,
                      Converts(c), Succeeded(c), Converts(d), Succeeded(d),
                      From(c).code = From(d).code, To(c) = To(d),
                      Value(From(c)) <= Value(From(d))
               PROVE  Value(answer[c].money) <= Value(answer[d].money)
    BY DEF OrderPreserved
  <2>1. Known(From(c), To(c)) = Known(From(d), To(d))  BY DEF Known
  <2>2. CASE Known(From(c), To(c))
    <3>1. answer[c].money = Converted(From(c), To(c)) /\ From(c) \in Money /\ Price(From(c))
      BY <2>2, ConversionAnswered
    <3>2. answer[d].money = Converted(From(d), To(c)) /\ From(d) \in Money /\ Price(From(d))
      BY <2>1, <2>2, ConversionAnswered
    <3>3. From(c).code \in Listed /\ To(c) \in Listed  BY <2>2 DEF Known
    <3> QED  BY <3>1, <3>2, <3>3, ConvertedMonotone
  <2>3. CASE ~ Known(From(c), To(c))
    <3>1. answer[c].money = NaN(To(c)) /\ answer[d].money = NaN(To(c))
      BY <2>1, <2>3, ConversionAnswered
    <3>2. Value(NaN(To(c))) \in Int  BY MoneyAssumption DEF NaN, Value
    <3> QED  BY <3>1, <3>2
  <2> QED  BY <2>2, <2>3
<1> QED  BY <1>1, NodeInvariant, PTL

\* No card is charged that had expired when its charge began, and one is refused
\* as expired only if it is, or if a year began between the two readings.
THEOREM CardsAreJudgedByDate == Spec => []CardsJudgedByDate
<1>1. ASSUME IInv, NEW c \in Calls, request[c].to = "charge", stage[c] = "answered",
             dates[c] # <<>> \/ Succeeded(c)
      PROVE  /\ Succeeded(c) => request[c].ask.expires >= dates[c][1]
             /\ ~ Succeeded(c) => \/ request[c].ask.expires < dates[c][1]
                                  \/ Year(dates[c][1]) # Year(dates[c][2])
  <2>1. ChargedByDates(c)  BY <1>1 DEF IInv, CallInv
  <2>2. dates[c] # <<>> /\ request[c].ask \in Cards
    BY <1>1, <2>1 DEF ChargedByDates, Succeeded
  <2>3. PICK a \in Nat \ {0}, b \in Nat \ {0} :
          /\ dates[c][1] = a /\ dates[c][2] = b /\ a <= b
          /\ answer[c].status = IF Year(b) * 12 + Month(a) > request[c].ask.expires
                                THEN "400" ELSE "ok"
    BY <1>1, <2>1, <2>2 DEF ChargedByDates
  <2>4. request[c].ask.expires \in Nat  BY <2>2
  <2>5. Year(b) * 12 + Month(a) \in Int  BY <2>3 DEF Year, Month
  <2>6. ASSUME Succeeded(c) PROVE request[c].ask.expires >= dates[c][1]
    <3>1. ~ Year(b) * 12 + Month(a) > request[c].ask.expires
      BY <2>3, <2>6 DEF Succeeded
    <3>2. Year(b) * 12 + Month(a) >= a  BY <2>3, TwoReadings
    <3> QED  BY <2>3, <2>4, <2>5, <3>1, <3>2
  <2>7. ASSUME ~ Succeeded(c), Year(dates[c][1]) = Year(dates[c][2])
        PROVE  request[c].ask.expires < dates[c][1]
    <3>1. Year(b) * 12 + Month(a) > request[c].ask.expires
      BY <1>1, <2>3, <2>7 DEF Succeeded
    <3>2. Year(a) = Year(b)  BY <2>3, <2>7
    <3>3. Year(b) * 12 + Month(a) = a  BY <2>3, <3>2, TwoReadings
    <3> QED  BY <2>3, <3>1, <3>3
  <2> QED  BY <2>6, <2>7
<1>2. IInv => CardsJudgedByDate
  BY <1>1 DEF CardsJudgedByDate, Succeeded
<1> QED  BY <1>2, NodeInvariant, PTL
=============================================================================
