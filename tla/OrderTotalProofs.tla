-------------------------- MODULE OrderTotalProofs --------------------------
(***************************************************************************)
(* Sum of Money is exact for every size of its integers, and so is the     *)
(* total of an order, for any amounts and quantities.                      *)
(***************************************************************************)
EXTENDS OrderTotal, TLAPS

----------------------------------------------------------------------------
(* Two amounts. *)

\* Numbers in the range of an integer are their own two's complement.
LEMMA WrapFits ==
  ASSUME NEW half \in Nat, half > 0, NEW x \in - half .. half - 1
  PROVE  Wrap(x, half) = x
<1>1. x + half \in 0 .. 2 * half - 1  OBVIOUS
<1>2. (x + half) % (2 * half) = x + half  BY <1>1
<1> QED  BY <1>2 DEF Wrap

\* Products with NanosMod are integers, and grow by it with every unit.
LEMMA Units ==
  ASSUME NEW u \in Int
  PROVE  /\ u * NanosMod \in Int
         /\ (u + 1) * NanosMod = u * NanosMod + NanosMod
         /\ (u - 1) * NanosMod = u * NanosMod - NanosMod
BY MoneyAssumption

\* The nanos of a sum of units are the sum of their nanos.
LEMMA UnitsAdd ==
  ASSUME NEW u \in Int, NEW v \in Int
  PROVE  (u + v) * NanosMod = u * NanosMod + v * NanosMod
BY MoneyAssumption

\* A unit more is NanosMod more.
LEMMA UnitsGrow ==
  ASSUME NEW u \in Int, NEW v \in Int, u <= v
  PROVE  u * NanosMod <= v * NanosMod
BY MoneyAssumption

\* The nanos of two valid amounts carry one unit at most.
LEMMA Carry ==
  ASSUME NEW k \in Int, - 2 * NanosMod < k, k < 2 * NanosMod
  PROVE  \/ k >= NanosMod /\ Quot(k, NanosMod) = 1 /\ Rem(k, NanosMod) = k - NanosMod
         \/ k <= - NanosMod /\ Quot(k, NanosMod) = -1 /\ Rem(k, NanosMod) = k + NanosMod
         \/ - NanosMod < k /\ k < NanosMod /\ Quot(k, NanosMod) = 0 /\ Rem(k, NanosMod) = k
<1> USE MoneyAssumption
<1>1. CASE k >= NanosMod
  <2>1. k \div NanosMod = 1  BY <1>1
  <2> QED  BY <1>1, <2>1 DEF Quot, Rem
<1>2. CASE k <= - NanosMod
  <2>1. (- k) \div NanosMod = 1  BY <1>2
  <2> QED  BY <1>2, <2>1 DEF Quot, Rem
<1>3. CASE 0 <= k /\ k < NanosMod
  <2>1. k \div NanosMod = 0  BY <1>3
  <2> QED  BY <1>3, <2>1 DEF Quot, Rem
<1>4. CASE - NanosMod < k /\ k < 0
  <2>1. (- k) \div NanosMod = 0  BY <1>4
  <2> QED  BY <1>4, <2>1 DEF Quot, Rem
<1> QED  BY <1>1, <1>2, <1>3, <1>4

\* What Sum returns is an amount, and the exact one, if the integers hold it.
THEOREM SumExact ==
  ASSUME NEW l \in Money, NEW r \in Money, ~ SumFails(l, r), ~ Overflows(l, r)
  PROVE  Sum(l, r) \in Money /\ Value(Sum(l, r)) = Value(l) + Value(r)
<1> DEFINE u == l.units + r.units
           k == l.nanos + r.nanos
           M == NanosMod
           H == UnitsHalf
<1>1. /\ u \in Int /\ k \in Int
      /\ l.units \in - H .. H - 1 /\ r.units \in - H .. H - 1
      /\ l.nanos \in 1 - M .. M - 1 /\ r.nanos \in 1 - M .. M - 1
      /\ signMatches(l) /\ signMatches(r)
      /\ l.code \in Codes
  BY MoneyAssumption DEF Money, SumFails, IsValid, validNanos
<1>2. - 2 * M < k /\ k < 2 * M
  BY <1>1, MoneyAssumption
<1>3. /\ Value(l) + Value(r) = u * M + k
      /\ u * M \in Int
  <2>1. l.units \in Int /\ r.units \in Int  BY <1>1, MoneyAssumption
  <2>2. u * M = l.units * M + r.units * M  BY <2>1, UnitsAdd, Zenon
  <2>3. l.units * M \in Int /\ r.units * M \in Int  BY <2>1, Units, Zenon
  <2> QED  BY <1>1, <2>2, <2>3 DEF Value
<1>4. /\ - (H + 1) * M < u * M + k
      /\ u * M + k < H * M
  BY <1>3, <1>1, MoneyAssumption DEF Overflows, Representable
<1>5. u = 0 => k >= M - NanosHalf
  BY <1>1, MoneyAssumption DEF Overflows
<1>6. u \in - H .. H - 1
  <2>1. ASSUME u >= H PROVE FALSE
    <3>1. l.units > 0 /\ r.units > 0  BY <1>1, <2>1, MoneyAssumption
    <3>2. k >= 0  BY <1>1, <3>1 DEF signMatches
    <3>3. u * M >= H * M  BY <1>1, <2>1, UnitsGrow, MoneyAssumption
    <3> QED  BY <1>1, <1>3, <1>4, <3>2, <3>3, MoneyAssumption
  <2>2. ASSUME u < - H PROVE FALSE
    <3>1. l.units < 0 /\ r.units < 0  BY <1>1, <2>2, MoneyAssumption
    <3>2. k <= 0  BY <1>1, <3>1 DEF signMatches
    <3>3. u * M <= (- (H + 1)) * M  BY <1>1, <2>2, UnitsGrow, MoneyAssumption
    <3>4. (- (H + 1)) * M = - (H + 1) * M  BY MoneyAssumption
    <3> QED  BY <1>1, <1>3, <1>4, <3>2, <3>3, <3>4, MoneyAssumption
  <2> QED  BY <1>1, <2>1, <2>2, MoneyAssumption
<1>7. Wrap(u, H) = u
  BY <1>6, WrapFits, MoneyAssumption
\* The units and nanos of the sum are in range and make up the same value.
<1> DEFINE fits(s) == /\ s.units \in - H .. H - 1
                      /\ s.nanos \in - NanosHalf .. NanosHalf - 1
                      /\ s.units * M + s.nanos = u * M + k
<1>8. fits(Normal(u, k))
  <2>1. CASE (u = 0 /\ k = 0) \/ (u > 0 /\ k >= 0) \/ (u < 0 /\ k <= 0)
    <3>1. Normal(u, k) = [units |-> Wrap(u + Quot(k, M), H), nanos |-> Rem(k, M)]
      BY <2>1 DEF Normal
    <3>2. CASE k >= M
      <4>1. Quot(k, M) = 1 /\ Rem(k, M) = k - M  BY <1>1, <1>2, <3>2, Carry, MoneyAssumption
      <4>2. (u + 1) * M = u * M + M  BY <1>1, Units
      <4>3. u + 1 < H
        <5>1. ASSUME H <= u + 1 PROVE H * M <= (u + 1) * M  BY <1>1, <5>1, UnitsGrow, MoneyAssumption
        <5> QED  BY <1>1, <1>3, <1>4, <3>2, <4>2, <5>1, MoneyAssumption
      <4>4. Wrap(u + 1, H) = u + 1  BY <1>1, <1>6, <4>3, WrapFits, MoneyAssumption
      <4> QED  BY <1>1, <1>2, <1>3, <1>6, <3>1, <3>2, <4>1, <4>2, <4>3, <4>4, MoneyAssumption
    <3>3. CASE k <= - M
      <4>1. Quot(k, M) = -1 /\ Rem(k, M) = k + M  BY <1>1, <1>2, <3>3, Carry, MoneyAssumption
      <4>2. (u - 1) * M = u * M - M  BY <1>1, Units
      <4>3. - H <= u - 1
        <5>1. ASSUME u <= - H PROVE u * M <= (- H) * M  BY <1>1, <5>1, UnitsGrow, MoneyAssumption
        <5>2. (- (H + 1)) * M = - (H + 1) * M  BY MoneyAssumption
        <5>3. (- H - 1) * M = (- H) * M - M  BY Units, MoneyAssumption
        <5>4. - H - 1 = - (H + 1)  BY MoneyAssumption
        <5>5. (- H) * M \in Int  BY MoneyAssumption
        <5> QED  BY <1>1, <1>3, <1>4, <3>3, <5>1, <5>2, <5>3, <5>4, <5>5, MoneyAssumption
      <4>4. Wrap(u - 1, H) = u - 1  BY <1>1, <1>6, <4>3, WrapFits, MoneyAssumption
      <4>5. u + Quot(k, M) = u - 1  BY <4>1, <1>1
      <4> QED  BY <1>1, <1>2, <1>3, <1>6, <3>1, <3>3, <4>1, <4>2, <4>3, <4>4, <4>5, MoneyAssumption
    <3>4. CASE - M < k /\ k < M
      <4>1. Quot(k, M) = 0 /\ Rem(k, M) = k  BY <1>1, <1>2, <3>4, Carry, MoneyAssumption
      <4> QED  BY <1>1, <1>3, <1>6, <1>7, <3>1, <3>4, <4>1, MoneyAssumption
    <3> QED  BY <1>1, <3>2, <3>3, <3>4, MoneyAssumption
  <2>2. CASE u > 0 /\ k < 0
    <3>1. Normal(u, k) = [units |-> u - 1, nanos |-> k + M]  BY <1>1, <2>2 DEF Normal
    <3> QED  BY <1>1, <1>2, <1>3, <1>6, <2>2, <3>1, Units, MoneyAssumption
  <2>3. CASE (u < 0 /\ k > 0) \/ (u = 0 /\ k # 0)
    <3>1. Normal(u, k) = [units |-> u + 1, nanos |-> Wrap(k - M, NanosHalf)]
      BY <1>1, <2>3 DEF Normal
    <3>2. k - M \in - NanosHalf .. NanosHalf - 1
      <4>1. CASE u = 0  BY <1>1, <1>2, <1>5, <4>1, MoneyAssumption
      <4>2. CASE k > 0  BY <1>1, <1>2, <4>2, MoneyAssumption
      <4> QED  BY <2>3, <4>1, <4>2
    <3>3. Wrap(k - M, NanosHalf) = k - M
      BY <3>2, WrapFits, MoneyAssumption
    <3>4. (u + 1) * M = u * M + M  BY <1>1, Units
    <3>5. u + 1 \in - H .. H - 1  BY <1>1, <1>6, <2>3, MoneyAssumption
    <3> QED  BY <1>1, <1>3, <3>1, <3>2, <3>3, <3>4, <3>5, MoneyAssumption
  <2> HIDE DEF fits, u, k
  <2>4. u \in Int /\ k \in Int
    BY <1>1
  <2> QED  BY <2>1, <2>2, <2>3, <2>4
<1>9. Sum(l, r) = [units |-> Normal(u, k).units, nanos |-> Normal(u, k).nanos, code |-> l.code]
  BY <1>7 DEF Sum
<1> QED  BY <1>1, <1>3, <1>8, <1>9 DEF Money, Value

----------------------------------------------------------------------------
(* The total of an order. *)

USE OrderAssumption

LEMMA ValueIsInt ==
  ASSUME NEW m \in Money
  PROVE  Value(m) \in Int
BY MoneyAssumption DEF Money, Value

\* Must(Sum(l, r)) panics, overflows or gives the exact sum.
LEMMA MustAdds ==
  ASSUME NEW l \in Money, NEW r \in Money, ~ SumFails(l, r), ~ Overflows(l, r)
  PROVE  /\ Sum(l, r) \in Money
         /\ Value(Sum(l, r)) = Value(l) + Value(r)
         /\ Value(l) \in Int /\ Value(r) \in Int
BY SumExact, ValueIsInt

LEMMA ZeroValue == Zero \in Money /\ Value(Zero) = 0
BY MoneyAssumption DEF Zero, Money, Value

LEMMA InitInv == Init => IInv
<1> SUFFICES ASSUME Init PROVE IInv
  OBVIOUS
<1>1. items \in Seq(Items)  BY DEF Init
<1>2. shipping \in Money /\ Value(shipping) \in Int  BY ValueIsInt DEF Init
<1>3. TypeOK
  <2>1. pc \in {"shipping", "items"} /\ next = 1 /\ overflown \in BOOLEAN /\ shipping \in Amounts
    BY DEF Init
  <2> QED  BY <1>1, <2>1 DEF TypeOK
<1>4. Exactly
  <2>1. CASE place = "orderPage"  BY <1>2, <2>1 DEF Init, Exactly
  <2>2. CASE place # "orderPage"  BY <2>2, ZeroValue DEF Init, Exactly
  <2> QED  BY <2>1, <2>2
<1>5. pc # "multiply"  BY DEF Init
<1> QED  BY <1>3, <1>4, <1>5 DEF IInv

LEMMA StepInv == IInv /\ [Next]_vars => IInv'
<1> SUFFICES ASSUME IInv, [Next]_vars PROVE IInv'
  OBVIOUS
<1>1. CASE AddShipping
  <2>1. TypeOK'  BY <1>1 DEF IInv, TypeOK, AddShipping, Must, order
  <2>2. ASSUME ~ overflown' PROVE Exactly' /\ pc' # "multiply"
    <3>1. ~ overflown /\ Exactly /\ pc # "panicked" /\ shipping \in Money
      BY <1>1, <2>2 DEF IInv, TypeOK, AddShipping, Must
    <3>2. exact' = exact + Value(shipping)  BY <1>1 DEF AddShipping
    <3>3. Value(shipping) \in Int  BY <3>1, ValueIsInt
    <3>4. CASE SumFails(total, shipping)
      BY <1>1, <3>1, <3>2, <3>3, <3>4 DEF AddShipping, Must, Exactly
    <3>5. CASE ~ SumFails(total, shipping)
      <4>1. total' = Sum(total, shipping) /\ ~ Overflows(total, shipping) /\ pc' # "multiply"
        BY <1>1, <2>2, <3>5 DEF AddShipping, Must
      <4> QED  BY <3>1, <3>2, <3>3, <3>5, <4>1, MustAdds DEF Exactly
    <3> QED  BY <3>4, <3>5
  <2> QED  BY <2>1, <2>2 DEF IInv
<1>2. CASE NextItem
  <2>1. TypeOK'  BY <1>2 DEF IInv, TypeOK, NextItem, order, ghosts
  <2>2. ASSUME ~ overflown' PROVE Exactly' /\ Multiplying'
    <3>1. ~ overflown /\ Exactly  BY <1>2, <2>2 DEF IInv, NextItem, ghosts
    <3>2. Exactly'  BY <1>2, <3>1 DEF NextItem, Exactly, ghosts
    <3>3. items[next] \in Items  BY <1>2 DEF IInv, TypeOK, NextItem
    <3>4. /\ items[next].cost \in Money /\ items[next].quantity \in Nat
          /\ Times(items[next].quantity) \in Int
      <4>1. items[next].cost \in Money /\ items[next].quantity \in Nat  BY <3>3 DEF Items
      <4> QED  BY <4>1 DEF Times
    <3>5. Value(items[next].cost) \in Int  BY <3>4, ValueIsInt
    <3>6. (Times(items[next].quantity) - Times(items[next].quantity) + 1) * Value(items[next].cost)
            = Value(items[next].cost)
      BY <3>4, <3>5
    <3>7. /\ items' = items /\ next' = next /\ next <= Len(items)
          /\ out' = items[next].cost /\ n' = items[next].quantity
      BY <1>2 DEF NextItem, order
    <3>8. Times(n') = Times(items[next].quantity)  BY <3>7 DEF Times
    <3> QED  BY <3>2, <3>4, <3>6, <3>7, <3>8 DEF Multiplying, Times
  <2> QED  BY <2>1, <2>2 DEF IInv
<1>3. CASE Multiply
  <2>1. TypeOK'  BY <1>3 DEF IInv, TypeOK, Multiply, Must, order
  <2>2. ASSUME ~ overflown' PROVE Exactly' /\ (pc' = "multiply" => Multiplying')
    <3> DEFINE item == items[next]
    <3>1. ~ overflown /\ Exactly /\ Multiplying /\ next \in Nat \ {0} /\ items \in Seq(Items)
      BY <1>3, <2>2 DEF IInv, TypeOK, Multiply, Must
    <3>2. item \in Items  BY <3>1 DEF Multiplying
    <3>3. item.cost \in Money /\ item.quantity \in Nat /\ Value(item.cost) \in Int
      BY <3>2, ValueIsInt DEF Items
    <3>4. Exactly'  BY <1>3, <3>1 DEF Multiply, Must, Exactly
    <3>5. ASSUME pc' = "multiply" PROVE Multiplying'
      <4>1. ~ SumFails(out, item.cost) /\ ~ Overflows(out, item.cost) /\ out' = Sum(out, item.cost)
        BY <1>3, <2>2, <3>5 DEF Multiply, Must
      <4>2. out' \in Money /\ Value(out') = Value(out) + Value(item.cost)
        BY <3>1, <3>3, <4>1, MustAdds DEF Multiplying
      <4>3. /\ n \in Nat /\ n > 1 /\ n <= item.quantity
            /\ n' = n - 1 /\ next' = next /\ items' = items
        BY <1>3, <3>1, <3>3 DEF Multiply, Multiplying, order
      <4>4. Times(n') = Times(n) - 1 /\ Times(n) \in Nat /\ Times(item.quantity) \in Nat
        BY <3>3, <4>3 DEF Times
      <4>5. ASSUME NEW k \in Int, NEW v \in Int PROVE k * v + v = (k + 1) * v
        OBVIOUS
      <4>6. Value(out') = (Times(item.quantity) - Times(n') + 1) * Value(item.cost)
        <5>1. Times(item.quantity) - Times(n) + 1 \in Int  BY <4>4
        <5>2. Times(item.quantity) - Times(n') + 1 = (Times(item.quantity) - Times(n) + 1) + 1
          BY <4>4
        <5> QED  BY <3>1, <3>3, <4>2, <4>5, <5>1, <5>2 DEF Multiplying
      <4>7. next' <= Len(items')  BY <3>1, <4>3 DEF Multiplying
      <4>8. n' \in 0 .. item.quantity  BY <3>3, <4>3
      <4> QED  BY <4>2, <4>3, <4>6, <4>7, <4>8 DEF Multiplying, Times
    <3> QED  BY <3>4, <3>5
  <2> QED  BY <2>1, <2>2 DEF IInv
<1>4. CASE AddItem
  <2>1. TypeOK'
    <3>1. TypeOK  BY DEF IInv
    <3>2. /\ shipping' = shipping /\ items' = items /\ next' = next + 1
          /\ pc' \in {"panicked", "items"}
      BY <1>4 DEF AddItem, Must, order
    <3>3. overflown' \in BOOLEAN  BY <1>4, <3>1 DEF AddItem, Must, TypeOK
    <3> QED  BY <3>1, <3>2, <3>3 DEF TypeOK
  <2>2. ASSUME ~ overflown' PROVE Exactly' /\ pc' # "multiply"
    <3> DEFINE item == items[next]
    <3>1. ~ overflown /\ Exactly /\ Multiplying /\ next \in Nat \ {0} /\ items \in Seq(Items)
      BY <1>4, <2>2 DEF IInv, TypeOK, AddItem, Must
    <3>2. pc # "panicked" /\ exact' = exact + Times(item.quantity) * Value(item.cost)
      BY <1>4 DEF AddItem
    <3>3. item \in Items  BY <3>1 DEF Multiplying
    <3>4. /\ item.cost \in Money /\ item.quantity \in Nat /\ Value(item.cost) \in Int
          /\ Times(item.quantity) \in Int
      <4>1. item.cost \in Money /\ item.quantity \in Nat  BY <3>3 DEF Items
      <4> QED  BY <4>1, ValueIsInt DEF Times
    <3>5. n \in Int /\ n <= 1 /\ n >= 0  BY <1>4, <3>1, <3>4 DEF AddItem, Multiplying
    <3>6. Times(n) = 1  BY <3>5 DEF Times
    <3>7. Value(out) = Times(item.quantity) * Value(item.cost) /\ out \in Money
      <4>1. Times(item.quantity) - Times(n) + 1 = Times(item.quantity)  BY <3>4, <3>6
      <4> QED  BY <3>1, <4>1 DEF Multiplying
    <3>8. Value(out) \in Int  BY <3>7, ValueIsInt
    <3>9. exact' = exact + Value(out)  BY <3>2, <3>7
    <3>10. CASE SumFails(total, out)
      <4>1. pc' = "panicked" /\ total' = total  BY <1>4, <3>10 DEF AddItem, Must
      <4> QED  BY <3>1, <3>8, <3>9, <4>1 DEF Exactly
    <3>11. CASE ~ SumFails(total, out)
      <4>1. total' = Sum(total, out) /\ ~ Overflows(total, out) /\ pc' = "items"
        BY <1>4, <2>2, <3>11 DEF AddItem, Must
      <4>2. total' \in Money /\ Value(total') = Value(total) + Value(out)
        BY <3>1, <3>7, <3>11, <4>1, MustAdds DEF Exactly
      <4> QED  BY <3>1, <3>2, <3>8, <3>9, <4>1, <4>2 DEF Exactly
    <3> QED  BY <3>10, <3>11
  <2> QED  BY <2>1, <2>2 DEF IInv
<1>5. CASE NoMoreItems
  BY <1>5 DEF IInv, TypeOK, Exactly, NoMoreItems, order, ghosts
<1>6. CASE UNCHANGED vars
  BY <1>6 DEF IInv, TypeOK, Exactly, Multiplying, vars, order, ghosts
<1> QED  BY <1>1, <1>2, <1>3, <1>4, <1>5, <1>6 DEF Next

\* Whatever the order, what has been added up of it is exact until an integer
\* overflows.
THEOREM Invariance == Spec => []IInv
<1>1. Init => IInv  BY InitInv
<1>2. IInv /\ [Next]_vars => IInv'  BY StepInv
<1> QED  BY <1>1, <1>2, PTL DEF Spec

\* For any prices, quantities and shipping cost: a total that was reached is
\* exact unless an integer overflowed.
THEOREM Exactness == Spec => []TotalIsExact
<1>1. IInv => TotalIsExact  BY DEF IInv, Exactly, TotalIsExact
<1> QED  BY <1>1, Invariance, PTL

----------------------------------------------------------------------------
(* Ordinary amounts. *)

\* The parts of an ordinary amount.
LEMMA OrdinaryParts ==
  ASSUME NEW m \in Money, Ordinary(m)
  PROVE  /\ m.units \in Nat /\ m.nanos \in 0 .. NanosMod - 1
         /\ m.units = 0 => m.nanos = 0
         /\ m.code = Currency
<1> USE MoneyAssumption
<1>1. m.units \in Int /\ m.nanos \in 1 - NanosMod .. NanosMod - 1 /\ signMatches(m)
  BY DEF Money, Ordinary, IsValid, validNanos
<1>2. m.code = Currency  BY DEF Ordinary
<1>3. CASE m.units > 0
  BY <1>1, <1>2, <1>3 DEF signMatches
<1>4. CASE ~ m.units > 0
  <2>1. m.units * NanosMod + m.nanos = 0  BY <1>4 DEF Ordinary, Value
  <2>2. CASE m.units = 0
    <3>1. m.units * NanosMod = 0  BY <2>2
    <3> QED  BY <1>1, <1>2, <2>1, <2>2, <3>1
  <2>3. CASE m.units < 0
    <3>1. m.units * NanosMod <= (-1) * NanosMod  BY <1>1, <2>3, UnitsGrow
    <3>2. m.units * NanosMod \in Int  BY <1>1, Units
    <3> QED  BY <1>1, <2>1, <3>1, <3>2
  <2> QED  BY <1>1, <1>4, <2>2, <2>3
<1> QED  BY <1>3, <1>4

\* A sum of ordinary amounts that fits its integers is ordinary.
LEMMA OrdinarySum ==
  ASSUME NEW l \in Money, NEW r \in Money, Ordinary(l), Ordinary(r), ~ Overflows(l, r)
  PROVE  ~ SumFails(l, r) /\ Sum(l, r) \in Money /\ Ordinary(Sum(l, r))
<1> USE MoneyAssumption
<1> DEFINE M == NanosMod
           H == UnitsHalf
           u == l.units + r.units
           v == l.nanos + r.nanos
<1>1. ~ SumFails(l, r)  BY DEF Ordinary, SumFails
<1>2. Sum(l, r) \in Money  BY <1>1, SumExact
<1>3. /\ l.units \in Nat /\ l.nanos \in 0 .. M - 1 /\ (l.units = 0 => l.nanos = 0)
      /\ r.units \in Nat /\ r.nanos \in 0 .. M - 1 /\ (r.units = 0 => r.nanos = 0)
      /\ l.code = Currency
  BY OrdinaryParts
<1>4. u \in Nat /\ v \in 0 .. 2 * M - 2 /\ (u = 0 => v = 0)
  <2>1. u \in Nat /\ (u = 0 => l.units = 0 /\ r.units = 0)  BY <1>3
  <2>2. v \in 0 .. 2 * M - 2  BY <1>3
  <2> QED  BY <1>3, <2>1, <2>2
<1>5. u * M + v < H * M
  <2>1. Value(l) + Value(r) < H * M  BY DEF Overflows, Representable
  <2>2. u * M = l.units * M + r.units * M  BY <1>3, UnitsAdd
  <2>3. l.units * M \in Int /\ r.units * M \in Int  BY <1>3, Units
  <2> QED  BY <1>3, <2>1, <2>2, <2>3 DEF Value
<1> HIDE DEF u, v
<1>6. ASSUME NEW k \in Nat, NEW rest \in 0 .. M - 1, u * M + v = k * M + rest
      PROVE  k < H
  <2>1. SUFFICES ASSUME H <= k PROVE FALSE  OBVIOUS
  <2>2. H * M <= k * M  BY <2>1, UnitsGrow
  <2>3. H * M \in Int /\ k * M \in Int  BY Units
  <2> QED  BY <1>5, <1>6, <2>2, <2>3
<1>7. PICK q \in 0 .. 1 :
        /\ Quot(v, M) = q /\ Rem(v, M) = v - q * M /\ v - q * M \in 0 .. M - 1
  <2>1. - 2 * M < v /\ v < 2 * M /\ v >= 0  BY <1>4
  <2>2. CASE v >= M
    <3>1. Quot(v, M) = 1 /\ Rem(v, M) = v - M  BY <1>4, <2>1, <2>2, Carry
    <3> QED  BY <1>4, <2>2, <3>1
  <2>3. CASE v < M
    <3>1. Quot(v, M) = 0 /\ Rem(v, M) = v  BY <1>4, <2>1, <2>3, Carry
    <3> QED  BY <1>4, <2>1, <2>3, <3>1
  <2> QED  BY <1>4, <2>2, <2>3
<1>8. u * M \in Int /\ (u + q) * M = u * M + q * M /\ q * M \in Int
  BY <1>4, <1>7, UnitsAdd, Units
<1>9. u + q < H /\ u + q \in Nat /\ u < H
  <2>1. u + q \in Nat  BY <1>4, <1>7
  <2>2. u * M + v = (u + q) * M + (v - q * M)  BY <1>4, <1>7, <1>8
  <2>3. u + q < H  BY <1>6, <1>7, <2>1, <2>2
  <2> QED  BY <1>4, <1>7, <2>1, <2>3
<1>10. Wrap(u, H) = u /\ Wrap(u + q, H) = u + q
  <2>1. u \in - H .. H - 1 /\ u + q \in - H .. H - 1 /\ H > 0  BY <1>4, <1>7, <1>9
  <2> QED  BY <2>1, WrapFits
<1>11. Sum(l, r) = [units |-> u + q, nanos |-> v - q * M, code |-> Currency]
  <2>1. Normal(u, v) = [units |-> u + q, nanos |-> v - q * M]
    BY <1>4, <1>7, <1>10 DEF Normal
  <2> QED  BY <1>3, <1>10, <2>1 DEF Sum, u, v
<1>12. CASE u = 0
  <2>1. v = 0 /\ q = 0  BY <1>4, <1>7, <1>12
  <2>2. Sum(l, r) = [units |-> 0, nanos |-> 0, code |-> Currency]  BY <1>11, <1>12, <2>1
  <2> QED
    BY <1>1, <1>2, <2>2 DEF Ordinary, IsValid, signMatches, validNanos, Value
<1>13. CASE u > 0
  <2>1. /\ Sum(l, r).units = u + q /\ Sum(l, r).units > 0
        /\ Sum(l, r).nanos = v - q * M /\ Sum(l, r).code = Currency
    BY <1>4, <1>7, <1>11, <1>13
  <2>2. Sum(l, r).nanos >= 0 /\ Sum(l, r).nanos <= NanosMod - 1  BY <1>7, <2>1
  <2>3. IsValid(Sum(l, r))
    <3> DEFINE s == Sum(l, r)
    <3>1. s.units \in Int /\ s.units > 0 /\ s.nanos \in 0 .. NanosMod - 1
      BY <1>4, <1>7, <1>9, <2>1
    <3>2. signMatches(s)  BY <3>1 DEF signMatches
    <3>3. validNanos(s.nanos)  BY <3>1 DEF validNanos
    <3> QED  BY <3>2, <3>3 DEF IsValid
  <2> QED  BY <1>1, <1>2, <2>1, <2>3 DEF Ordinary
<1> QED  BY <1>4, <1>12, <1>13

\* All amounts of the order are ordinary.
OrdinaryOrder ==
  Ordinary(shipping) /\ \A i \in DOMAIN items : Ordinary(items[i].cost)

\* They stay so on the way, and nothing panics.
OrdinaryInv ==
  /\ IInv
  /\ OrdinaryOrder /\ ~ overflown =>
       /\ pc # "panicked"
       /\ Ordinary(total)
       /\ pc = "multiply" => Ordinary(out)

LEMMA InitOrdinary == Init => OrdinaryInv
<1> SUFFICES ASSUME Init PROVE OrdinaryInv
  OBVIOUS
<1>1. Ordinary(Zero)
  BY ZeroValue, MoneyAssumption DEF Zero, Ordinary, IsValid, signMatches, validNanos
<1>2. pc # "panicked" /\ pc # "multiply" /\ total \in {shipping, Zero}  BY DEF Init
<1> QED  BY <1>1, <1>2, InitInv DEF OrdinaryInv, OrdinaryOrder

LEMMA StepOrdinary == OrdinaryInv /\ [Next]_vars => OrdinaryInv'
<1> SUFFICES ASSUME OrdinaryInv, [Next]_vars, OrdinaryOrder', ~ overflown'
             PROVE  /\ pc' # "panicked"
                    /\ Ordinary(total')
                    /\ pc' = "multiply" => Ordinary(out')
  BY StepInv DEF OrdinaryInv, Ordinary
<1>0. overflown \in BOOLEAN  BY DEF OrdinaryInv, IInv, TypeOK
<1>1. UNCHANGED order /\ ~ overflown
  <2>1. UNCHANGED order
    BY DEF Next, AddShipping, NextItem, Multiply, AddItem, NoMoreItems, vars, order
  <2>2. ASSUME overflown PROVE FALSE
    <3>1. overflown' = overflown \/ overflown' = TRUE
      BY <2>2 DEF Next, AddShipping, NextItem, Multiply, AddItem, NoMoreItems, Must, vars, ghosts
    <3> QED  BY <2>2, <3>1
  <2> QED  BY <2>1, <2>2
<1>2. OrdinaryOrder  BY <1>1 DEF OrdinaryOrder, order, Ordinary
<1>3. /\ pc # "panicked" /\ Ordinary(total) /\ (pc = "multiply" => Ordinary(out))
      /\ TypeOK /\ Exactly /\ (pc = "multiply" => Multiplying)
  BY <1>1, <1>2 DEF OrdinaryInv, IInv
<1>4. total \in Money /\ shipping \in Money  BY <1>3 DEF Exactly, TypeOK
<1>5. CASE AddShipping
  <2>1. ~ Overflows(total, shipping) \/ SumFails(total, shipping)
    BY <1>5 DEF AddShipping, Must
  <2>2. ~ SumFails(total, shipping)  BY <1>2, <1>3 DEF OrdinaryOrder, Ordinary, SumFails
  <2>3. Ordinary(Sum(total, shipping))
    BY <1>2, <1>3, <1>4, <2>1, <2>2, OrdinarySum DEF OrdinaryOrder
  <2> QED  BY <1>5, <2>2, <2>3 DEF AddShipping, Must
<1>6. CASE NextItem
  <2>1. next \in DOMAIN items  BY <1>3, <1>6 DEF NextItem, TypeOK
  <2> QED  BY <1>2, <1>3, <1>6, <2>1 DEF NextItem, OrdinaryOrder
<1>7. CASE Multiply
  <2>1. next \in DOMAIN items /\ out \in Money /\ items[next].cost \in Money
    <3>1. next \in DOMAIN items  BY <1>3, <1>7 DEF Multiply, Multiplying, TypeOK
    <3>2. items[next] \in Items  BY <1>3, <3>1 DEF TypeOK
    <3> QED  BY <1>3, <1>7, <3>1, <3>2 DEF Multiply, Multiplying, Items
  <2>2. Ordinary(out) /\ Ordinary(items[next].cost)
    BY <1>2, <1>3, <1>7, <2>1 DEF Multiply, OrdinaryOrder
  <2>3. ~ SumFails(out, items[next].cost)  BY <2>2 DEF Ordinary, SumFails
  <2>4. ~ Overflows(out, items[next].cost)  BY <1>7, <2>3 DEF Multiply, Must
  <2>5. Ordinary(Sum(out, items[next].cost))  BY <2>1, <2>2, <2>4, OrdinarySum
  <2> QED  BY <1>3, <1>7, <2>3, <2>5 DEF Multiply, Must
<1>8. CASE AddItem
  <2>1. out \in Money /\ Ordinary(out)  BY <1>3, <1>8 DEF AddItem, Multiplying
  <2>2. ~ SumFails(total, out)  BY <1>3, <2>1 DEF Ordinary, SumFails
  <2>3. ~ Overflows(total, out)  BY <1>8, <2>2 DEF AddItem, Must
  <2>4. Ordinary(Sum(total, out))  BY <1>3, <1>4, <2>1, <2>3, OrdinarySum
  <2> QED  BY <1>8, <2>2, <2>4 DEF AddItem, Must
<1>9. CASE NoMoreItems \/ UNCHANGED vars
  BY <1>3, <1>9 DEF NoMoreItems, vars, Ordinary
<1> QED  BY <1>5, <1>6, <1>7, <1>8, <1>9 DEF Next

\* Prices and a shipping cost of a unit or more, or of nothing, never make the
\* addition panic, unless int64 overflows.
THEOREM OrdinaryOrdersAddUp == Spec => []OrdinaryNeverPanics
<1>1. OrdinaryInv => OrdinaryNeverPanics
  BY DEF OrdinaryInv, OrdinaryOrder, OrdinaryNeverPanics
<1> QED  BY <1>1, InitOrdinary, StepOrdinary, PTL DEF Spec
=============================================================================
