----------------------------- MODULE OrderTotal -----------------------------
(***************************************************************************)
(* How the total of an order is added up, three times over: by PlaceOrder  *)
(* of src/src/checkoutservice/main.go before the card is charged, and by   *)
(* the cart page and the order page of src/src/frontend/handlers.go.       *)
(***************************************************************************)
EXTENDS Money, Sequences

CONSTANTS
  Amounts,       \* prices and shipping costs, as the converters return them
  Quantities,    \* uint32
  MaxItems,      \* bound on the items of an order
  Currency       \* what the user pays in

ASSUME OrderAssumption ==
  /\ Amounts \subseteq Money
  /\ Quantities \subseteq Nat
  /\ MaxItems \in Nat
  /\ Currency \in Codes

VARIABLES
  place,         \* "checkout", "cartPage" or "orderPage"
  shipping, items,
  pc,            \* the next thing to add, or the end
  next,          \* the item to be added next
  out, n,        \* MultiplySlow
  total,
  \* ghosts
  exact,         \* what the total should be
  overflown      \* some sum was too large for its integers

order == <<place, shipping, items>>
ghosts == <<exact, overflown>>
vars == <<order, pc, next, out, n, total, ghosts>>

Zero == [units |-> 0, nanos |-> 0, code |-> Currency]
Places == {"checkout", "cartPage", "orderPage"}
Items == [cost : Amounts, quantity : Quantities]

Init ==
  /\ place \in Places
  /\ shipping \in Amounts
  /\ items \in UNION {[1 .. k -> Items] : k \in 0 .. MaxItems}
  /\ pc = IF place = "checkout" THEN "shipping" ELSE "items"
  /\ next = 1
  /\ total = IF place = "orderPage" THEN shipping ELSE Zero
  /\ exact = IF place = "orderPage" THEN Value(shipping) ELSE 0
  /\ out = Zero /\ n = 0
  /\ overflown = FALSE

\* Must(Sum(l, r)) becomes the new value, or panics.
Must(value, l, r, then) ==
  IF SumFails(l, r)
  THEN pc' = "panicked" /\ UNCHANGED <<value, overflown>>
  ELSE /\ pc' = then
       /\ value' = Sum(l, r)
       /\ overflown' = (overflown \/ Overflows(l, r))

\* Mutant of AddShipping: the cart page leaves the shipping out.
AddShippingLess ==
  /\ pc = "shipping"
  /\ IF place = "cartPage" THEN pc' = "done" /\ UNCHANGED <<total, overflown>>
     ELSE Must(total, total, shipping, "items")
  /\ exact' = exact + Value(shipping)
  /\ UNCHANGED <<order, next, out, n>>

AddShipping ==
  /\ pc = "shipping"
  /\ Must(total, total, shipping, IF place = "cartPage" THEN "done" ELSE "items")
  /\ exact' = exact + Value(shipping)
  /\ UNCHANGED <<order, next, out, n>>

NextItem ==
  /\ pc = "items"
  /\ next <= Len(items)
  /\ pc' = "multiply"
  /\ out' = items[next].cost
  /\ n' = items[next].quantity
  /\ UNCHANGED <<order, next, total, ghosts>>

Multiply ==
  /\ pc = "multiply"
  /\ n > 1
  /\ Must(out, out, items[next].cost, "multiply")
  /\ n' = n - 1
  /\ UNCHANGED <<order, next, total, exact>>

Times(quantity) == IF quantity = 0 THEN 1 ELSE quantity

AddItem ==
  /\ pc = "multiply"
  /\ n <= 1
  /\ Must(total, total, out, "items")
  /\ next' = next + 1
  /\ exact' = exact + Times(items[next].quantity) * Value(items[next].cost)
  /\ UNCHANGED <<order, out, n>>

NoMoreItems ==
  /\ pc = "items"
  /\ next > Len(items)
  /\ pc' = IF place = "cartPage" THEN "shipping" ELSE "done"
  /\ UNCHANGED <<order, next, out, n, total, ghosts>>

Next == AddShipping \/ NextItem \/ Multiply \/ AddItem \/ NoMoreItems

Spec == Init /\ [][Next]_vars

----------------------------------------------------------------------------
(* Properties. *)

\* Amounts that no sum of the code treats as mixed signs.
Ordinary(m) ==
  /\ IsValid(m)
  /\ m.code = Currency
  /\ m.units > 0 \/ Value(m) = 0

\* A total that was reached is the exact one, on all three places and so the
\* same, unless an integer overflowed: also when the way there led over amounts
\* that are not valid.
TotalIsExact ==
  pc = "done" /\ ~ overflown => Value(total) = exact

\* Adding up an order panics only if some amount of it is less than a unit,
\* invalid or of another currency, or int64 overflowed.
OrdinaryNeverPanics ==
  pc = "panicked" =>
    \/ overflown
    \/ ~ Ordinary(shipping)
    \/ \E i \in DOMAIN items : ~ Ordinary(items[i].cost)

\* "different sign. nanos guaranteed to not to go over the limit" (Sum): adding
\* up an order of valid amounts never leaves an invalid total behind.
TotalStaysValid ==
  /\ IsValid(shipping) /\ \A i \in DOMAIN items : IsValid(items[i].cost)
  /\ ~ overflown
  => IsValid(total)

\* The invariant behind TotalIsExact.
TypeOK ==
  /\ shipping \in Amounts
  /\ items \in Seq(Items)
  /\ next \in Nat \ {0}
  /\ pc \in {"shipping", "items", "multiply", "done", "panicked"}
  /\ overflown \in BOOLEAN

\* What has been added up so far is the exact sum of it,
Exactly == total \in Money /\ exact \in Int /\ (pc # "panicked" => Value(total) = exact)

\* and so is the multiple of a price, on the way to its quantity.
Multiplying ==
  LET item == items[next]
  IN /\ next <= Len(items)
     /\ out \in Money
     /\ n \in 0 .. item.quantity
     /\ Value(out) = (Times(item.quantity) - Times(n) + 1) * Value(item.cost)

IInv ==
  /\ TypeOK
  /\ ~ overflown => Exactly /\ (pc = "multiply" => Multiplying)
=============================================================================
