----------------------------- MODULE AlloyCart -----------------------------
(***************************************************************************)
(* AlloyDBCartStore.cs: rows of a table that are inserted, selected and    *)
(* deleted, each by a statement of its own.  AddItem sums the rows of the  *)
(* product, adds to the sum and inserts it as one more row.  The key of    *)
(* the table, which kustomize/components/alloydb/README.md creates, is     *)
(* (userId, productId): it has no place for a second row of a product.     *)
(***************************************************************************)
EXTENDS CartService, FiniteSetsExt

VARIABLES
  table,         \* the AddItem calls whose row is in the table
  copy,          \* copy[c]: currentQuantity of AddItem c
  quantity       \* quantity[c]: what stands in the row of c

vars == <<callVars, table, copy, quantity>>

Init ==
  /\ CallsInit
  /\ table = {}
  /\ copy = [c \in Calls |-> Nothing]
  /\ quantity = [c \in Calls |-> Nothing]

RowsOf(u, p) == {c \in table : request[c].user = u /\ request[c].product = p}

Total(rows) == [d \in Calls |-> MapThenSumSet(LAMBDA c : quantity[c][d], rows)]

AddItemReads(c) ==
  /\ Handles(c, "AddItem")
  /\ copy' = [copy EXCEPT ![c] = Total(RowsOf(request[c].user, request[c].product))]
  /\ Goto(c, "read")
  /\ UNCHANGED <<answer, table, quantity>>

\* The key holds: there is no row of the product.
AddItemInserts(c) ==
  /\ stage[c] = "read"
  /\ RowsOf(request[c].user, request[c].product) = {}
  /\ quantity' = [quantity EXCEPT ![c] = [copy[c] EXCEPT ![c] = @ + 1]]
  /\ table' = table \cup {c}
  /\ Goto(c, "done")
  /\ UNCHANGED <<answer, copy>>

\* The database refuses the row; the exception makes the call fail.
AddItemRefused(c) ==
  /\ stage[c] = "read"
  /\ RowsOf(request[c].user, request[c].product) # {}
  /\ Goto(c, "refused")
  /\ UNCHANGED <<answer, table, copy, quantity>>

EmptyCart(c) ==
  /\ Handles(c, "EmptyCart")
  /\ table' = {d \in table : request[d].user # request[c].user}
  /\ Goto(c, "done")
  /\ UNCHANGED <<answer, copy, quantity>>

\* The rows are the items of the cart; answer sums those of a product.
GetCart(c) ==
  /\ Handles(c, "GetCart")
  /\ answer' = [answer EXCEPT ![c] = [p \in Products |-> Total(RowsOf(request[c].user, p))]]
  /\ Goto(c, "done")
  /\ UNCHANGED <<table, copy, quantity>>

Next ==
  \E c \in Calls :
    \/ AddItemReads(c) \/ AddItemInserts(c) \/ AddItemRefused(c) \/ EmptyCart(c) \/ GetCart(c)
    \/ (Invoke(c) \/ Return(c) \/ Fail(c)) /\ UNCHANGED <<table, copy, quantity>>

Spec == Init /\ [][Next]_vars

----------------------------------------------------------------------------
(* Properties. *)

\* CartServiceTests.cs expects a second AddItem of a product to update its
\* quantity: the table refuses none.
AddItemUpdates == \A c \in Calls : stage[c] # "refused"
=============================================================================
