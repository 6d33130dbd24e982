------------------------------- MODULE Carts -------------------------------
(***************************************************************************)
(* What the callers of ICartStore.cs expect of every store: each call acts *)
(* on the carts at one moment between its begin and its end, or fails and  *)
(* may or may not have acted.                                              *)
(***************************************************************************)
EXTENDS CartService

VARIABLE carts   \* carts[u]: the cart of u

vars == <<callVars, carts>>

Init == CallsInit /\ carts = [u \in Users |-> Empty]

AddItem(c) ==
  /\ Handles(c, "AddItem")
  /\ carts' = [carts EXCEPT ![request[c].user] = Plus(@, c)]
  /\ UNCHANGED answer

EmptyCart(c) ==
  /\ Handles(c, "EmptyCart")
  /\ carts' = [carts EXCEPT ![request[c].user] = Empty]
  /\ UNCHANGED answer

GetCart(c) ==
  /\ Handles(c, "GetCart")
  /\ answer' = [answer EXCEPT ![c] = carts[request[c].user]]
  /\ UNCHANGED carts

Next ==
  \E c \in Calls :
    \/ (AddItem(c) \/ EmptyCart(c) \/ GetCart(c)) /\ Goto(c, "done")
    \/ (Invoke(c) \/ Return(c) \/ Fail(c)) /\ UNCHANGED carts

Spec == Init /\ [][Next]_vars
=============================================================================
