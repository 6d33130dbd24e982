---------------------------- MODULE CartService ----------------------------
(***************************************************************************)
(* The calls of src/src/cartservice, whatever store answers them: a handler *)
(* of CartService.cs only awaits its method of the ICartStore.             *)
(*                                                                         *)
(* A quantity tells how often each AddItem call counts in it, so that a    *)
(* call that is lost or counted twice can be told from one that is not.    *)
(* The wrong quantities, the wrong products and the wrong carts are then   *)
(* the same question: which calls count.                                   *)
(***************************************************************************)
EXTENDS Naturals

CONSTANTS
  Users,
  Products,
  Calls,
  Overlapping    \* the users whose calls may overlap

ASSUME CartAssumption == Overlapping \subseteq Users

VARIABLES
  request,       \* request[c]: what the call c asks for
  stage,         \* stage[c]: how far it is; the stores add stages of theirs
  answer         \* answer[c]: the cart it got, if it is a GetCart

callVars == <<request, stage, answer>>

Requests == [do : {"AddItem"}, user : Users, product : Products]
              \cup [do : {"EmptyCart", "GetCart"}, user : Users]

Quantity == [Calls -> Nat]
Nothing == [c \in Calls |-> 0]

\* A product of which a cart has nothing is not in it.
Cart == [Products -> Quantity]
Empty == [p \in Products |-> Nothing]

\* The cart with what AddItem c adds to it.
Plus(cart, c) == [cart EXCEPT ![request[c].product][c] = @ + 1]

CallsInit ==
  /\ request \in [Calls -> Requests]
  /\ stage = [c \in Calls |-> "idle"]
  /\ answer = [c \in Calls |-> Empty]

Finished == {"returned", "failed"}
InFlight(c) == stage[c] \notin Finished \cup {"idle"}

\* The call c is one of the method name and has not touched the store yet.
Handles(c, name) == stage[c] = "called" /\ request[c].do = name

Goto(c, next) ==
  /\ stage' = [stage EXCEPT ![c] = next]
  /\ UNCHANGED request

Invoke(c) ==
  /\ stage[c] = "idle"
  /\ \/ request[c].user \in Overlapping
     \/ \A d \in Calls : request[d].user = request[c].user => ~ InFlight(d)
  /\ Goto(c, "called")
  /\ UNCHANGED answer

\* The store has done what was asked.
Return(c) ==
  /\ stage[c] = "done"
  /\ Goto(c, "returned")
  /\ UNCHANGED answer

\* An exception of the store becomes FailedPrecondition.  It may be raised
\* before the store did anything and also after.
Fail(c) ==
  /\ InFlight(c)
  /\ Goto(c, "failed")
  /\ UNCHANGED answer
=============================================================================
