----------------------------- MODULE RedisCart -----------------------------
(***************************************************************************)
(* RedisCartStore.cs: a cart is one value of the distributed cache.        *)
(* AddItem gets it, changes the copy and sets it again, with nothing that  *)
(* keeps other calls out in between.  No value is an empty cart.           *)
(***************************************************************************)
EXTENDS CartService

VARIABLES
  store,         \* store[u]: the cart in the cache
  copy,          \* copy[c]: what AddItem c got
  \* ghosts
  wiped,         \* wiped[c]: the AddItem calls that EmptyCart c removed
  exposed        \* calls that wrote while another AddItem held its copy

ghosts == <<wiped, exposed>>
vars == <<callVars, store, copy, ghosts>>

Stages == {"idle", "called", "read", "done"} \cup Finished

TypeOK ==
  /\ request \in [Calls -> Requests]
  /\ stage \in [Calls -> Stages]
  /\ answer \in [Calls -> Cart]
  /\ store \in [Users -> Cart]
  /\ copy \in [Calls -> Cart]
  /\ wiped \in [Calls -> SUBSET Calls]
  /\ exposed \subseteq Calls
  /\ \A c \in Calls : stage[c] = "read" => request[c].do = "AddItem"

Init ==
  /\ CallsInit
  /\ store = [u \in Users |-> Empty]
  /\ copy = [c \in Calls |-> Empty]
  /\ wiped = [c \in Calls |-> {}]
  /\ exposed = {}

\* The AddItem calls that count in a cart.
Counted(cart) == {c \in Calls : \E p \in Products : cart[p][c] > 0}

\* Another AddItem of the same user stands between its get and its set.
Held(c) ==
  \E d \in Calls \ {c} : stage[d] = "read" /\ request[d].user = request[c].user

SetAsync(c, cart) ==
  /\ store' = [store EXCEPT ![request[c].user] = cart]
  /\ exposed' = IF Held(c) THEN exposed \cup {c} ELSE exposed

AddItemGets(c) ==
  /\ Handles(c, "AddItem")
  /\ copy' = [copy EXCEPT ![c] = store[request[c].user]]
  /\ Goto(c, "read")
  /\ UNCHANGED <<answer, store, ghosts>>

\* Mutants of AddItemSets: the item is added to a new cart; a set whose answer
\* is late is made again from what the first one left.
AddItemSetsAlone(c) ==
  /\ stage[c] = "read"
  /\ SetAsync(c, Plus(Empty, c))
  /\ Goto(c, "done")
  /\ UNCHANGED <<answer, copy, wiped>>
AddItemSetsAgain(c) ==
  /\ stage[c] = "read"
  /\ SetAsync(c, Plus(copy[c], c))
  /\ copy' = [copy EXCEPT ![c] = Plus(@, c)]
  /\ Goto(c, "done") \/ Goto(c, "read")
  /\ UNCHANGED <<answer, wiped>>

AddItemSets(c) ==
  /\ stage[c] = "read"
  /\ SetAsync(c, Plus(copy[c], c))
  /\ Goto(c, "done")
  /\ UNCHANGED <<answer, copy, wiped>>

EmptyCart(c) ==
  /\ Handles(c, "EmptyCart")
  /\ SetAsync(c, Empty)
  /\ wiped' = [wiped EXCEPT ![c] = Counted(store[request[c].user])]
  /\ Goto(c, "done")
  /\ UNCHANGED <<answer, copy>>

GetCart(c) ==
  /\ Handles(c, "GetCart")
  /\ answer' = [answer EXCEPT ![c] = store[request[c].user]]
  /\ Goto(c, "done")
  /\ UNCHANGED <<store, copy, ghosts>>

Next ==
  \E c \in Calls :
    \/ AddItemGets(c) \/ AddItemSets(c) \/ EmptyCart(c) \/ GetCart(c)
    \/ (Invoke(c) \/ Return(c) \/ Fail(c)) /\ UNCHANGED <<store, copy, ghosts>>

Spec == Init /\ [][Next]_vars

----------------------------------------------------------------------------
(* Properties. *)

Wiped == UNION {wiped[e] : e \in Calls}
Added(c) == request[c].do = "AddItem" /\ stage[c] \in {"done", "returned"}

\* No item is ever larger than what was added to it, however the calls
\* overlap.
CountedOnce ==
  \A u \in Users, p \in Products, c \in Calls :
    store[u][p][c] <= IF request[c].do = "AddItem" /\ request[c].product = p THEN 1 ELSE 0

\* An AddItem that was acknowledged only gets lost, and a cart that was
\* emptied only fills up again, if another AddItem of the user held its copy
\* of the cart at the time.
OnlyRacesLose ==
  /\ \A c \in Calls :
       Added(c) => c \in Counted(store[request[c].user]) \cup exposed \cup Wiped
  /\ \A e \in Calls \ exposed :
       \A u \in Users : wiped[e] \cap Counted(store[u]) = {}

\* The calls for the other users are taken for calls that never begin.
Apart(c) == request[c].user \notin Overlapping

Abstract == INSTANCE Carts WITH
  carts <- [u \in Users |-> IF u \in Overlapping THEN Empty ELSE store[u]],
  stage <- [c \in Calls |-> IF ~ Apart(c) THEN "idle"
                             ELSE IF stage[c] = "read" THEN "called" ELSE stage[c]],
  answer <- [c \in Calls |-> IF Apart(c) THEN answer[c] ELSE Empty]

\* To the users whose calls do not overlap the store is a proper one, whatever
\* the others do to their own carts.
RefinesCarts == Abstract!Spec

----------------------------------------------------------------------------
(* The strengthening that makes them inductive.  What holds of a cart in the *)
(* store has to hold of every copy that may replace it.                      *)

CartsOf(u) ==
  {store[u]} \cup {copy[d] : d \in {e \in Calls : stage[e] = "read" /\ request[e].user = u}}

Counts ==
  \A u \in Users : \A cart \in CartsOf(u) : \A p \in Products, c \in Calls :
    /\ cart[p][c] <= 1
    /\ cart[p][c] > 0 => /\ request[c].do = "AddItem"
                          /\ request[c].product = p
                          /\ request[c].user = u
                          /\ stage[c] \in {"done"} \cup Finished

Survives ==
  \A c \in Calls : \A cart \in CartsOf(request[c].user) :
    Added(c) => c \in Counted(cart) \cup exposed \cup Wiped

StaysEmpty ==
  \A e \in Calls :
    /\ wiped[e] # {} => stage[e] \in {"done"} \cup Finished
    /\ \A c \in wiped[e] : request[c].do = "AddItem" /\ stage[c] \in {"done"} \cup Finished
    /\ e \notin exposed =>
         \A u \in Users : \A cart \in CartsOf(u) : wiped[e] \cap Counted(cart) = {}

Exclusive ==
  /\ \A c, d \in Calls :
       Apart(c) /\ c # d /\ InFlight(c) /\ InFlight(d) => request[c].user # request[d].user
  /\ \A c \in Calls : Apart(c) /\ stage[c] = "read" => copy[c] = store[request[c].user]

IInv == TypeOK /\ Counts /\ Survives /\ StaysEmpty /\ Exclusive
=============================================================================
