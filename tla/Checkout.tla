------------------------------ MODULE Checkout ------------------------------
(***************************************************************************)
(* PlaceOrder of src/src/checkoutservice/main.go: read the cart, price it, *)
(* charge the card, ship, empty the cart, send the confirmation.  There is *)
(* no transaction around these calls of five services.                     *)
(*                                                                         *)
(* A cart is a set of units, each put into it once, so that a unit that is *)
(* lost or sold twice can be told.  It is kept by cartservice in its       *)
(* default store: an AddItem gets the cart, changes the copy and sets it   *)
(* (RedisCartStore.cs), an EmptyCart sets an empty one.  The calls of      *)
(* checkout to its peers are steps, so that several orders of a user, the  *)
(* user's own changes of the cart, cancelled requests and a crash of the   *)
(* process interleave.  A call may fail without an effect, or have its     *)
(* effect and lose the answer (an effect that comes after the error is     *)
(* taken to come just before it).                                          *)
(***************************************************************************)
EXTENDS Naturals, FiniteSets

CONSTANTS
  Users,
  Units,         \* what can be put into carts
  Orders         \* the PlaceOrder calls of a behavior

ASSUME CheckoutAssumption == Users # {}

VARIABLES
  cart,          \* cart[u]: the units in the cart store for u
  call,          \* call[o]: the PlaceOrder call o
  held,          \* AddItem calls between their get and their set, with the
                 \* copy of the cart that they hold
  requests,      \* orders whose EmptyCart request is on its way
  charges,       \* what was charged, [order, user, units that were priced]
  shipments,     \* what was shipped (the request itself names no items)
  mails,         \* orders with a confirmation mail
  \* ghosts
  added,         \* added[u]: units that an AddItem of u ever set
  removed,       \* units the users themselves removed
  late,          \* units added while an order of the user was open
  raced,         \* units added while another AddItem of the user held a copy
  served,        \* orders whose EmptyCart request emptied the cart
  exposed,       \* those of them some of whose units an AddItem still held
  before         \* before[o]: served, when o read the cart

ghosts == <<added, removed, late, raced, served, exposed, before>>
vars == <<cart, held, call, requests, charges, shipments, mails, ghosts>>

\* The next call that PlaceOrder makes, or how it ended.
Stages == {"cart", "prepare", "charge", "ship", "empty", "emptying", "mail"}
Ends == {"placed", "internal", "unavailable", "crashed"}
Call == [at : Stages \cup Ends \cup {"unborn"}, user : Users, units : SUBSET Units,
         cancelled : BOOLEAN]
Copy == [user : Users, unit : Units, cart : SUBSET Units]
Entry == [order : Orders, user : Users, units : SUBSET Units]

TypeOK ==
  /\ cart \in [Users -> SUBSET Units]
  /\ held \subseteq Copy
  /\ call \in [Orders -> Call]
  /\ requests \subseteq Orders
  /\ charges \subseteq Entry
  /\ shipments \subseteq Entry
  /\ mails \subseteq Orders
  /\ added \in [Users -> SUBSET Units]
  /\ removed \subseteq Units
  /\ late \subseteq Units
  /\ raced \subseteq Units
  /\ served \subseteq Orders \ requests
  /\ exposed \subseteq served
  /\ before \in [Orders -> SUBSET Orders]

Init ==
  /\ cart = [u \in Users |-> {}]
  /\ call \in [Orders -> {[at |-> "unborn", user |-> u, units |-> {}, cancelled |-> FALSE] :
                            u \in Users}]
  /\ held = {} /\ requests = {} /\ charges = {} /\ shipments = {} /\ mails = {}
  /\ added = [u \in Users |-> {}]
  /\ removed = {} /\ late = {} /\ raced = {} /\ served = {} /\ exposed = {}
  /\ before = [o \in Orders |-> {}]

EntryOf(o) == [order |-> o, user |-> call[o].user, units |-> call[o].units]

Goto(o, stage) == call' = [call EXCEPT ![o].at = stage]

\* An order that read the cart and may still empty it.
Open(o) == call[o].at \in Stages \ {"cart", "mail"} \/ o \in requests

----------------------------------------------------------------------------
(* The users. *)

\* AddItemAsync.  The copy is read ...
AddItemGets(u, unit) ==
  /\ \A v \in Users : unit \notin added[v]
  /\ \A h \in held : unit # h.unit
  /\ held' = held \cup {[user |-> u, unit |-> unit, cart |-> cart[u]]}
  /\ UNCHANGED <<cart, call, requests, charges, shipments, mails, ghosts>>

\* ... and written back with one more unit, whatever the cart is by now.
AddItemSets(h) ==
  /\ held' = held \ {h}
  /\ cart' = [cart EXCEPT ![h.user] = h.cart \cup {h.unit}]
  /\ added' = [added EXCEPT ![h.user] = @ \cup {h.unit}]
  /\ late' = IF \E o \in Orders : Open(o) /\ call[o].user = h.user
             THEN late \cup {h.unit} ELSE late
  /\ raced' = IF \E g \in held \ {h} : g.user = h.user
              THEN raced \cup {h.unit} ELSE raced
  /\ UNCHANGED <<call, requests, charges, shipments, mails, removed, served, exposed, before>>

\* The cache cannot be reached or cartservice dies; the user may try again.
AddItemFails(h) ==
  /\ held' = held \ {h}
  /\ UNCHANGED <<cart, call, requests, charges, shipments, mails, ghosts>>

EmptyCart(u) ==
  /\ cart[u] # {}
  /\ cart' = [cart EXCEPT ![u] = {}]
  /\ removed' = removed \cup cart[u]
  /\ UNCHANGED <<held, call, requests, charges, shipments, mails,
                 added, late, raced, served, exposed, before>>

PlaceOrder(o) ==
  /\ call[o].at = "unborn"
  /\ Goto(o, "cart")
  /\ UNCHANGED <<cart, held, requests, charges, shipments, mails, ghosts>>

\* The browser or the frontend gives up: the context of the call ends.
Cancel(o) ==
  /\ call[o].at \in Stages
  /\ ~ call[o].cancelled
  /\ call' = [call EXCEPT ![o].cancelled = TRUE]
  /\ UNCHANGED <<cart, held, requests, charges, shipments, mails, ghosts>>

----------------------------------------------------------------------------
(* The calls of one order.  One with a cancelled context has no effect any *)
(* more, unless it was already under way.                                  *)

GetUserCart(o) ==
  /\ call[o].at = "cart"
  /\ ~ call[o].cancelled
  /\ call' = [call EXCEPT ![o].at = "prepare", ![o].units = cart[call[o].user]]
  /\ before' = [before EXCEPT ![o] = served]
  /\ UNCHANGED <<cart, held, requests, charges, shipments, mails,
                 added, removed, late, raced, served, exposed>>

\* Products, prices, the shipping quote and the total are read and computed.
Prepare(o) ==
  /\ call[o].at = "prepare"
  /\ ~ call[o].cancelled
  /\ Goto(o, "charge")
  /\ UNCHANGED <<cart, held, requests, charges, shipments, mails, ghosts>>

\* Mutant of PrepareFails: the calls are made without the context.
PrepareFailsDeaf(o) ==
  /\ call[o].at \in {"cart", "prepare"}
  /\ ~ call[o].cancelled
  /\ Goto(o, "internal")
  /\ UNCHANGED <<cart, held, requests, charges, shipments, mails, ghosts>>

PrepareFails(o) ==
  /\ call[o].at \in {"cart", "prepare"}
  /\ Goto(o, "internal")
  /\ UNCHANGED <<cart, held, requests, charges, shipments, mails, ghosts>>

\* Mutant of ChargeCard: an error is logged and the order goes on.
ChargeCardAnyway(o) ==
  /\ call[o].at = "charge"
  /\ charges' \in {charges, charges \cup {EntryOf(o)}}
  /\ Goto(o, "ship")
  /\ UNCHANGED <<cart, held, requests, shipments, mails, ghosts>>

ChargeCard(o) ==
  /\ call[o].at = "charge"
  /\ charges' = charges \cup {EntryOf(o)}
  /\ (~ call[o].cancelled /\ Goto(o, "ship")) \/ Goto(o, "internal")
  /\ UNCHANGED <<cart, held, requests, shipments, mails, ghosts>>

ChargeFails(o) ==
  /\ call[o].at = "charge"
  /\ Goto(o, "internal")
  /\ UNCHANGED <<cart, held, requests, charges, shipments, mails, ghosts>>

ShipOrder(o) ==
  /\ call[o].at = "ship"
  /\ shipments' = shipments \cup {EntryOf(o)}
  /\ (~ call[o].cancelled /\ Goto(o, "empty")) \/ Goto(o, "unavailable")
  /\ UNCHANGED <<cart, held, requests, charges, mails, ghosts>>

\* Mutants of ShipFails: the cart is emptied though nothing was shipped; the
\* order goes on.
ShipFailsEmptying(o) ==
  /\ call[o].at = "ship"
  /\ Goto(o, "unavailable")
  /\ cart' = [cart EXCEPT ![call[o].user] = {}]
  /\ UNCHANGED <<held, requests, charges, shipments, mails, ghosts>>
ShipFailsOn(o) ==
  /\ call[o].at = "ship"
  /\ Goto(o, "empty")
  /\ UNCHANGED <<cart, held, requests, charges, shipments, mails, ghosts>>

\* The charge is not taken back.
ShipFails(o) ==
  /\ call[o].at = "ship"
  /\ Goto(o, "unavailable")
  /\ UNCHANGED <<cart, held, requests, charges, shipments, mails, ghosts>>

\* emptyUserCart, whose error is dropped: the request is sent, served at
\* some time, and the order goes on with an answer or without.
SendEmpty(o) ==
  /\ call[o].at = "empty"
  /\ ~ call[o].cancelled
  /\ requests' = requests \cup {o}
  /\ Goto(o, "emptying")
  /\ UNCHANGED <<cart, held, charges, shipments, mails, ghosts>>

\* Mutant of ServeEmpty: nothing is emptied.
ServeEmptyNothing(o) ==
  /\ o \in requests
  /\ requests' = requests \ {o}
  /\ served' = served \cup {o}
  /\ UNCHANGED <<cart, held, call, charges, shipments, mails,
                 added, removed, late, raced, exposed, before>>

ServeEmpty(o) ==
  /\ o \in requests
  /\ requests' = requests \ {o}
  /\ served' = served \cup {o}
  /\ cart' = [cart EXCEPT ![call[o].user] = {}]
  /\ exposed' = IF \E h \in held : h.user = call[o].user /\ h.cart \cap call[o].units # {}
                THEN exposed \cup {o} ELSE exposed
  /\ UNCHANGED <<held, call, charges, shipments, mails, added, removed, late, raced, before>>

EmptyReturns(o) ==
  /\ \/ call[o].at = "emptying"
     \/ call[o].at = "empty" /\ call[o].cancelled
  /\ Goto(o, "mail")
  /\ UNCHANGED <<cart, held, requests, charges, shipments, mails, ghosts>>

\* sendOrderConfirmation, outside the context; its error is logged.
SendMail(o) ==
  /\ call[o].at = "mail"
  /\ mails' \in {mails, mails \cup {o}}
  /\ Goto(o, "placed")
  /\ UNCHANGED <<cart, held, requests, charges, shipments, ghosts>>

\* The process dies, of money.Must for example, and with it every order.
Crash ==
  /\ \E o \in Orders : call[o].at \in Stages
  /\ call' = [o \in Orders |-> IF call[o].at \in Stages
                               THEN [call[o] EXCEPT !.at = "crashed"] ELSE call[o]]
  /\ UNCHANGED <<cart, held, requests, charges, shipments, mails, ghosts>>

----------------------------------------------------------------------------
Next ==
  \/ \E u \in Users, unit \in Units : AddItemGets(u, unit)
  \/ \E h \in held : AddItemSets(h) \/ AddItemFails(h)
  \/ \E u \in Users : EmptyCart(u)
  \/ \E o \in Orders :
       \/ PlaceOrder(o) \/ Cancel(o)
       \/ GetUserCart(o) \/ Prepare(o) \/ PrepareFails(o)
       \/ ChargeCard(o) \/ ChargeFails(o)
       \/ ShipOrder(o) \/ ShipFails(o)
       \/ SendEmpty(o) \/ ServeEmpty(o) \/ EmptyReturns(o)
       \/ SendMail(o)
  \/ Crash

Spec == Init /\ [][Next]_vars

\* What a cancelled context ends: every call that was made with it.
Abort(o) ==
  /\ call[o].cancelled
  /\ PrepareFails(o) \/ ChargeFails(o) \/ ShipFails(o) \/ EmptyReturns(o)

FairSpec == Spec /\ \A o \in Orders : WF_vars(Abort(o))

----------------------------------------------------------------------------
(* Properties. *)

\* Nothing is shipped that was not charged before, by the same order and for
\* the same units, whatever changed the cart in between.
ShippedIsCharged == shipments \subseteq charges

\* What the caller is told is true: a placed order was charged and shipped;
\* an internal error shipped nothing and one that is unavailable charged;
\* neither will ever empty the cart.
ReplyTells ==
  \A o \in Orders :
    /\ call[o].at = "placed" => EntryOf(o) \in charges \cap shipments
    /\ call[o].at = "internal" => EntryOf(o) \notin shipments
    /\ call[o].at = "unavailable" => EntryOf(o) \in charges
    /\ call[o].at \in {"internal", "unavailable"} => o \notin requests \cup served

\* A unit only gets lost (neither in the cart, nor shipped, nor removed by
\* its user) if it was added while an order of the user was open, which
\* empties more than it read, or next to another AddItem of the user, which
\* sets a copy without it.
Accounted == removed \cup late \cup raced \cup UNION {e.units : e \in shipments}
OnlyLateUnitsGetLost == \A u \in Users : added[u] \ cart[u] \subseteq Accounted

\* A unit is charged twice only by orders of which neither had emptied the
\* cart when the other read it (overlapping ones, or a retry after an error),
\* or when an AddItem that still held units of the one, when it emptied the
\* cart, has put them back.
ChargedTwiceOnlyUnemptied ==
  \A d, e \in charges :
    d.order # e.order /\ d.units \cap e.units # {} =>
      d.order \notin before[e.order] \/ d.order \in exposed

\* An order whose caller gave up comes to an end by itself, unless it is
\* sending the mail: that call has neither context nor timeout.
CancelledEnds ==
  \A o \in Orders : call[o].cancelled ~> call[o].at \in Ends \cup {"mail"}

----------------------------------------------------------------------------
(* The strengthening that makes the invariants inductive. *)

Charged == {"ship", "empty", "emptying", "mail", "placed", "unavailable"}
Shipped == {"empty", "emptying", "mail", "placed"}

\* The stages of the orders and the books of payment and shipping agree.
Books ==
  /\ \A o \in Orders :
       /\ call[o].at \in Charged => EntryOf(o) \in charges
       /\ call[o].at \in Shipped => EntryOf(o) \in shipments
       /\ o \in requests \cup served =>
            /\ call[o].at \in {"emptying", "mail", "placed", "crashed"}
            /\ EntryOf(o) \in shipments
  /\ \A e \in charges :
       /\ e = EntryOf(e.order)
       /\ call[e.order].at \notin {"unborn", "cart"}
  /\ \A e \in shipments :
       /\ e \in charges
       /\ call[e.order].at \in Shipped \cup {"unavailable", "crashed"}

\* A unit is added once, by one user, and is found nowhere else.
OneCart ==
  /\ \A u, v \in Users : u # v => added[u] \cap added[v] = {}
  /\ \A h \in held : /\ \A u \in Users : h.unit \notin added[u]
                     /\ \A g \in held : g.unit = h.unit => g = h
                     /\ h.cart \subseteq added[h.user]
  /\ \A u \in Users : cart[u] \subseteq added[u]
  /\ \A o \in Orders : call[o].units \subseteq added[call[o].user]

\* What is not accounted for is in the cart, in every copy of it and in what
\* an open order read.
Windows ==
  /\ OnlyLateUnitsGetLost
  /\ \A h \in held : added[h.user] \ h.cart \subseteq Accounted
  /\ \A o \in Orders : Open(o) => added[call[o].user] \ call[o].units \subseteq Accounted

\* What an order emptied away is gone, unless it was exposed.
Emptied ==
  /\ \A o \in served \ exposed :
       /\ call[o].units \cap cart[call[o].user] = {}
       /\ \A h \in held : h.user = call[o].user => call[o].units \cap h.cart = {}
  /\ \A o \in Orders : /\ before[o] \subseteq served
                       /\ \A p \in before[o] \ exposed : call[p].units \cap call[o].units = {}

IInv == TypeOK /\ Books /\ OneCart /\ Windows /\ Emptied
=============================================================================
