--------------------------- MODULE CheckoutProofs ---------------------------
(* Proofs about Checkout: for any users, units and number of orders. *)
EXTENDS Checkout, TLAPS

\* A step of one order that only moves it on.
LEMMA GotoCall ==
  ASSUME TypeOK, NEW o \in Orders, NEW stage \in Stages \cup Ends, Goto(o, stage)
  PROVE  /\ call' \in [Orders -> Call]
         /\ call'[o].at = stage
         /\ \A p \in Orders : /\ call'[p].user = call[p].user
                              /\ call'[p].units = call[p].units
                              /\ p # o => call'[p].at = call[p].at
                              /\ EntryOf(p)' = EntryOf(p)
BY DEF Goto, TypeOK, Call, EntryOf

\* Entries are well-typed.
LEMMA EntryType ==
  ASSUME TypeOK, NEW o \in Orders
  PROVE  /\ EntryOf(o) \in Entry
         /\ EntryOf(o).order = o
         /\ EntryOf(o).units = call[o].units
BY DEF TypeOK, Call, Entry, EntryOf

\* The shop opens with empty carts and books.
LEMMA InitInv == Init => IInv
<1> SUFFICES ASSUME Init PROVE IInv
  OBVIOUS
<1>1. TypeOK
  <2>1. \A u \in Users : [at |-> "unborn", user |-> u, units |-> {}, cancelled |-> FALSE] \in Call
    BY DEF Call
  <2>2. call \in [Orders -> Call]
    BY <2>1 DEF Init
  <2>3. QED
    BY <2>2 DEF Init, TypeOK
<1>2. Books
  BY DEF Init, Books, Charged, Shipped
<1>3. OneCart
  <2>1. /\ held = {} /\ added = [u \in Users |-> {}] /\ cart = [u \in Users |-> {}]
        /\ \A o \in Orders : call[o].units = {}
    BY DEF Init
  <2>2. QED
    BY <1>1, <2>1 DEF OneCart, TypeOK, Call
<1>4. Windows
  <2>1. \A o \in Orders : ~ Open(o) /\ call[o].user \in Users
    BY <1>1 DEF Init, Open, Stages, TypeOK, Call
  <2>2. held = {} /\ added = [u \in Users |-> {}]
    BY DEF Init
  <2>3. QED
    BY <2>1, <2>2 DEF Windows, OnlyLateUnitsGetLost
<1>5. Emptied
  BY DEF Init, Emptied
<1> QED
  BY <1>1, <1>2, <1>3, <1>4, <1>5 DEF IInv

\* The users, cartservice, the reading and emptying of the cart and a crash.
OtherStep ==
  \/ \E u \in Users, unit \in Units : AddItemGets(u, unit)
  \/ \E h \in held : AddItemSets(h) \/ AddItemFails(h)
  \/ \E u \in Users : EmptyCart(u)
  \/ \E o \in Orders : Cancel(o) \/ GetUserCart(o) \/ ServeEmpty(o)
  \/ Crash

\* They keep the types.
LEMMA OtherType ==
  ASSUME TypeOK, OtherStep
  PROVE  TypeOK'
<1>1. ASSUME NEW u \in Users, NEW unit \in Units, AddItemGets(u, unit)
      PROVE  TypeOK'
  <2>1. [user |-> u, unit |-> unit, cart |-> cart[u]] \in Copy
    BY DEF TypeOK, Copy
  <2>2. held' \subseteq Copy
    BY <1>1, <2>1 DEF AddItemGets, TypeOK
  <2>3. QED
    BY <1>1, <2>2 DEF AddItemGets, TypeOK, ghosts
<1>2. ASSUME NEW h \in held, AddItemSets(h)
      PROVE  TypeOK'
  <2>1. h.user \in Users /\ h.unit \in Units /\ h.cart \subseteq Units
    BY DEF TypeOK, Copy
  <2>2. held' \subseteq Copy /\ cart' \in [Users -> SUBSET Units] /\ added' \in [Users -> SUBSET Units]
    BY <1>2, <2>1 DEF AddItemSets, TypeOK
  <2>3. late' \subseteq Units /\ raced' \subseteq Units
    BY <1>2, <2>1 DEF AddItemSets, TypeOK
  <2>4. QED
    BY <1>2, <2>2, <2>3 DEF AddItemSets, TypeOK
<1>8. ASSUME NEW h \in held, AddItemFails(h)
      PROVE  TypeOK'
  BY <1>8 DEF AddItemFails, TypeOK, ghosts
<1>9. ASSUME NEW u \in Users, EmptyCart(u)
      PROVE  TypeOK'
  BY <1>9 DEF EmptyCart, TypeOK
<1>3. ASSUME NEW o \in Orders, Cancel(o)
      PROVE  TypeOK'
  BY <1>3 DEF Cancel, TypeOK, Call, ghosts
<1>4. ASSUME NEW o \in Orders, GetUserCart(o)
      PROVE  TypeOK'
  <2>1. call' \in [Orders -> Call]
    <3>1. call[o] \in Call /\ cart[call[o].user] \subseteq Units
      BY DEF TypeOK, Call
    <3>2. [call[o] EXCEPT !.at = "prepare", !.units = cart[call[o].user]] \in Call
      BY <3>1 DEF Call, Stages
    <3>3. call' = [call EXCEPT ![o] = [call[o] EXCEPT !.at = "prepare", !.units = cart[call[o].user]]]
      BY <1>4 DEF GetUserCart, TypeOK
    <3>4. QED
      BY <3>2, <3>3 DEF TypeOK
  <2>2. before' \in [Orders -> SUBSET Orders]
    BY <1>4 DEF GetUserCart, TypeOK
  <2>3. QED
    BY <1>4, <2>1, <2>2 DEF GetUserCart, TypeOK
<1>5. ASSUME NEW o \in Orders, ServeEmpty(o)
      PROVE  TypeOK'
  <2>1. cart' \in [Users -> SUBSET Units]
    BY <1>5 DEF ServeEmpty, TypeOK
  <2>2. served' \subseteq Orders \ requests' /\ exposed' \subseteq served'
    BY <1>5 DEF ServeEmpty, TypeOK
  <2>3. QED
    BY <1>5, <2>1, <2>2 DEF ServeEmpty, TypeOK
<1>6. ASSUME Crash
      PROVE  TypeOK'
  <2>1. call' \in [Orders -> Call]
    BY <1>6 DEF Crash, TypeOK, Call, Ends
  <2>2. QED
    BY <1>6, <2>1 DEF Crash, TypeOK, ghosts
<1>7. QED
  BY <1>1, <1>2, <1>3, <1>4, <1>5, <1>6, <1>8, <1>9 DEF OtherStep

\* The steps that move one order on.
MovesOn(o) ==
  \/ PlaceOrder(o) \/ Prepare(o) \/ PrepareFails(o)
  \/ ChargeCard(o) \/ ChargeFails(o)
  \/ ShipOrder(o) \/ ShipFails(o)
  \/ SendEmpty(o) \/ EmptyReturns(o) \/ SendMail(o)

\* Where they lead, and what they leave alone.
LEMMA MovesOnTo ==
  ASSUME NEW o \in Orders, MovesOn(o)
  PROVE  /\ \E stage \in Stages \cup Ends : Goto(o, stage)
         /\ UNCHANGED <<cart, held, ghosts>>
BY DEF MovesOn, PlaceOrder, Prepare, PrepareFails, ChargeCard, ChargeFails, ShipOrder,
   ShipFails, SendEmpty, EmptyReturns, SendMail, ghosts, Stages, Ends

\* Moving on keeps the types.
LEMMA MovesOnType ==
  ASSUME TypeOK, Books, NEW o \in Orders, MovesOn(o)
  PROVE  TypeOK'
<1>1. /\ call' \in [Orders -> Call]
      /\ UNCHANGED <<cart, held, ghosts>>
  BY MovesOnTo, GotoCall
<1>2. EntryOf(o) \in Entry
  BY EntryType
<1>3. /\ charges' \in {charges, charges \cup {EntryOf(o)}}
      /\ shipments' \in {shipments, shipments \cup {EntryOf(o)}}
      /\ mails' \in {mails, mails \cup {o}}
  BY DEF MovesOn, PlaceOrder, Prepare, PrepareFails, ChargeCard, ChargeFails, ShipOrder,
     ShipFails, SendEmpty, EmptyReturns, SendMail, ghosts
<1>4. requests' \subseteq Orders \ served
  <2>1. CASE SendEmpty(o)
    BY <2>1 DEF SendEmpty, Books, TypeOK
  <2>2. CASE ~ SendEmpty(o)
    BY <2>2 DEF MovesOn, PlaceOrder, Prepare, PrepareFails, ChargeCard, ChargeFails,
       ShipOrder, ShipFails, EmptyReturns, SendMail, ghosts, TypeOK
  <2>3. QED
    BY <2>1, <2>2
<1>5. QED
  BY <1>1, <1>2, <1>3, <1>4 DEF TypeOK, ghosts

\* Every step keeps the types.
LEMMA NextType ==
  ASSUME TypeOK, Books, [Next]_vars
  PROVE  TypeOK'
<1>1. CASE \E o \in Orders : MovesOn(o)
  BY <1>1, MovesOnType
<1>2. CASE UNCHANGED vars
  BY <1>2 DEF vars, ghosts, TypeOK
<1>3. QED
  BY <1>1, <1>2, OtherType DEF Next, MovesOn, OtherStep

----------------------------------------------------------------------------
\* What is accounted for stays so.
LEMMA AccountedGrows ==
  ASSUME removed \subseteq removed', late \subseteq late', raced \subseteq raced',
         shipments \subseteq shipments'
  PROVE  Accounted \subseteq Accounted'
BY DEF Accounted

\* Moving on changes neither carts nor windows.
LEMMA MovesOnCarts ==
  ASSUME IInv, NEW o \in Orders, MovesOn(o)
  PROVE  OneCart' /\ Windows' /\ Emptied'
<1>1. /\ UNCHANGED <<cart, held, ghosts>>
      /\ \A p \in Orders : /\ call'[p].user = call[p].user
                           /\ call'[p].units = call[p].units
                           /\ p # o => call'[p].at = call[p].at
  BY MovesOnTo, GotoCall DEF IInv
<1>2. OneCart'
  BY <1>1 DEF IInv, OneCart, ghosts
<1>3. \A p \in Orders : Open(p)' => Open(p)
  <2>1. requests' \subseteq requests \cup {o}
    BY DEF MovesOn, PlaceOrder, Prepare, PrepareFails, ChargeCard, ChargeFails, ShipOrder,
       ShipFails, SendEmpty, EmptyReturns, SendMail
  <2>2. \A p \in Orders \ {o} : Open(p)' => Open(p)
    BY <1>1, <2>1 DEF Open
  <2>3. Open(o)' => Open(o)
    <3>1. CASE PlaceOrder(o)
      <4>1. call'[o].at = "cart" /\ requests' = requests
        BY <3>1, GotoCall DEF PlaceOrder, IInv, Stages
      <4> QED  BY <4>1 DEF Open, Stages
    <3>2. CASE PrepareFails(o)
      <4>1. call'[o].at = "internal" /\ requests' = requests
        BY <3>2, GotoCall DEF PrepareFails, IInv, Ends
      <4> QED  BY <4>1 DEF Open, Stages
    <3>3. CASE SendMail(o)
      <4>1. call'[o].at = "placed" /\ requests' = requests
        BY <3>3, GotoCall DEF SendMail, IInv, Ends
      <4> QED  BY <4>1 DEF Open, Stages
    <3>4. CASE Prepare(o) \/ ChargeCard(o) \/ ChargeFails(o) \/ ShipOrder(o) \/ ShipFails(o)
               \/ SendEmpty(o) \/ EmptyReturns(o)
      <4>1. call[o].at \in {"prepare", "charge", "ship", "empty", "emptying"}
        BY <3>4 DEF Prepare, ChargeCard, ChargeFails, ShipOrder, ShipFails, SendEmpty, EmptyReturns
      <4> QED  BY <4>1 DEF Open, Stages
    <3> QED  BY <3>1, <3>2, <3>3, <3>4 DEF MovesOn
  <2>4. QED
    BY <2>2, <2>3
<1>4. shipments \subseteq shipments'
  BY DEF MovesOn, PlaceOrder, Prepare, PrepareFails, ChargeCard, ChargeFails, ShipOrder,
     ShipFails, SendEmpty, EmptyReturns, SendMail
<1>5. Accounted \subseteq Accounted'
  BY <1>1, <1>4, AccountedGrows DEF ghosts
<1>6. Windows'
  <2>1. OnlyLateUnitsGetLost'
    BY <1>1, <1>5 DEF IInv, Windows, OnlyLateUnitsGetLost, ghosts
  <2>2. \A h \in held : added[h.user] \ h.cart \subseteq Accounted'
    BY <1>5 DEF IInv, Windows
  <2>3. ASSUME NEW p \in Orders, Open(p)'
        PROVE  added[call[p].user] \ call[p].units \subseteq Accounted'
    BY <1>3, <1>5, <2>3 DEF IInv, Windows
  <2>4. QED
    BY <1>1, <2>1, <2>2, <2>3 DEF Windows, ghosts
<1>7. Emptied'
  <2>1. TypeOK /\ Emptied
    BY DEF IInv
  <2>2. \A p \in Orders : before[p] \subseteq Orders /\ served \subseteq Orders
    BY <2>1 DEF TypeOK
  <2>3. QED
    BY <1>1, <2>1, <2>2 DEF Emptied, ghosts
<1>8. QED
  BY <1>2, <1>6, <1>7

\* A copy is taken of the cart as it is.
LEMMA AddItemGetsCarts ==
  ASSUME IInv, NEW u \in Users, NEW unit \in Units, AddItemGets(u, unit)
  PROVE  OneCart' /\ Windows' /\ Emptied'
<1> DEFINE new == [user |-> u, unit |-> unit, cart |-> cart[u]]
<1>1. /\ \A v \in Users : unit \notin added[v]
      /\ \A h \in held : unit # h.unit
      /\ held' = held \cup {new}
      /\ UNCHANGED <<cart, call, requests, shipments, added, removed, late, raced, served,
                     exposed, before>>
  BY DEF AddItemGets, ghosts
<1>2. new.user = u /\ new.unit = unit /\ new.cart = cart[u]
  OBVIOUS
<1> HIDE DEF new
<1>3. OneCart'
  BY <1>1, <1>2 DEF IInv, OneCart
<1>4. Accounted' = Accounted /\ \A o \in Orders : Open(o)' <=> Open(o)
  BY <1>1 DEF Accounted, Open
<1>5. Windows'
  BY <1>1, <1>2, <1>4 DEF IInv, Windows, OnlyLateUnitsGetLost
<1>6. Emptied'
  BY <1>1, <1>2 DEF IInv, Emptied
<1>7. QED
  BY <1>3, <1>5, <1>6

\* A copy that is set loses nothing that is not accounted for; its unit is late
\* for the open orders, and raced the other copies.
LEMMA AddItemSetsCarts ==
  ASSUME IInv, NEW h \in held, AddItemSets(h)
  PROVE  OneCart' /\ Windows' /\ Emptied'
<1>1. /\ held' = held \ {h}
      /\ cart' = [cart EXCEPT ![h.user] = h.cart \cup {h.unit}]
      /\ added' = [added EXCEPT ![h.user] = @ \cup {h.unit}]
      /\ late' = IF \E o \in Orders : Open(o) /\ call[o].user = h.user
                 THEN late \cup {h.unit} ELSE late
      /\ raced' = IF \E g \in held \ {h} : g.user = h.user
                  THEN raced \cup {h.unit} ELSE raced
      /\ UNCHANGED <<call, requests, charges, shipments, mails, removed, served, exposed, before>>
  BY DEF AddItemSets
<1>2. PICK u \in Users, x \in Units : u = h.user /\ x = h.unit
  BY DEF IInv, TypeOK, Copy
<1>3. /\ cart'[u] = h.cart \cup {x}
      /\ added'[u] = added[u] \cup {x}
      /\ \A v \in Users : v # u => cart'[v] = cart[v] /\ added'[v] = added[v]
  BY <1>1, <1>2 DEF IInv, TypeOK
<1>4. \A v \in Users : x \notin added[v]
  BY <1>2 DEF IInv, OneCart
<1>5. /\ \A g \in held : g.user \in Users
      /\ \A o \in Orders : call[o].user \in Users
  BY DEF IInv, TypeOK, Copy, Call
<1>6. OneCart'
  <2>1. \A v, w \in Users : v # w => added'[v] \cap added'[w] = {}
    BY <1>3, <1>4 DEF IInv, OneCart
  <2>2. ASSUME NEW g \in held', NEW v \in Users
        PROVE  g.unit \notin added'[v]
    BY <1>1, <1>2, <1>3, <2>2 DEF IInv, OneCart
  <2>3. \A g \in held' : g.cart \subseteq added'[g.user]
    BY <1>1, <1>3, <1>5 DEF IInv, OneCart
  <2>4. \A v \in Users : cart'[v] \subseteq added'[v]
    BY <1>2, <1>3 DEF IInv, OneCart
  <2>5. \A o \in Orders : call[o].units \subseteq added'[call[o].user]
    BY <1>3, <1>5 DEF IInv, OneCart
  <2>6. QED
    BY <1>1, <2>1, <2>2, <2>3, <2>4, <2>5 DEF IInv, OneCart
<1>7. Accounted \subseteq Accounted'
  BY <1>1, AccountedGrows
<1>8. /\ late' \subseteq Accounted' /\ raced' \subseteq Accounted'
      /\ \A o \in Orders : Open(o)' <=> Open(o)
  BY <1>1 DEF Accounted, Open
<1>9. Windows'
  <2>1. ASSUME NEW v \in Users
        PROVE  added'[v] \ cart'[v] \subseteq Accounted'
    <3>1. CASE v = u
      <4>1. added[u] \ h.cart \subseteq Accounted
        BY <1>2 DEF IInv, Windows
      <4>2. QED
        BY <1>3, <1>7, <3>1, <4>1
    <3>2. CASE v # u
      BY <1>3, <1>7, <3>2 DEF IInv, Windows, OnlyLateUnitsGetLost
    <3>3. QED
      BY <3>1, <3>2
  <2>2. ASSUME NEW g \in held \ {h}
        PROVE  added'[g.user] \ g.cart \subseteq Accounted'
    <3>1. added[g.user] \ g.cart \subseteq Accounted
      BY DEF IInv, Windows
    <3>2. CASE g.user = u
      <4>1. x \in raced'
        BY <1>1, <1>2, <3>2
      <4>2. QED
        BY <1>3, <1>7, <1>8, <3>1, <3>2, <4>1
    <3>3. CASE g.user # u
      BY <1>3, <1>5, <1>7, <3>1, <3>3
    <3>4. QED
      BY <3>2, <3>3
  <2>3. ASSUME NEW o \in Orders, Open(o)
        PROVE  added'[call[o].user] \ call[o].units \subseteq Accounted'
    <3>1. added[call[o].user] \ call[o].units \subseteq Accounted
      BY <2>3 DEF IInv, Windows
    <3>2. CASE call[o].user = u
      <4>1. x \in late'
        BY <1>1, <1>2, <2>3, <3>2
      <4>2. QED
        BY <1>3, <1>7, <1>8, <3>1, <3>2, <4>1
    <3>3. CASE call[o].user # u
      BY <1>3, <1>5, <1>7, <3>1, <3>3
    <3>4. QED
      BY <3>2, <3>3
  <2>4. QED
    BY <1>1, <1>8, <2>1, <2>2, <2>3 DEF Windows, OnlyLateUnitsGetLost
<1>10. Emptied'
  <2>1. ASSUME NEW o \in served \ exposed
        PROVE  call[o].units \cap cart'[call[o].user] = {}
    <3>1. /\ o \in Orders /\ call[o].user \in Users
          /\ call[o].units \cap cart[call[o].user] = {}
          /\ h.user = call[o].user => call[o].units \cap h.cart = {}
          /\ call[o].units \subseteq added[call[o].user]
      BY <1>5 DEF IInv, TypeOK, Emptied, OneCart
    <3>2. QED
      BY <1>2, <1>3, <1>4, <3>1
  <2>2. QED
    BY <1>1, <2>1 DEF IInv, Emptied
<1>11. QED
  BY <1>6, <1>9, <1>10

\* A copy that is given up changes nothing.
LEMMA AddItemFailsCarts ==
  ASSUME IInv, NEW h \in held, AddItemFails(h)
  PROVE  OneCart' /\ Windows' /\ Emptied'
<1>1. /\ held' = held \ {h}
      /\ UNCHANGED <<cart, call, requests, shipments, added, removed, late, raced, served,
                     exposed, before>>
  BY DEF AddItemFails, ghosts
<1>2. Accounted' = Accounted /\ \A o \in Orders : Open(o)' <=> Open(o)
  BY <1>1 DEF Accounted, Open
<1>3. QED
  BY <1>1, <1>2 DEF IInv, OneCart, Windows, OnlyLateUnitsGetLost, Emptied

\* A user who empties the cart removes what was in it.
LEMMA EmptyCartCarts ==
  ASSUME IInv, NEW u \in Users, EmptyCart(u)
  PROVE  OneCart' /\ Windows' /\ Emptied'
<1>1. /\ cart' = [cart EXCEPT ![u] = {}]
      /\ removed' = removed \cup cart[u]
      /\ UNCHANGED <<held, call, requests, charges, shipments, mails,
                     added, late, raced, served, exposed, before>>
  BY DEF EmptyCart
<1>2. /\ cart'[u] = {}
      /\ \A v \in Users : v # u => cart'[v] = cart[v]
  BY <1>1 DEF IInv, TypeOK
<1>3. OneCart'
  BY <1>1, <1>2 DEF IInv, OneCart
<1>4. Accounted \subseteq Accounted' /\ cart[u] \subseteq Accounted'
  BY <1>1, AccountedGrows DEF Accounted
<1>5. \A o \in Orders : Open(o)' <=> Open(o)
  BY <1>1 DEF Open
<1>6. Windows'
  <2>1. \A v \in Users : added[v] \ cart'[v] \subseteq Accounted'
    BY <1>2, <1>4 DEF IInv, Windows, OnlyLateUnitsGetLost
  <2>2. QED
    BY <1>1, <1>4, <1>5, <2>1 DEF IInv, Windows, OnlyLateUnitsGetLost
<1>7. Emptied'
  <2>1. \A o \in served : o \in Orders /\ call[o].user \in Users
    BY DEF IInv, TypeOK, Call
  <2>2. QED
    BY <1>1, <1>2, <2>1 DEF IInv, Emptied
<1>8. QED
  BY <1>3, <1>6, <1>7

\* An order that reads its cart opens with nothing late, and reads nothing that
\* an order which was not exposed emptied away.
LEMMA GetUserCartCarts ==
  ASSUME IInv, NEW o \in Orders, GetUserCart(o)
  PROVE  OneCart' /\ Windows' /\ Emptied'
<1>1. /\ call' = [call EXCEPT ![o].at = "prepare", ![o].units = cart[call[o].user]]
      /\ before' = [before EXCEPT ![o] = served]
      /\ UNCHANGED <<cart, held, requests, charges, shipments, mails,
                     added, removed, late, raced, served, exposed>>
  BY DEF GetUserCart
<1>2. /\ call'[o].units = cart[call[o].user]
      /\ \A p \in Orders : call'[p].user = call[p].user
      /\ \A p \in Orders \ {o} : call'[p] = call[p]
  BY <1>1 DEF IInv, TypeOK, Call
<1>3. o \notin served
  BY DEF GetUserCart, IInv, Books
<1>4. \A p \in Orders : call[p].user \in Users
  BY DEF IInv, TypeOK, Call
<1>5. OneCart'
  <2>1. \A p \in Orders : call'[p].units \subseteq added[call[p].user]
    BY <1>2, <1>4 DEF IInv, OneCart
  <2>2. QED
    BY <1>1, <1>2, <2>1 DEF IInv, OneCart
<1>6. Accounted' = Accounted
  BY <1>1 DEF Accounted
<1>7. Windows'
  <2>1. ASSUME NEW p \in Orders, Open(p)'
        PROVE  added[call[p].user] \ call'[p].units \subseteq Accounted
    <3>1. CASE p = o
      BY <1>2, <1>4, <3>1 DEF IInv, Windows, OnlyLateUnitsGetLost
    <3>2. CASE p # o
      BY <1>1, <1>2, <2>1, <3>2 DEF Open, IInv, Windows
    <3>3. QED
      BY <3>1, <3>2
  <2>2. QED
    BY <1>1, <1>2, <1>6, <2>1 DEF IInv, Windows, OnlyLateUnitsGetLost
<1>8. Emptied'
  <2>1. ASSUME NEW p \in served \ exposed
        PROVE  /\ p \in Orders \ {o}
               /\ call[p].units \cap cart[call[p].user] = {}
               /\ \A h \in held : h.user = call[p].user => call[p].units \cap h.cart = {}
               /\ call[p].units \cap cart[call[o].user] = {}
    <3>1. p \in Orders \ {o}
      BY <1>3 DEF IInv, TypeOK
    <3>2. call[p].units \subseteq added[call[p].user]
          /\ cart[call[o].user] \subseteq added[call[o].user]
      BY <1>4, <3>1 DEF IInv, OneCart
    <3>3. call[p].user # call[o].user => added[call[p].user] \cap added[call[o].user] = {}
      BY <1>4, <3>1 DEF IInv, OneCart
    <3>4. /\ call[p].units \cap cart[call[p].user] = {}
          /\ \A h \in held : h.user = call[p].user => call[p].units \cap h.cart = {}
      BY DEF IInv, Emptied
    <3>5. call[p].units \cap cart[call[o].user] = {}
      BY <3>2, <3>3, <3>4
    <3>6. QED
      BY <3>1, <3>4, <3>5
  <2>2. ASSUME NEW p \in Orders
        PROVE  /\ before'[p] \subseteq served
               /\ \A q \in before'[p] \ exposed : call'[q].units \cap call'[p].units = {}
    <3>1. CASE p = o
      <4>1. before'[p] = served
        BY <1>1, <3>1 DEF IInv, TypeOK
      <4>2. QED
        BY <1>2, <2>1, <3>1, <4>1
    <3>2. CASE p # o
      <4>1. before'[p] = before[p] /\ before[p] \subseteq served
        BY <1>1, <3>2 DEF IInv, TypeOK, Emptied
      <4>2. \A q \in before[p] \ exposed : call[q].units \cap call[p].units = {}
        BY DEF IInv, Emptied
      <4>3. QED
        BY <1>2, <2>1, <3>2, <4>1, <4>2
    <3>3. QED
      BY <3>1, <3>2
  <2>3. \A p \in served \ exposed :
          /\ call'[p].user = call[p].user
          /\ call'[p].units \cap cart[call[p].user] = {}
          /\ \A h \in held : h.user = call[p].user => call'[p].units \cap h.cart = {}
    BY <1>2, <2>1
  <2>4. QED
    BY <1>1, <2>2, <2>3 DEF Emptied
<1>9. QED
  BY <1>5, <1>7, <1>8

\* An emptying that is served loses only what is accounted for: what the order
\* read was shipped, the rest was late or had raced.
LEMMA ServeEmptyCarts ==
  ASSUME IInv, NEW o \in Orders, ServeEmpty(o)
  PROVE  OneCart' /\ Windows' /\ Emptied'
<1> DEFINE u == call[o].user
<1>1. /\ o \in requests
      /\ requests' = requests \ {o}
      /\ served' = served \cup {o}
      /\ cart' = [cart EXCEPT ![u] = {}]
      /\ exposed' = IF \E h \in held : h.user = u /\ h.cart \cap call[o].units # {}
                    THEN exposed \cup {o} ELSE exposed
      /\ UNCHANGED <<held, call, charges, shipments, mails, added, removed, late, raced, before>>
  BY DEF ServeEmpty
<1>2. /\ u \in Users
      /\ cart'[u] = {}
      /\ \A v \in Users : v # u => cart'[v] = cart[v]
  BY <1>1 DEF IInv, TypeOK, Call
<1>3. OneCart'
  BY <1>1, <1>2 DEF IInv, OneCart
<1>4. Accounted' = Accounted /\ Open(o) /\ \A p \in Orders : Open(p)' => Open(p)
  BY <1>1 DEF Accounted, Open
<1>5. Windows'
  <2>1. added[u] \subseteq Accounted
    <3>1. EntryOf(o) \in shipments /\ EntryOf(o).units = call[o].units
      BY <1>1, EntryType DEF IInv, Books
    <3>2. call[o].units \subseteq Accounted
      BY <3>1 DEF Accounted
    <3>3. added[u] \ call[o].units \subseteq Accounted
      BY <1>4 DEF IInv, Windows
    <3>4. QED
      BY <3>2, <3>3
  <2>2. \A v \in Users : added[v] \ cart'[v] \subseteq Accounted
    BY <1>2, <2>1 DEF IInv, Windows, OnlyLateUnitsGetLost
  <2>3. QED
    BY <1>1, <1>4, <2>2 DEF IInv, Windows, OnlyLateUnitsGetLost
<1>6. Emptied'
  <2>1. ASSUME NEW p \in served' \ exposed'
        PROVE  /\ call[p].units \cap cart'[call[p].user] = {}
               /\ \A h \in held : h.user = call[p].user => call[p].units \cap h.cart = {}
    <3>1. CASE p = o
      BY <1>1, <1>2, <2>1, <3>1
    <3>2. CASE p # o
      <4>1. p \in served \ exposed /\ call[p].user \in Users
        BY <1>1, <2>1, <3>2 DEF IInv, TypeOK, Call
      <4>2. /\ call[p].units \cap cart[call[p].user] = {}
            /\ \A h \in held : h.user = call[p].user => call[p].units \cap h.cart = {}
        BY <4>1 DEF IInv, Emptied
      <4>3. QED
        BY <1>2, <4>1, <4>2
    <3>3. QED
      BY <3>1, <3>2
  <2>2. exposed \subseteq exposed' /\ served \subseteq served'
    BY <1>1
  <2>3. \A p \in Orders : /\ before[p] \subseteq served'
                          /\ \A q \in before[p] \ exposed' :
                               call[q].units \cap call[p].units = {}
    BY <2>2 DEF IInv, Emptied
  <2>4. QED
    BY <1>1, <2>1, <2>3 DEF Emptied
<1>7. QED
  BY <1>3, <1>5, <1>6

\* Steps that change only where orders are, and open none.
LEMMA QuietCarts ==
  ASSUME IInv,
         UNCHANGED <<cart, held, requests, charges, shipments, mails, ghosts>>,
         \A p \in Orders : /\ call'[p].user = call[p].user
                           /\ call'[p].units = call[p].units
                           /\ Open(p)' => Open(p)
  PROVE  OneCart' /\ Windows' /\ Emptied'
<1>1. OneCart'
  BY DEF IInv, OneCart, ghosts
<1>2. Accounted' = Accounted
  BY DEF Accounted, ghosts
<1>3. Windows'
  BY <1>2 DEF IInv, Windows, OnlyLateUnitsGetLost, ghosts
<1>4. Emptied'
  <2>1. served \subseteq Orders /\ \A p \in Orders : before[p] \subseteq Orders
    BY DEF IInv, TypeOK
  <2>2. QED
    BY <2>1 DEF IInv, Emptied, ghosts
<1>5. QED
  BY <1>1, <1>3, <1>4

\* A cancelled context moves nothing.
LEMMA CancelCarts ==
  ASSUME IInv, NEW o \in Orders, Cancel(o)
  PROVE  OneCart' /\ Windows' /\ Emptied'
<1>1. \A p \in Orders : /\ call'[p].user = call[p].user
                        /\ call'[p].units = call[p].units
                        /\ call'[p].at = call[p].at
  BY DEF Cancel, IInv, TypeOK, Call
<1>2. \A p \in Orders : Open(p)' => Open(p)
  BY <1>1 DEF Cancel, Open
<1>3. QED
  BY <1>1, <1>2, QuietCarts DEF Cancel

\* A crash opens no order.
LEMMA CrashCarts ==
  ASSUME IInv, Crash
  PROVE  OneCart' /\ Windows' /\ Emptied'
<1>1. \A p \in Orders : /\ call'[p].user = call[p].user
                        /\ call'[p].units = call[p].units
                        /\ call'[p].at \in {call[p].at, "crashed"}
  BY DEF Crash, IInv, TypeOK, Call
<1>2. \A p \in Orders : Open(p)' => Open(p)
  BY <1>1 DEF Crash, Open, Stages
<1>3. QED
  BY <1>1, <1>2, QuietCarts DEF Crash

----------------------------------------------------------------------------
\* What the books of an order o that moves on have to fulfil.
LEMMA MovesOnBooks ==
  ASSUME IInv, NEW o \in Orders, MovesOn(o)
  PROVE  Books'
<1>1. /\ served' = served
      /\ \A p \in Orders : /\ EntryOf(p)' = EntryOf(p)
                           /\ p # o => call'[p].at = call[p].at
  BY MovesOnTo, GotoCall DEF IInv, ghosts
<1>2. EntryOf(o).order = o
  BY EntryType DEF IInv
<1>3. /\ TypeOK
      /\ Books
      /\ \A e \in charges \cup shipments : e.order \in Orders
  BY DEF IInv, TypeOK, Entry
<1>4. ASSUME NEW stage \in Stages \cup Ends, Goto(o, stage)
      PROVE  call'[o].at = stage
  BY <1>3, <1>4, GotoCall
<1>5. CASE PlaceOrder(o)
  BY <1>1, <1>2, <1>3, <1>4, <1>5 DEF PlaceOrder, Books, Charged, Shipped, Stages, ghosts
<1>6. CASE Prepare(o)
  BY <1>1, <1>2, <1>3, <1>4, <1>6 DEF Prepare, Books, Charged, Shipped, Stages, ghosts
<1>7. CASE PrepareFails(o)
  BY <1>1, <1>2, <1>3, <1>4, <1>7 DEF PrepareFails, Books, Charged, Shipped, Ends, ghosts
<1>8. CASE ChargeCard(o) \/ ChargeFails(o)
  <2>1. /\ call[o].at = "charge"
        /\ call'[o].at \in {"ship", "internal"}
        /\ call'[o].at = "ship" => EntryOf(o) \in charges'
        /\ charges' \in {charges, charges \cup {EntryOf(o)}}
        /\ UNCHANGED <<requests, shipments>>
    BY <1>4, <1>8 DEF ChargeCard, ChargeFails, Stages, Ends
  <2>2. QED
    BY <1>1, <1>2, <1>3, <2>1 DEF Books, Charged, Shipped
<1>9. CASE ShipOrder(o) \/ ShipFails(o)
  <2>1. /\ call[o].at = "ship"
        /\ call'[o].at \in {"empty", "unavailable"}
        /\ call'[o].at = "empty" => EntryOf(o) \in shipments'
        /\ shipments' \in {shipments, shipments \cup {EntryOf(o)}}
        /\ UNCHANGED <<requests, charges>>
    BY <1>4, <1>9 DEF ShipOrder, ShipFails, Stages, Ends
  <2>2. QED
    BY <1>1, <1>2, <1>3, <2>1 DEF Books, Charged, Shipped
<1>10. CASE SendEmpty(o)
  <2>1. /\ call[o].at = "empty"
        /\ call'[o].at = "emptying"
        /\ requests' = requests \cup {o}
        /\ UNCHANGED <<shipments, charges>>
    BY <1>4, <1>10 DEF SendEmpty, Stages
  <2>2. QED
    BY <1>1, <1>2, <1>3, <2>1 DEF Books, Charged, Shipped
<1>11. CASE EmptyReturns(o) \/ SendMail(o)
  <2>1. /\ call[o].at \in {"empty", "emptying", "mail"}
        /\ call'[o].at \in {"mail", "placed"}
        /\ UNCHANGED <<requests, shipments, charges>>
    BY <1>4, <1>11 DEF EmptyReturns, SendMail, Stages, Ends
  <2>2. QED
    BY <1>1, <1>2, <1>3, <2>1 DEF Books, Charged, Shipped
<1>12. QED
  BY <1>5, <1>6, <1>7, <1>8, <1>9, <1>10, <1>11 DEF MovesOn

\* The other steps write nothing into the books.
LEMMA OtherBooks ==
  ASSUME IInv, OtherStep
  PROVE  Books'
<1>1. TypeOK /\ Books
  BY DEF IInv
<1>2. CASE \/ \E u \in Users, unit \in Units : AddItemGets(u, unit)
           \/ \E h \in held : AddItemSets(h) \/ AddItemFails(h)
           \/ \E u \in Users : EmptyCart(u)
  BY <1>1, <1>2 DEF AddItemGets, AddItemSets, AddItemFails, EmptyCart, Books, EntryOf, ghosts
<1>3. ASSUME NEW o \in Orders, Cancel(o)
      PROVE  Books'
  <2>1. \A p \in Orders : EntryOf(p)' = EntryOf(p) /\ call'[p].at = call[p].at
    BY <1>1, <1>3 DEF Cancel, EntryOf, TypeOK, Call
  <2>2. UNCHANGED <<requests, charges, shipments, served>>
    BY <1>3 DEF Cancel, ghosts
  <2>3. QED
    BY <1>1, <2>1, <2>2 DEF Books, TypeOK, Entry
<1>4. ASSUME NEW o \in Orders, GetUserCart(o)
      PROVE  Books'
  <2>1. \A p \in Orders \ {o} : EntryOf(p)' = EntryOf(p) /\ call'[p].at = call[p].at
    BY <1>1, <1>4 DEF GetUserCart, EntryOf, TypeOK
  <2>2. /\ call[o].at = "cart"
        /\ call'[o].at = "prepare"
        /\ UNCHANGED <<requests, charges, shipments, served>>
    BY <1>1, <1>4 DEF GetUserCart, TypeOK, Call
  <2>3. /\ o \notin requests \cup served
        /\ \A e \in charges \cup shipments : e.order \in Orders \ {o}
    BY <1>1, <2>2 DEF Books, TypeOK, Entry
  <2>4. QED
    BY <1>1, <2>1, <2>2, <2>3 DEF Books, Charged, Shipped, TypeOK
<1>5. ASSUME NEW o \in Orders, ServeEmpty(o)
      PROVE  Books'
  BY <1>1, <1>5 DEF ServeEmpty, Books, EntryOf
<1>6. ASSUME Crash
      PROVE  Books'
  <2>1. \A p \in Orders : /\ EntryOf(p)' = EntryOf(p)
                          /\ \/ call'[p].at = call[p].at
                             \/ call'[p].at = "crashed" /\ call[p].at \in Stages
    BY <1>1, <1>6 DEF Crash, EntryOf, TypeOK, Call
  <2>2. UNCHANGED <<requests, charges, shipments, served>>
    BY <1>6 DEF Crash, ghosts
  <2>3. QED
    BY <1>1, <2>1, <2>2 DEF Books, Charged, Shipped, Stages, TypeOK, Entry
<1>7. QED
  BY <1>2, <1>3, <1>4, <1>5, <1>6 DEF OtherStep

\* The invariant is inductive.
LEMMA NextInv == IInv /\ [Next]_vars => IInv'
<1> SUFFICES ASSUME IInv, [Next]_vars PROVE IInv'
  OBVIOUS
<1>1. TypeOK'
  BY NextType DEF IInv
<1>2. CASE \E o \in Orders : MovesOn(o)
  BY <1>1, <1>2, MovesOnCarts, MovesOnBooks DEF IInv
<1>3. CASE UNCHANGED vars
  <2>1. Books'
    BY <1>3 DEF vars, ghosts, IInv, Books, EntryOf
  <2>2. \A p \in Orders : Open(p)' => Open(p)
    BY <1>3 DEF vars, Open
  <2>3. OneCart' /\ Windows' /\ Emptied'
    BY <1>3, <2>2, QuietCarts DEF vars, EntryOf
  <2>4. QED
    BY <1>1, <2>1, <2>3 DEF IInv
<1>4. CASE OtherStep
  <2>1. OneCart' /\ Windows' /\ Emptied'
    BY <1>4, AddItemGetsCarts, AddItemSetsCarts, AddItemFailsCarts, EmptyCartCarts, CancelCarts,
       GetUserCartCarts, ServeEmptyCarts, CrashCarts DEF OtherStep
  <2>2. Books'
    BY <1>4, OtherBooks
  <2>3. QED
    BY <1>1, <2>1, <2>2 DEF IInv
<1>5. QED
  BY <1>2, <1>3, <1>4 DEF Next, MovesOn, OtherStep

----------------------------------------------------------------------------
\* The books, the carts and the windows of the orders agree at every time,
\* for any number of users, units and overlapping orders, and with crashes.
THEOREM Invariance == Spec => []IInv
BY InitInv, NextInv, PTL DEF Spec

\* Every state of PlaceOrder is well-typed; no order that still asks for an
\* emptied cart has been served.
THEOREM TypeCorrect == Spec => []TypeOK
<1>1. IInv => TypeOK
  BY DEF IInv
<1>2. QED
  BY <1>1, Invariance, PTL

\* PlaceOrder ships nothing that the same order did not charge before.
THEOREM NoFreeShipments == Spec => []ShippedIsCharged
<1>1. IInv => ShippedIsCharged
  BY DEF IInv, Books, ShippedIsCharged
<1>2. QED
  BY <1>1, Invariance, PTL

\* The status that PlaceOrder returns tells what was charged and shipped.
THEOREM RepliesAreTrue == Spec => []ReplyTells
<1>1. ASSUME IInv
      PROVE  ReplyTells
  <2>1. TypeOK /\ Books
    BY <1>1 DEF IInv
  <2>2. \A o \in Orders : call[o].at = "internal" => EntryOf(o) \notin shipments
    BY <2>1, EntryType DEF Books, Shipped
  <2>3. QED
    BY <2>1, <2>2 DEF Books, Charged, Shipped, ReplyTells
<1>2. QED
  BY <1>1, Invariance, PTL

\* A unit gets lost only if it came into the cart after an order of its user
\* had read the cart and before that order's emptying was served, or while
\* another AddItem of the user held a copy without it.
THEOREM NothingElseGetsLost == Spec => []OnlyLateUnitsGetLost
<1>1. IInv => OnlyLateUnitsGetLost
  BY DEF IInv, Windows
<1>2. QED
  BY <1>1, Invariance, PTL

\* No order charges a unit again that an order charged whose emptying was
\* served before the cart was read, unless an AddItem held the unit over it.
THEOREM DoubleChargesOverlap == Spec => []ChargedTwiceOnlyUnemptied
<1>1. ASSUME IInv
      PROVE  ChargedTwiceOnlyUnemptied
  <2>1. TypeOK /\ Books /\ Emptied
    BY <1>1 DEF IInv
  <2>2. \A e \in charges : e.order \in Orders /\ e.units = call[e.order].units
    BY <2>1 DEF TypeOK, Entry, Books, EntryOf
  <2>3. QED
    BY <2>1, <2>2 DEF Emptied, ChargedTwiceOnlyUnemptied
<1>2. QED
  BY <1>1, Invariance, PTL
=============================================================================
