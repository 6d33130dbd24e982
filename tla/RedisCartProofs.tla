-------------------------- MODULE RedisCartProofs --------------------------
(* Proofs about RedisCart: for any users, products and calls. *)
EXTENDS RedisCart, TLAPS

\* Nobody has a cart at first.
LEMMA InitInv == Init => IInv
<1> SUFFICES ASSUME Init PROVE IInv
  OBVIOUS
<1>1. Empty \in Cart /\ Counted(Empty) = {}
  BY DEF Empty, Cart, Nothing, Quantity, Counted
<1>2. TypeOK
  BY <1>1 DEF Init, CallsInit, TypeOK, Stages
<1>3. \A u \in Users : CartsOf(u) = {Empty}
  BY DEF Init, CallsInit, CartsOf
<1>4. Counts
  BY <1>3 DEF Counts, Empty, Nothing
<1>5. Survives /\ StaysEmpty /\ Exclusive
  BY DEF Init, CallsInit, Survives, StaysEmpty, Exclusive, Added, InFlight
<1>6. QED
  BY <1>2, <1>4, <1>5 DEF IInv

\* A call that is handled by a method of the store moves on.
LEMMA GotoStage ==
  ASSUME TypeOK, NEW c \in Calls, NEW next \in Stages, Goto(c, next)
  PROVE  /\ stage' \in [Calls -> Stages]
         /\ stage'[c] = next
         /\ \A d \in Calls : d # c => stage'[d] = stage[d]
         /\ request' = request
BY DEF TypeOK, Goto

\* The carts of a user are carts.
LEMMA CartsType ==
  ASSUME TypeOK, NEW u \in Users
  PROVE  CartsOf(u) \subseteq Cart
BY DEF TypeOK, CartsOf

\* Adding to a cart counts the call once more, for its product.
LEMMA PlusCounts ==
  ASSUME NEW cart \in Cart, NEW c \in Calls, request[c].product \in Products
  PROVE  /\ Plus(cart, c) \in Cart
         /\ \A p \in Products, d \in Calls :
              Plus(cart, c)[p][d] = IF p = request[c].product /\ d = c
                                    THEN cart[p][d] + 1 ELSE cart[p][d]
         /\ Counted(Plus(cart, c)) = Counted(cart) \cup {c}
<1>1. \A p \in Products, d \in Calls : cart[p][d] \in Nat
  BY DEF Cart, Quantity
<1>2. Plus(cart, c) \in Cart
  <2>1. [cart[request[c].product] EXCEPT ![c] = @ + 1] \in Quantity
    BY DEF Cart, Quantity
  <2>2. QED
    BY <2>1 DEF Plus, Cart
<1>3. \A p \in Products, d \in Calls :
        Plus(cart, c)[p][d] = IF p = request[c].product /\ d = c
                              THEN cart[p][d] + 1 ELSE cart[p][d]
  BY DEF Plus, Cart, Quantity
<1>4. Counted(Plus(cart, c)) = Counted(cart) \cup {c}
  <2>1. \A d \in Calls \ {c} : d \in Counted(Plus(cart, c)) <=> d \in Counted(cart)
    BY <1>3 DEF Counted
  <2>2. c \in Counted(Plus(cart, c))
    BY <1>1, <1>3 DEF Counted
  <2>3. QED
    BY <2>1, <2>2 DEF Counted
<1>5. QED
  BY <1>2, <1>3, <1>4

\* A step that changes no cart and adds no copy, and in which no AddItem is
\* carried out, keeps the invariant.
LEMMA QuietInv ==
  ASSUME IInv, NEW c \in Calls, NEW next \in Stages \ {"read"}, Goto(c, next),
         stage[c] \in {"done"} \cup Finished => next \in {"done"} \cup Finished,
         next = "done" => request[c].do = "GetCart",
         next = "returned" => stage[c] = "done",
         Exclusive',
         answer' \in [Calls -> Cart],
         UNCHANGED <<store, copy, ghosts>>
  PROVE  IInv'
<1>1. /\ stage' \in [Calls -> Stages]
      /\ stage'[c] = next
      /\ \A d \in Calls : d # c => stage'[d] = stage[d]
      /\ request' = request
  BY GotoStage DEF IInv
<1>2. TypeOK'
  BY <1>1 DEF IInv, TypeOK, ghosts
<1>3. \A u \in Users : CartsOf(u)' \subseteq CartsOf(u)
  BY <1>1 DEF CartsOf
<1>4. \A d \in Calls : stage[d] \in {"done"} \cup Finished => stage'[d] \in {"done"} \cup Finished
  BY <1>1
<1>5. Counts'
  BY <1>1, <1>3, <1>4 DEF IInv, Counts
<1>6. Survives'
  <2>1. \A d \in Calls : Added(d)' => Added(d)
    BY <1>1 DEF Added
  <2>2. \A d \in Calls : request[d].user \in Users
    BY DEF IInv, TypeOK, Requests
  <2>3. QED
    BY <1>1, <1>3, <2>1, <2>2 DEF IInv, Survives, Counted, Wiped, ghosts
<1>7. StaysEmpty'
  BY <1>1, <1>3, <1>4 DEF IInv, TypeOK, StaysEmpty, Counted, ghosts
<1>8. QED
  BY <1>2, <1>5, <1>6, <1>7 DEF IInv

\* Where calls must not overlap, moving one on makes no two overlap.
LEMMA GotoExclusive ==
  ASSUME IInv, NEW c \in Calls, NEW next \in Stages \ {"read", "idle"}, Goto(c, next),
         UNCHANGED <<store, copy>>,
         \/ Invoke(c)
         \/ InFlight(c)
  PROVE  Exclusive'
<1>1. /\ stage' \in [Calls -> Stages]
      /\ stage'[c] = next
      /\ \A d \in Calls : d # c => stage'[d] = stage[d]
      /\ request' = request
  BY GotoStage DEF IInv
<1>2. ASSUME NEW d \in Calls \ {c}, Apart(c), InFlight(d)
      PROVE  request[d].user # request[c].user
  <2>1. CASE Invoke(c)
    BY <1>2, <2>1 DEF Invoke, Apart
  <2>2. CASE InFlight(c)
    BY <1>2, <2>2 DEF IInv, Exclusive
  <2>3. QED
    BY <2>1, <2>2
<1>3. \A d \in Calls \ {c} : InFlight(d)' <=> InFlight(d)
  BY <1>1 DEF InFlight
<1>4. ASSUME NEW d \in Calls, NEW e \in Calls, Apart(d)', d # e, InFlight(d)', InFlight(e)'
      PROVE  request'[d].user # request'[e].user
  <2>1. Apart(d)
    BY <1>1, <1>4 DEF Apart
  <2>2. CASE d = c
    BY <1>1, <1>2, <1>3, <1>4, <2>1, <2>2
  <2>3. CASE e = c
    <3>1. request[d].user = request[e].user => Apart(e)
      BY <2>1 DEF Apart
    <3>2. QED
      BY <1>1, <1>2, <1>3, <1>4, <2>3, <3>1
  <2>4. CASE d # c /\ e # c
    BY <1>1, <1>3, <1>4, <2>1, <2>4 DEF IInv, Exclusive
  <2>5. QED
    BY <2>2, <2>3, <2>4
<1>5. \A d \in Calls : Apart(d)' /\ stage'[d] = "read" => copy'[d] = store'[request'[d].user]
  BY <1>1 DEF IInv, Exclusive, Apart
<1>6. QED
  BY <1>4, <1>5 DEF Exclusive

\* A call that was only called, returns or fails keeps the invariant.
LEMMA CallInv ==
  ASSUME IInv, NEW c \in Calls, Invoke(c) \/ Return(c) \/ Fail(c),
         UNCHANGED <<store, copy, ghosts>>
  PROVE  IInv'
<1>1. PICK next \in {"called", "returned", "failed"} :
        /\ Goto(c, next)
        /\ next = "called" => stage[c] = "idle"
        /\ next = "returned" => stage[c] = "done"
  BY DEF Invoke, Return, Fail
<1>2. Invoke(c) \/ InFlight(c)
  BY DEF Return, Fail, InFlight, Finished
<1>3. Exclusive'
  BY <1>1, <1>2, GotoExclusive DEF Stages, Finished
<1>4. answer' \in [Calls -> Cart]
  BY DEF Invoke, Return, Fail, IInv, TypeOK
<1>5. QED
  BY <1>1, <1>3, <1>4, QuietInv DEF Stages, Finished

\* A GetCart answers a cart and changes none.
LEMMA GetInv ==
  ASSUME IInv, NEW c \in Calls, GetCart(c)
  PROVE  IInv'
<1>1. /\ Goto(c, "done")
      /\ stage[c] = "called"
      /\ request[c].do = "GetCart"
      /\ UNCHANGED <<store, copy, ghosts>>
  BY DEF GetCart, Handles
<1>2. answer' \in [Calls -> Cart]
  BY DEF GetCart, IInv, TypeOK, Requests
<1>3. Exclusive'
  BY <1>1, GotoExclusive DEF InFlight, Stages, Finished
<1>4. QED
  BY <1>1, <1>2, <1>3, QuietInv DEF Stages, Finished

\* A copy is one more cart of the user, equal to the one in the store.
LEMMA GetsInv ==
  ASSUME IInv, NEW c \in Calls, AddItemGets(c)
  PROVE  IInv'
<1> DEFINE u == request[c].user
<1>1. /\ Goto(c, "read")
      /\ stage[c] = "called"
      /\ request[c].do = "AddItem"
      /\ copy' = [copy EXCEPT ![c] = store[u]]
      /\ UNCHANGED <<answer, store, ghosts>>
  BY DEF AddItemGets, Handles
<1>2. /\ stage' \in [Calls -> Stages]
      /\ stage'[c] = "read"
      /\ \A d \in Calls : d # c => stage'[d] = stage[d]
      /\ request' = request
  BY <1>1, GotoStage DEF IInv, Stages
<1>3. u \in Users
  BY DEF IInv, TypeOK, Requests
<1>4. /\ copy'[c] = store[u]
      /\ \A d \in Calls : d # c => copy'[d] = copy[d]
  BY <1>1 DEF IInv, TypeOK
<1>5. TypeOK'
  BY <1>1, <1>2, <1>3 DEF IInv, TypeOK, ghosts
<1>6. \A v \in Users : CartsOf(v)' \subseteq CartsOf(v)
  BY <1>1, <1>2, <1>4 DEF CartsOf
<1>7. \A d \in Calls : stage'[d] \in {"done"} \cup Finished <=> stage[d] \in {"done"} \cup Finished
  BY <1>1, <1>2 DEF Finished
<1>8. Counts'
  BY <1>2, <1>6, <1>7 DEF IInv, Counts
<1>9. Survives'
  <2>1. \A d \in Calls : Added(d)' <=> Added(d)
    BY <1>1, <1>2 DEF Added
  <2>2. \A d \in Calls : request[d].user \in Users
    BY DEF IInv, TypeOK, Requests
  <2>3. QED
    BY <1>1, <1>2, <1>6, <2>1, <2>2 DEF IInv, Survives, Counted, Wiped, ghosts
<1>10. StaysEmpty'
  BY <1>1, <1>2, <1>6, <1>7 DEF IInv, TypeOK, StaysEmpty, Counted, ghosts
<1>11. Exclusive'
  <2>1. \A d \in Calls : InFlight(d)' <=> InFlight(d)
    BY <1>1, <1>2 DEF InFlight, Finished
  <2>2. QED
    BY <1>1, <1>2, <1>4, <2>1 DEF IInv, Exclusive, Apart
<1>12. QED
  BY <1>5, <1>8, <1>9, <1>10, <1>11 DEF IInv

\* What a write leaves: the new cart, and the copies that others hold.
LEMMA WritesTo ==
  ASSUME IInv, NEW c \in Calls, NEW cart \in Cart, Goto(c, "done"),
         store' = [store EXCEPT ![request[c].user] = cart],
         UNCHANGED <<answer, copy>>
  PROVE  /\ stage' \in [Calls -> Stages]
         /\ stage'[c] = "done"
         /\ \A d \in Calls : d # c => stage'[d] = stage[d]
         /\ request' = request
         /\ store' \in [Users -> Cart]
         /\ store'[request[c].user] = cart
         /\ \A v \in Users : \A other \in CartsOf(v)' :
              \/ other \in CartsOf(v)
              \/ v = request[c].user /\ other = cart
         /\ \A v \in Users : \A other \in CartsOf(v)' :
              v = request[c].user => other = cart \/ Held(c)
<1>1. /\ stage' \in [Calls -> Stages]
      /\ stage'[c] = "done"
      /\ \A d \in Calls : d # c => stage'[d] = stage[d]
      /\ request' = request
  BY GotoStage DEF IInv, Stages
<1>2. request[c].user \in Users
  BY DEF IInv, TypeOK, Requests
<1>3. /\ store' \in [Users -> Cart]
      /\ store'[request[c].user] = cart
      /\ \A v \in Users : v # request[c].user => store'[v] = store[v]
  BY <1>2 DEF IInv, TypeOK
<1>4. ASSUME NEW v \in Users, NEW other \in CartsOf(v)'
      PROVE  \/ other \in CartsOf(v)
             \/ v = request[c].user /\ other = cart
  BY <1>1, <1>3, <1>4 DEF CartsOf
<1>5. ASSUME NEW v \in Users, NEW other \in CartsOf(v)', v = request[c].user
      PROVE  other = cart \/ Held(c)
  BY <1>1, <1>3, <1>5 DEF CartsOf, Held
<1>6. QED
  BY <1>1, <1>3, <1>4, <1>5

\* Where calls must not overlap, nobody holds a copy when one writes.
LEMMA WritesExclusive ==
  ASSUME IInv, NEW c \in Calls, InFlight(c), stage'[c] = "done", request' = request,
         \A d \in Calls : d # c => stage'[d] = stage[d],
         UNCHANGED copy,
         store' = [store EXCEPT ![request[c].user] = store'[request[c].user]]
  PROVE  Exclusive'
<1>1. /\ \A d \in Calls : Apart(d)' <=> Apart(d)
      /\ \A d \in Calls : InFlight(d)' => InFlight(d)
  BY DEF InFlight, Apart
<1>2. \A d, e \in Calls :
        Apart(d)' /\ d # e /\ InFlight(d)' /\ InFlight(e)' => request'[d].user # request'[e].user
  BY <1>1 DEF IInv, Exclusive
<1>3. ASSUME NEW d \in Calls, Apart(d)', stage'[d] = "read"
      PROVE  copy'[d] = store'[request'[d].user]
  <2>1. d # c /\ stage[d] = "read" /\ Apart(d)
    BY <1>1, <1>3
  <2>2. request[d].user # request[c].user
    BY <2>1 DEF IInv, Exclusive, InFlight, Finished
  <2>3. request[d].user \in Users /\ store'[request[d].user] = store[request[d].user]
    BY <2>2 DEF IInv, TypeOK, Requests
  <2>4. QED
    BY <2>1, <2>3 DEF IInv, Exclusive
<1>4. QED
  BY <1>2, <1>3 DEF Exclusive

\* An AddItem adds itself to what it got, and loses what was written since.
LEMMA SetsInv ==
  ASSUME IInv, NEW c \in Calls, AddItemSets(c)
  PROVE  IInv'
<1> DEFINE u == request[c].user
           cart == Plus(copy[c], c)
<1>1. /\ stage[c] = "read"
      /\ request[c].do = "AddItem"
      /\ SetAsync(c, cart)
      /\ Goto(c, "done")
      /\ UNCHANGED <<answer, copy, wiped>>
  BY DEF AddItemSets, IInv, TypeOK
<1>2. u \in Users /\ request[c].product \in Products /\ copy[c] \in Cart
  BY <1>1 DEF IInv, TypeOK, Requests
<1>3. /\ cart \in Cart
      /\ \A p \in Products, d \in Calls :
           cart[p][d] = IF p = request[c].product /\ d = c THEN copy[c][p][d] + 1
                        ELSE copy[c][p][d]
      /\ Counted(cart) = Counted(copy[c]) \cup {c}
  BY <1>2, PlusCounts
<1>4. /\ stage' \in [Calls -> Stages]
      /\ stage'[c] = "done"
      /\ \A d \in Calls : d # c => stage'[d] = stage[d]
      /\ request' = request
      /\ store' \in [Users -> Cart]
      /\ exposed' = IF Held(c) THEN exposed \cup {c} ELSE exposed
      /\ \A v \in Users : \A other \in CartsOf(v)' :
           other \in CartsOf(v) \/ (v = u /\ other = cart)
      /\ \A v \in Users : \A other \in CartsOf(v)' : v = u => other = cart \/ Held(c)
  <2>1. /\ store' = [store EXCEPT ![u] = cart]
        /\ exposed' = IF Held(c) THEN exposed \cup {c} ELSE exposed
    BY <1>1 DEF SetAsync
  <2> HIDE DEF cart
  <2>2. QED
    BY <1>1, <1>3, <2>1, WritesTo, ZenonT(60)
<1>5. copy[c] \in CartsOf(u)
  BY <1>1 DEF CartsOf
<1> HIDE DEF cart
<1>6. TypeOK'
  BY <1>1, <1>4 DEF IInv, TypeOK
<1>7. \A d \in Calls : stage[d] \in {"done"} \cup Finished => stage'[d] \in {"done"} \cup Finished
  BY <1>4
<1>8. Counts'
  <2>1. ASSUME NEW v \in Users, NEW other \in CartsOf(v)', NEW p \in Products, NEW d \in Calls
        PROVE  /\ other[p][d] <= 1
               /\ other[p][d] > 0 => /\ request[d].do = "AddItem"
                                     /\ request[d].product = p
                                     /\ request[d].user = v
                                     /\ stage'[d] \in {"done"} \cup Finished
    <3>1. CASE other \in CartsOf(v)
      BY <1>7, <3>1 DEF IInv, Counts
    <3>2. CASE v = u /\ other = cart
      <4>1. /\ copy[c][p][d] \in Nat
            /\ copy[c][p][d] <= 1
            /\ copy[c][p][d] > 0 => /\ request[d].do = "AddItem"
                                    /\ request[d].product = p
                                    /\ request[d].user = u
                                    /\ stage[d] \in {"done"} \cup Finished
        BY <1>2, <1>5 DEF IInv, Counts, Cart, Quantity
      <4>2. CASE d = c
        <5>1. copy[c][p][c] = 0
          BY <1>1, <4>1, <4>2 DEF Finished
        <5>2. QED
          BY <1>1, <1>3, <1>4, <3>2, <4>2, <5>1
      <4>3. CASE d # c
        BY <1>3, <1>7, <3>2, <4>1, <4>3
      <4>4. QED
        BY <4>2, <4>3
    <3>3. QED
      BY <1>4, <3>1, <3>2
  <2>2. QED
    BY <1>4, <2>1 DEF Counts
<1>9. Survives'
  <2>1. ASSUME NEW d \in Calls, Added(d)', NEW other \in CartsOf(request[d].user)'
        PROVE  d \in Counted(other) \cup exposed' \cup Wiped
    <3>1. request[d].user \in Users /\ exposed \subseteq exposed'
      BY <1>4 DEF IInv, TypeOK, Requests
    <3>2. CASE d = c
      <4>1. other = cart \/ Held(c)
        BY <1>2, <1>4, <2>1, <3>2
      <4>2. QED
        BY <1>3, <1>4, <3>2, <4>1
    <3>3. CASE d # c
      <4>1. Added(d)
        BY <1>4, <2>1, <3>3 DEF Added
      <4>2. CASE other \in CartsOf(request[d].user)
        BY <3>1, <4>1, <4>2 DEF IInv, Survives
      <4>3. CASE request[d].user = u /\ other = cart
        <5>1. d \in Counted(copy[c]) \cup exposed \cup Wiped
          BY <1>5, <4>1, <4>3 DEF IInv, Survives
        <5>2. QED
          BY <1>3, <3>1, <4>3, <5>1
      <4>4. QED
        BY <1>4, <3>1, <4>2, <4>3
    <3>4. QED
      BY <3>2, <3>3
  <2>2. QED
    BY <1>1, <1>4, <2>1 DEF Survives, Wiped, Counted
<1>10. StaysEmpty'
  <2>1. ASSUME NEW e \in Calls, e \notin exposed', NEW v \in Users, NEW other \in CartsOf(v)'
        PROVE  wiped[e] \cap Counted(other) = {}
    <3>1. e \notin exposed
      BY <1>4, <2>1
    <3>2. CASE other \in CartsOf(v)
      BY <3>1, <3>2 DEF IInv, StaysEmpty
    <3>3. CASE v = u /\ other = cart
      <4>1. wiped[e] \cap Counted(copy[c]) = {}
        BY <1>2, <1>5, <3>1 DEF IInv, StaysEmpty
      <4>2. c \notin wiped[e]
        BY <1>1 DEF IInv, StaysEmpty, Finished
      <4>3. QED
        BY <1>3, <3>3, <4>1, <4>2
    <3>4. QED
      BY <1>4, <3>2, <3>3
  <2>2. \A e \in Calls : wiped[e] \subseteq Calls
    BY DEF IInv, TypeOK
  <2>3. QED
    BY <1>1, <1>4, <1>7, <2>1, <2>2 DEF IInv, StaysEmpty, Counted
<1>11. Exclusive'
  <2>1. InFlight(c)
    BY <1>1 DEF InFlight, Finished
  <2>2. store' = [store EXCEPT ![u] = store'[u]]
    BY <1>1, <1>2 DEF SetAsync, IInv, TypeOK
  <2>3. QED
    BY <1>1, <1>4, <2>1, <2>2, WritesExclusive
<1>12. QED
  BY <1>6, <1>8, <1>9, <1>10, <1>11 DEF IInv

\* An EmptyCart wipes what is in the store, but not the copies.
LEMMA EmptyInv ==
  ASSUME IInv, NEW c \in Calls, EmptyCart(c)
  PROVE  IInv'
<1> DEFINE u == request[c].user
<1>1. /\ stage[c] = "called"
      /\ request[c].do = "EmptyCart"
      /\ SetAsync(c, Empty)
      /\ wiped' = [wiped EXCEPT ![c] = Counted(store[u])]
      /\ Goto(c, "done")
      /\ UNCHANGED <<answer, copy>>
  BY DEF EmptyCart, Handles
<1>2. /\ Empty \in Cart
      /\ \A p \in Products, d \in Calls : Empty[p][d] = 0
      /\ Counted(Empty) = {}
  BY DEF Empty, Cart, Nothing, Quantity, Counted
<1>3. u \in Users /\ store[u] \in CartsOf(u)
  BY DEF IInv, TypeOK, Requests, CartsOf
<1>4. /\ stage' \in [Calls -> Stages]
      /\ stage'[c] = "done"
      /\ \A d \in Calls : d # c => stage'[d] = stage[d]
      /\ request' = request
      /\ store' \in [Users -> Cart]
      /\ exposed' = IF Held(c) THEN exposed \cup {c} ELSE exposed
      /\ \A v \in Users : \A other \in CartsOf(v)' :
           other \in CartsOf(v) \/ (v = u /\ other = Empty)
      /\ \A v \in Users : \A other \in CartsOf(v)' : v = u => other = Empty \/ Held(c)
  <2>1. /\ store' = [store EXCEPT ![u] = Empty]
        /\ exposed' = IF Held(c) THEN exposed \cup {c} ELSE exposed
    BY <1>1 DEF SetAsync
  <2>2. QED
    BY <1>1, <1>2, <2>1, WritesTo
<1>5. /\ Counted(store[u]) \subseteq Calls
      /\ wiped'[c] = Counted(store[u])
      /\ \A e \in Calls : e # c => wiped'[e] = wiped[e]
      /\ wiped' \in [Calls -> SUBSET Calls]
  BY <1>1 DEF Counted, IInv, TypeOK
<1>6. TypeOK'
  BY <1>1, <1>4, <1>5 DEF IInv, TypeOK
<1>7. \A d \in Calls : stage[d] \in {"done"} \cup Finished => stage'[d] \in {"done"} \cup Finished
  BY <1>4
<1>8. Counts'
  BY <1>2, <1>4, <1>7 DEF IInv, Counts
<1>9. wiped[c] = {}
  BY <1>1 DEF IInv, StaysEmpty, Finished
<1>10. Survives'
  <2>1. ASSUME NEW d \in Calls, Added(d)', NEW other \in CartsOf(request[d].user)'
        PROVE  d \in Counted(other) \cup exposed' \cup Wiped'
    <3>1. /\ request[d].user \in Users
          /\ exposed \subseteq exposed'
          /\ Wiped \subseteq Wiped'
      BY <1>4, <1>5, <1>9 DEF IInv, TypeOK, Requests, Wiped
    <3>2. Added(d)
      BY <1>1, <1>4, <2>1 DEF Added
    <3>3. CASE other \in CartsOf(request[d].user)
      BY <3>1, <3>2, <3>3 DEF IInv, Survives
    <3>4. CASE request[d].user = u
      <4>1. d \in Counted(store[u]) \cup exposed \cup Wiped
        BY <1>3, <3>2, <3>4 DEF IInv, Survives
      <4>2. Counted(store[u]) \subseteq Wiped'
        BY <1>5 DEF Wiped
      <4>3. QED
        BY <3>1, <4>1, <4>2
    <3>5. QED
      BY <1>4, <3>1, <3>3, <3>4
  <2>2. QED
    BY <1>4, <2>1 DEF Survives, Counted
<1>11. StaysEmpty'
  <2>1. \A v \in Users : \A other \in CartsOf(v) : \A d \in Counted(other) :
          /\ request[d].do = "AddItem"
          /\ request[d].user = v
          /\ stage[d] \in {"done"} \cup Finished
    BY DEF IInv, Counts, Counted
  <2>2. ASSUME NEW e \in Calls
        PROVE  /\ wiped'[e] # {} => stage'[e] \in {"done"} \cup Finished
               /\ \A d \in wiped'[e] : /\ request[d].do = "AddItem"
                                       /\ stage'[d] \in {"done"} \cup Finished
    <3>1. CASE e = c
      BY <1>3, <1>4, <1>5, <1>7, <2>1, <3>1
    <3>2. CASE e # c
      BY <1>5, <1>7, <3>2 DEF IInv, StaysEmpty, TypeOK
    <3>3. QED
      BY <3>1, <3>2
  <2>3. ASSUME NEW e \in Calls, e \notin exposed', NEW v \in Users, NEW other \in CartsOf(v)'
        PROVE  wiped'[e] \cap Counted(other) = {}
    <3>1. CASE e = c
      <4>1. CASE v = u
        BY <1>2, <1>4, <2>3, <3>1, <4>1
      <4>2. CASE v # u
        BY <1>3, <1>4, <1>5, <2>1, <3>1, <4>2
      <4>3. QED
        BY <4>1, <4>2
    <3>2. CASE e # c
      <4>1. e \notin exposed /\ wiped'[e] = wiped[e]
        BY <1>4, <1>5, <2>3, <3>2
      <4>2. CASE other \in CartsOf(v)
        BY <4>1, <4>2 DEF IInv, StaysEmpty
      <4>3. CASE other = Empty
        BY <1>2, <4>3
      <4>4. QED
        BY <1>4, <4>2, <4>3
    <3>3. QED
      BY <3>1, <3>2
  <2>4. QED
    BY <1>4, <2>2, <2>3 DEF StaysEmpty, Counted
<1>12. Exclusive'
  <2>1. InFlight(c)
    BY <1>1 DEF InFlight, Finished
  <2>2. store' = [store EXCEPT ![u] = store'[u]]
    BY <1>1, <1>3 DEF SetAsync, IInv, TypeOK
  <2>3. QED
    BY <1>1, <1>4, <2>1, <2>2, WritesExclusive
<1>13. QED
  BY <1>6, <1>8, <1>10, <1>11, <1>12 DEF IInv

\* The invariant is inductive.
LEMMA NextInv == IInv /\ [Next]_vars => IInv'
<1> SUFFICES ASSUME IInv, [Next]_vars PROVE IInv'
  OBVIOUS
<1>1. CASE UNCHANGED vars
  <2>1. UNCHANGED <<request, stage, answer, store, copy, wiped, exposed>>
    BY <1>1 DEF vars, callVars, ghosts
  <2>2. TypeOK' /\ Exclusive'
    BY <2>1 DEF IInv, TypeOK, Exclusive, InFlight, Apart
  <2>3. \A u \in Users : CartsOf(u)' = CartsOf(u)
    BY <2>1 DEF CartsOf
  <2>4. \A c \in Calls : request[c].user \in Users
    BY DEF IInv, TypeOK, Requests
  <2>5. Counts' /\ StaysEmpty'
    BY <2>1, <2>3 DEF IInv, Counts, StaysEmpty, Counted
  <2>6. Survives'
    BY <2>1, <2>3, <2>4 DEF IInv, Survives, Counted, Wiped, Added
  <2>7. QED
    BY <2>2, <2>5, <2>6 DEF IInv
<1>2. CASE Next
  BY <1>2, GetsInv, SetsInv, EmptyInv, GetInv, CallInv DEF Next
<1>3. QED
  BY <1>1, <1>2

----------------------------------------------------------------------------
\* What holds of the cart in the store also holds of every copy that may
\* still replace it, for any calls, overlapping or not.
THEOREM Invariance == Spec => []IInv
BY InitInv, NextInv, PTL DEF Spec

\* RedisCartStore never counts an AddItem twice, nor for another product or
\* for another user's cart.
THEOREM NothingTwice == Spec => []CountedOnce
<1>1. ASSUME IInv
      PROVE  CountedOnce
  <2>1. \A u \in Users : store[u] \in CartsOf(u) /\ store[u] \in Cart
    BY <1>1 DEF CartsOf, IInv, TypeOK
  <2>2. ASSUME NEW u \in Users, NEW p \in Products, NEW c \in Calls
        PROVE  store[u][p][c] <= IF request[c].do = "AddItem" /\ request[c].product = p
                                 THEN 1 ELSE 0
    <3>1. /\ store[u][p][c] \in Nat
          /\ store[u][p][c] <= 1
          /\ store[u][p][c] > 0 => request[c].do = "AddItem" /\ request[c].product = p
      BY <1>1, <2>1 DEF IInv, Counts, Cart, Quantity
    <3>2. QED
      BY <3>1
  <2>3. QED
    BY <2>2 DEF CountedOnce
<1>2. QED
  BY <1>1, Invariance, PTL

\* RedisCartStore loses what was added, or brings back what was emptied, only
\* when a write fell between the get and the set of another AddItem.
THEOREM LossesAreRaces == Spec => []OnlyRacesLose
<1>1. ASSUME IInv
      PROVE  OnlyRacesLose
  <2>1. \A u \in Users : store[u] \in CartsOf(u)
    BY DEF CartsOf
  <2>2. \A c \in Calls : request[c].user \in Users
    BY <1>1 DEF IInv, TypeOK, Requests
  <2>3. QED
    BY <1>1, <2>1, <2>2 DEF IInv, Survives, StaysEmpty, OnlyRacesLose
<1>2. QED
  BY <1>1, Invariance, PTL

----------------------------------------------------------------------------
\* A step of a call for a user whose calls overlap is not seen.
LEMMA UnseenStep ==
  ASSUME IInv, NEW c \in Calls, ~ Apart(c), NEW next \in Stages, Goto(c, next),
         \A u \in Users : u # request[c].user => store'[u] = store[u],
         store' \in [Users -> Cart],
         \A d \in Calls : d # c => answer'[d] = answer[d]
  PROVE  UNCHANGED Abstract!vars
<1> DEFINE carts == [u \in Users |-> IF u \in Overlapping THEN Empty ELSE store[u]]
           shown == [d \in Calls |-> IF ~ Apart(d) THEN "idle"
                                     ELSE IF stage[d] = "read" THEN "called" ELSE stage[d]]
           answers == [d \in Calls |-> IF Apart(d) THEN answer[d] ELSE Empty]
<1>1. /\ \A d \in Calls : d # c => stage'[d] = stage[d]
      /\ request' = request
  BY GotoStage DEF IInv
<1>2. Empty' = Empty
  BY DEF Empty, Nothing
<1>3. \A d \in Calls : Apart(d)' <=> Apart(d)
  BY <1>1 DEF Apart
<1>4. carts' = carts
  BY <1>2 DEF Apart
<1>5. shown' = shown
  BY <1>1, <1>3
<1>6. answers' = answers
  BY <1>2, <1>3
<1>7. QED
  BY <1>1, <1>4, <1>5, <1>6 DEF Abstract!vars, Abstract!callVars

\* Where calls do not overlap, the cart that is set is the one in the store
\* with one item more, and the set is the moment at which the call acts.
LEMMA StepRefines ==
  IInv /\ [Next]_vars => [Abstract!Next]_(Abstract!vars)
<1> DEFINE carts == [u \in Users |-> IF u \in Overlapping THEN Empty ELSE store[u]]
           shown == [c \in Calls |-> IF ~ Apart(c) THEN "idle"
                                     ELSE IF stage[c] = "read" THEN "called" ELSE stage[c]]
           answers == [c \in Calls |-> IF Apart(c) THEN answer[c] ELSE Empty]
<1> SUFFICES ASSUME IInv, [Next]_vars
             PROVE  [Abstract!Next]_(Abstract!vars)
  OBVIOUS
<1>1. CASE UNCHANGED vars
  BY <1>1 DEF vars, callVars, Abstract!vars, Abstract!callVars, Apart
<1>2. \A c \in Calls : request[c].user \in Users
  BY DEF IInv, TypeOK, Requests
<1>3. ASSUME NEW c \in Calls, Apart(c), AddItemGets(c)
      PROVE  UNCHANGED Abstract!vars
  <2>1. UNCHANGED <<request, answer, store>>
    BY <1>3 DEF AddItemGets, Goto
  <2>2. \A d \in Calls : Apart(d)' <=> Apart(d)
    BY <2>1 DEF Apart
  <2>3. shown' = shown
    BY <1>3, <2>2 DEF AddItemGets, Handles, Goto, IInv, TypeOK
  <2>4. carts' = carts /\ answers' = answers
    BY <2>1, <2>2
  <2>5. QED
    BY <2>1, <2>3, <2>4 DEF Abstract!vars, Abstract!callVars
<1>4. ASSUME NEW c \in Calls, Apart(c),
             NEW next \in {"called", "done", "returned", "failed"}, Goto(c, next)
      PROVE  shown' = [shown EXCEPT ![c] = next]
  BY <1>4 DEF Goto, IInv, TypeOK, Apart
<1>5. ASSUME NEW c \in Calls, Apart(c), Handles(c, "AddItem") \/ Handles(c, "EmptyCart")
                                        \/ Handles(c, "GetCart") \/ stage[c] = "read"
      PROVE  shown[c] = "called"
  BY <1>5 DEF Handles
<1>6. ASSUME NEW c \in Calls, Apart(c), NEW cart \in Cart, request' = request,
             store' = [store EXCEPT ![request[c].user] = cart]
      PROVE  carts' = [carts EXCEPT ![request[c].user] = cart]
  BY <1>2, <1>6 DEF Apart, IInv, TypeOK
<1>7. ASSUME NEW c \in Calls, Apart(c)
      PROVE  carts[request[c].user] = store[request[c].user]
  BY <1>2, <1>7 DEF Apart
<1>8. ASSUME request' = request, answer' = answer
      PROVE  answers' = answers
  BY <1>8 DEF Apart
<1>9. ASSUME NEW c \in Calls, Apart(c), AddItemSets(c)
      PROVE  Abstract!Next
  <2>1. /\ stage[c] = "read" /\ request[c].do = "AddItem"
        /\ copy[c] = store[request[c].user]
        /\ request' = request /\ answer' = answer
    BY <1>9 DEF AddItemSets, IInv, TypeOK, Exclusive, Goto
  <2>2. Plus(copy[c], c) \in Cart
    <3>1. copy[c] \in Cart /\ request[c].product \in Products
      BY <2>1 DEF IInv, TypeOK, Requests
    <3>2. QED
      BY <3>1, PlusCounts
  <2>3. store' = [store EXCEPT ![request[c].user] = Plus(copy[c], c)]
    BY <1>9 DEF AddItemSets, SetAsync
  <2>4. carts' = [carts EXCEPT ![request[c].user] = Plus(copy[c], c)]
    BY <1>6, <1>9, <2>1, <2>2, <2>3
  <2>5. carts' = [carts EXCEPT ![request[c].user] = Plus(@, c)]
    BY <1>2, <1>7, <1>9, <2>1, <2>4
  <2>6. Abstract!AddItem(c)
    BY <1>5, <1>8, <1>9, <2>1, <2>5 DEF Abstract!AddItem, Abstract!Handles, Plus, Abstract!Plus
  <2>7. Abstract!Goto(c, "done")
    BY <1>4, <1>9 DEF Abstract!Goto, AddItemSets, Goto
  <2>8. QED
    BY <2>6, <2>7 DEF Abstract!Next
<1>10. ASSUME NEW c \in Calls, Apart(c), EmptyCart(c)
       PROVE  Abstract!Next
  <2>1. /\ Goto(c, "done") /\ Handles(c, "EmptyCart")
        /\ request' = request /\ answer' = answer
        /\ store' = [store EXCEPT ![request[c].user] = Empty]
    BY <1>10 DEF EmptyCart, SetAsync, Goto
  <2>2. Empty \in Cart /\ Abstract!Empty = Empty
    BY DEF Empty, Nothing, Cart, Quantity, Abstract!Empty, Abstract!Nothing
  <2>3. carts' = [carts EXCEPT ![request[c].user] = Abstract!Empty]
    BY <1>6, <1>10, <2>1, <2>2
  <2>4. Abstract!EmptyCart(c)
    BY <1>5, <1>8, <1>10, <2>1, <2>3 DEF Abstract!EmptyCart, Abstract!Handles, Handles
  <2>5. Abstract!Goto(c, "done")
    BY <1>4, <1>10, <2>1 DEF Abstract!Goto
  <2>6. QED
    BY <2>4, <2>5 DEF Abstract!Next
<1>11. ASSUME NEW c \in Calls, Apart(c), GetCart(c)
       PROVE  Abstract!Next
  <2>1. /\ Goto(c, "done") /\ Handles(c, "GetCart")
        /\ request' = request /\ store' = store
        /\ answer' = [answer EXCEPT ![c] = store[request[c].user]]
    BY <1>11 DEF GetCart, Goto
  <2>2. answers' = [answers EXCEPT ![c] = store[request[c].user]]
    BY <1>11, <2>1 DEF Apart, IInv, TypeOK
  <2>3. carts' = carts
    BY <2>1
  <2>4. Abstract!GetCart(c)
    BY <1>5, <1>7, <1>11, <2>1, <2>2, <2>3 DEF Abstract!GetCart, Abstract!Handles, Handles
  <2>5. Abstract!Goto(c, "done")
    BY <1>4, <1>11, <2>1 DEF Abstract!Goto
  <2>6. QED
    BY <2>4, <2>5 DEF Abstract!Next
<1>12. ASSUME NEW c \in Calls, Apart(c), Invoke(c) \/ Return(c) \/ Fail(c),
              UNCHANGED <<store, copy, ghosts>>
       PROVE  Abstract!Next
  <2>1. request' = request /\ answer' = answer
    BY <1>12 DEF Invoke, Return, Fail, Goto
  <2>2. UNCHANGED <<carts, answers>>
    BY <1>8, <1>12, <2>1
  <2>3. shown[c] = IF stage[c] = "read" THEN "called" ELSE stage[c]
    BY <1>12
  <2>4. CASE Invoke(c)
    <3>1. Abstract!Goto(c, "called")
      BY <1>4, <1>12, <2>4 DEF Invoke, Abstract!Goto, Goto
    <3>2. ASSUME NEW d \in Calls, request[d].user = request[c].user
          PROVE  ~ Abstract!InFlight(d)
      <4>1. ~ InFlight(d) /\ Apart(d)
        BY <1>12, <2>4, <3>2 DEF Invoke, Apart
      <4>2. shown[d] = stage[d]
        BY <4>1 DEF InFlight, Finished
      <4>3. QED
        BY <4>1, <4>2 DEF InFlight, Finished, Abstract!InFlight, Abstract!Finished
    <3>3. Abstract!Invoke(c)
      BY <1>12, <2>2, <2>3, <2>4, <3>1, <3>2 DEF Invoke, Abstract!Invoke
    <3>4. QED
      BY <2>2, <3>3 DEF Abstract!Next
  <2>5. CASE Return(c)
    <3>1. Abstract!Goto(c, "returned")
      BY <1>4, <1>12, <2>5 DEF Return, Abstract!Goto, Goto
    <3>2. Abstract!Return(c)
      BY <2>2, <2>3, <2>5, <3>1 DEF Return, Abstract!Return
    <3>3. QED
      BY <2>2, <3>2 DEF Abstract!Next
  <2>6. CASE Fail(c)
    <3>1. Abstract!Goto(c, "failed")
      BY <1>4, <1>12, <2>6 DEF Fail, Abstract!Goto, Goto
    <3>2. Abstract!InFlight(c)
      BY <2>3, <2>6 DEF Fail, InFlight, Finished, Abstract!InFlight, Abstract!Finished
    <3>3. Abstract!Fail(c)
      BY <2>2, <3>1, <3>2 DEF Abstract!Fail
    <3>4. QED
      BY <2>2, <3>3 DEF Abstract!Next
  <2>7. QED
    BY <1>12, <2>4, <2>5, <2>6
<1>13. ASSUME NEW c \in Calls, ~ Apart(c),
              \/ AddItemGets(c) \/ AddItemSets(c) \/ EmptyCart(c) \/ GetCart(c)
              \/ (Invoke(c) \/ Return(c) \/ Fail(c)) /\ UNCHANGED <<store, copy, ghosts>>
       PROVE  UNCHANGED Abstract!vars
  <2>1. PICK next \in Stages : Goto(c, next)
    BY <1>13 DEF AddItemGets, AddItemSets, EmptyCart, GetCart, Invoke, Return, Fail, Stages,
       Finished
  <2>2. \A u \in Users : u # request[c].user => store'[u] = store[u]
    BY <1>13 DEF AddItemGets, AddItemSets, EmptyCart, GetCart, SetAsync, IInv, TypeOK
  <2>3. store' \in [Users -> Cart]
    BY <1>13, NextInv DEF Next, IInv, TypeOK
  <2>4. \A d \in Calls : d # c => answer'[d] = answer[d]
    BY <1>13 DEF AddItemGets, AddItemSets, EmptyCart, GetCart, Invoke, Return, Fail, IInv, TypeOK
  <2>5. QED
    BY <1>13, <2>1, <2>2, <2>3, <2>4, UnseenStep
<1>14. QED
  BY <1>1, <1>3, <1>9, <1>10, <1>11, <1>12, <1>13 DEF Next

\* An empty cache is empty carts.
LEMMA InitRefines == Init => Abstract!Init
BY DEF Init, CallsInit, Abstract!Init, Abstract!CallsInit, Requests, Abstract!Requests,
   Empty, Nothing, Abstract!Empty, Abstract!Nothing, Apart

\* To the users whose calls do not overlap, RedisCartStore implements the
\* abstract carts although its AddItem is not atomic, and although the calls
\* of others may overlap.
THEOREM Refinement == Spec => RefinesCarts
<1>1. IInv /\ [Next]_vars => [Abstract!Next]_(Abstract!vars)
  BY StepRefines
<1>2. Spec => Abstract!Init /\ [][Abstract!Next]_(Abstract!vars)
  BY <1>1, InitRefines, Invariance, PTL DEF Spec
<1>3. QED
  BY <1>2 DEF RefinesCarts, Abstract!Spec
=============================================================================
