------------------------- MODULE SpannerCartProofs -------------------------
(* Proofs about SpannerCart: for any users, products and overlapping calls. *)
EXTENDS SpannerCart, TLAPS

\* A cart stays one when something is added to it.
LEMMA PlusType ==
  ASSUME NEW quantity \in Quantity, NEW c \in Calls
  PROVE  [quantity EXCEPT ![c] = @ + 1] \in Quantity
BY DEF Quantity

\* There are no carts and no transactions at first.
LEMMA InitInv == Init => IInv
<1> SUFFICES ASSUME Init PROVE IInv
  OBVIOUS
<1>1. Empty \in Cart /\ Nothing \in Quantity
  BY DEF Empty, Cart, Nothing, Quantity
<1>2. QED
  BY <1>1 DEF Init, CallsInit, IInv, TypeOK, Finished

\* A call that is handled by a method of the store moves on.
LEMMA GotoStage ==
  ASSUME TypeOK, NEW c \in Calls, NEW next \in {"idle", "called", "read", "done"} \cup Finished,
         Goto(c, next)
  PROVE  /\ stage' \in [Calls -> {"idle", "called", "read", "done"} \cup Finished]
         /\ stage'[c] = next
         /\ \A d \in Calls : d # c => stage'[d] = stage[d]
         /\ request' = request
BY DEF TypeOK, Goto

\* Reading the row starts a transaction that is up to date.
LEMMA ReadsInv ==
  ASSUME IInv, NEW c \in Calls, AddItemReads(c)
  PROVE  IInv'
<1>1. /\ stage' \in [Calls -> {"idle", "called", "read", "done"} \cup Finished]
      /\ \A d \in Calls : d # c => stage'[d] = stage[d]
      /\ UNCHANGED <<request, answer, rows>>
      /\ request[c].do = "AddItem"
  BY GotoStage DEF AddItemReads, Handles, IInv
<1>2. request[c].user \in Users /\ request[c].product \in Products
  BY <1>1 DEF IInv, TypeOK, Requests
<1>3. RowOf(c) \in Quantity
  BY <1>2 DEF IInv, TypeOK, RowOf, Cart
<1>4. copy' \in [Calls -> Quantity] /\ copy'[c] = RowOf(c)
  BY <1>3 DEF AddItemReads, IInv, TypeOK
<1>5. TypeOK'
  BY <1>1, <1>4 DEF AddItemReads, IInv, TypeOK
<1>6. ASSUME NEW d \in Calls, stage'[d] = "read"
      PROVE  request[d].do = "AddItem" /\ (d \notin stale' => copy'[d] = RowOf(d))
  BY <1>1, <1>4, <1>6 DEF AddItemReads, IInv, TypeOK
<1>7. QED
  BY <1>1, <1>5, <1>6 DEF IInv, RowOf

\* What a call writes is stale for all who read it.
LEMMA WritesInv ==
  ASSUME IInv, NEW c \in Calls, AddItemCommits(c) \/ EmptyCart(c)
  PROVE  IInv'
<1>1. /\ stage' \in [Calls -> {"idle", "called", "read", "done"} \cup Finished]
      /\ stage'[c] = "done"
      /\ \A d \in Calls : d # c => stage'[d] = stage[d]
      /\ UNCHANGED <<request, answer, copy>>
      /\ stale' = stale \cup Readers(c)
  BY GotoStage DEF AddItemCommits, EmptyCart, IInv
<1>2. request[c].user \in Users
  BY DEF IInv, TypeOK, Requests
<1>3. CASE AddItemCommits(c)
  <2>1. request[c].do = "AddItem" /\ request[c].product \in Products
    BY <1>3 DEF AddItemCommits, IInv, TypeOK, Requests
  <2>2. [copy[c] EXCEPT ![c] = @ + 1] \in Quantity
    BY PlusType DEF IInv, TypeOK
  <2>3. rows' \in [Users -> Cart]
    BY <1>2, <1>3, <2>1, <2>2 DEF AddItemCommits, IInv, TypeOK, Cart
  <2>4. TypeOK'
    BY <1>1, <2>3 DEF IInv, TypeOK, Readers
  <2>5. ASSUME NEW d \in Calls, stage'[d] = "read", d \notin stale'
        PROVE  RowOf(d)' = RowOf(d)
    <3>1. d # c /\ stage[d] = "read" /\ d \notin Readers(c)
      BY <1>1, <2>5
    <3>2. request[d].do = "AddItem" /\ request[d].user \in Users /\ request[d].product \in Products
      BY <3>1 DEF IInv, TypeOK, Requests
    <3>3. request[d].user # request[c].user \/ request[d].product # request[c].product
      BY <3>1 DEF Readers
    <3>4. QED
      BY <1>1, <1>2, <1>3, <2>1, <3>2, <3>3 DEF AddItemCommits, RowOf, IInv, TypeOK, Cart
  <2>6. QED
    BY <1>1, <2>4, <2>5 DEF IInv
<1>4. CASE EmptyCart(c)
  <2>1. request[c].do = "EmptyCart"
    BY <1>4 DEF EmptyCart, Handles
  <2>2. Empty \in Cart
    BY DEF Empty, Cart, Nothing, Quantity
  <2>3. rows' \in [Users -> Cart]
    BY <1>2, <1>4, <2>2 DEF EmptyCart, IInv, TypeOK
  <2>4. TypeOK'
    BY <1>1, <2>3 DEF IInv, TypeOK, Readers
  <2>5. ASSUME NEW d \in Calls, stage'[d] = "read", d \notin stale'
        PROVE  RowOf(d)' = RowOf(d)
    <3>1. d # c /\ stage[d] = "read" /\ d \notin Readers(c)
      BY <1>1, <2>5
    <3>2. request[d].user # request[c].user
      BY <2>1, <3>1 DEF Readers
    <3>3. request[d].user \in Users
      BY DEF IInv, TypeOK, Requests
    <3>4. QED
      BY <1>1, <1>2, <1>4, <3>2, <3>3 DEF EmptyCart, RowOf, IInv, TypeOK
  <2>6. QED
    BY <1>1, <2>4, <2>5 DEF IInv
<1>5. QED
  BY <1>3, <1>4

\* The other steps leave rows and transactions alone.
LEMMA OthersInv ==
  ASSUME IInv, NEW c \in Calls,
         \/ AddItemAborts(c) \/ GetCart(c)
         \/ (Invoke(c) \/ Return(c) \/ Fail(c)) /\ UNCHANGED <<rows, copy, stale>>
  PROVE  IInv'
<1>1. \E next \in {"called", "done", "returned", "failed"} : Goto(c, next)
  BY DEF AddItemAborts, GetCart, Invoke, Return, Fail
<1>2. /\ stage' \in [Calls -> {"idle", "called", "read", "done"} \cup Finished]
      /\ stage'[c] # "read"
      /\ \A d \in Calls : d # c => stage'[d] = stage[d]
      /\ request' = request
  BY <1>1, GotoStage DEF IInv, Finished
<1>3. UNCHANGED <<rows, copy, stale>>
  BY DEF AddItemAborts, GetCart
<1>4. answer' \in [Calls -> Cart]
  BY DEF AddItemAborts, GetCart, Invoke, Return, Fail, IInv, TypeOK, Requests
<1>5. TypeOK'
  BY <1>2, <1>3, <1>4 DEF IInv, TypeOK
<1>6. QED
  BY <1>2, <1>3, <1>5 DEF IInv, RowOf

\* The invariant is inductive.
LEMMA NextInv == IInv /\ [Next]_vars => IInv'
<1> SUFFICES ASSUME IInv, [Next]_vars PROVE IInv'
  OBVIOUS
<1>1. CASE UNCHANGED vars
  BY <1>1 DEF vars, callVars, IInv, TypeOK, RowOf
<1>2. CASE Next
  BY <1>2, ReadsInv, WritesInv, OthersInv DEF Next
<1>3. QED
  BY <1>1, <1>2

\* A transaction that may still commit always holds what the row holds, so that
\* no AddItem is lost or counted twice by one that SpannerCartStore runs again.
THEOREM Invariance == Spec => []IInv
BY InitInv, NextInv, PTL DEF Spec

----------------------------------------------------------------------------
\* A step of the store acts on the abstract carts once, when it commits, and
\* not when it reads or is run again.
LEMMA StepRefines == IInv /\ [Next]_vars => [Abstract!Next]_(Abstract!vars)
<1> DEFINE shown == [c \in Calls |-> IF stage[c] = "read" THEN "called" ELSE stage[c]]
<1> SUFFICES ASSUME IInv, [Next]_vars PROVE [Abstract!Next]_(Abstract!vars)
  OBVIOUS
<1>1. CASE UNCHANGED vars
  BY <1>1 DEF vars, callVars, Abstract!vars, Abstract!callVars
<1>2. ASSUME NEW c \in Calls, AddItemReads(c) \/ AddItemAborts(c)
      PROVE  UNCHANGED Abstract!vars
  <2>1. shown' = shown
    BY <1>2 DEF AddItemReads, AddItemAborts, Handles, Goto, IInv, TypeOK
  <2>2. UNCHANGED <<request, answer, rows>>
    BY <1>2 DEF AddItemReads, AddItemAborts, Goto
  <2>3. QED
    BY <2>1, <2>2 DEF Abstract!vars, Abstract!callVars
<1>3. ASSUME NEW c \in Calls, NEW next \in {"called", "done", "returned", "failed"},
             Goto(c, next)
      PROVE  shown' = [shown EXCEPT ![c] = next]
  BY <1>3 DEF Goto, IInv, TypeOK
<1>4. ASSUME NEW c \in Calls, AddItemCommits(c)
      PROVE  Abstract!Next
  <2>1. /\ stage[c] = "read" /\ request[c].do = "AddItem"
        /\ shown[c] = "called"
        /\ copy[c] = RowOf(c)
    BY <1>4 DEF AddItemCommits, IInv
  <2>2. request[c].user \in Users /\ request[c].product \in Products
    BY <2>1 DEF IInv, TypeOK, Requests
  <2>3. rows' = [rows EXCEPT ![request[c].user] = Plus(@, c)]
    BY <1>4, <2>1, <2>2 DEF AddItemCommits, IInv, TypeOK, Plus, RowOf, Cart
  <2>4. Abstract!AddItem(c)
    BY <1>4, <2>1, <2>3 DEF Abstract!AddItem, Abstract!Handles, AddItemCommits, Plus,
       Abstract!Plus
  <2>5. Abstract!Goto(c, "done")
    BY <1>3, <1>4 DEF Abstract!Goto, AddItemCommits, Goto
  <2>6. QED
    BY <2>4, <2>5 DEF Abstract!Next
<1>5. ASSUME NEW c \in Calls, EmptyCart(c) \/ GetCart(c)
      PROVE  Abstract!Next
  <2>1. Goto(c, "done") /\ stage[c] = "called"
    BY <1>5 DEF EmptyCart, GetCart, Handles
  <2>2. Abstract!EmptyCart(c) \/ Abstract!GetCart(c)
    BY <1>5, <2>1 DEF EmptyCart, GetCart, Handles, Abstract!EmptyCart, Abstract!GetCart,
       Abstract!Handles, Empty, Nothing, Abstract!Empty, Abstract!Nothing
  <2>3. Abstract!Goto(c, "done")
    BY <1>3, <2>1 DEF Abstract!Goto, Goto
  <2>4. QED
    BY <2>2, <2>3 DEF Abstract!Next
<1>6. ASSUME NEW c \in Calls, Invoke(c) \/ Return(c) \/ Fail(c),
             UNCHANGED <<rows, copy, stale>>
      PROVE  Abstract!Next
  <2>1. \A d \in Calls : Abstract!InFlight(d) <=> InFlight(d)
    BY DEF Abstract!InFlight, InFlight, Abstract!Finished, Finished
  <2>2. Abstract!Invoke(c) \/ Abstract!Return(c) \/ Abstract!Fail(c)
    <3>1. CASE Invoke(c)
      <4>1. Abstract!Goto(c, "called")
        BY <1>3, <3>1 DEF Invoke, Abstract!Goto, Goto
      <4>2. QED
        BY <2>1, <3>1, <4>1 DEF Invoke, Abstract!Invoke
    <3>2. CASE Return(c)
      <4>1. Abstract!Goto(c, "returned")
        BY <1>3, <3>2 DEF Return, Abstract!Goto, Goto
      <4>2. QED
        BY <3>2, <4>1 DEF Return, Abstract!Return
    <3>3. CASE Fail(c)
      <4>1. Abstract!Goto(c, "failed")
        BY <1>3, <3>3 DEF Fail, Abstract!Goto, Goto
      <4>2. QED
        BY <2>1, <3>3, <4>1 DEF Fail, Abstract!Fail
    <3>4. QED
      BY <1>6, <3>1, <3>2, <3>3
  <2>3. QED
    BY <1>6, <2>2 DEF Abstract!Next
<1>7. QED
  BY <1>1, <1>2, <1>4, <1>5, <1>6 DEF Next

\* Empty tables are empty carts.
LEMMA InitRefines == Init => Abstract!Init
BY DEF Init, CallsInit, Abstract!Init, Abstract!CallsInit, Requests, Abstract!Requests,
   Empty, Nothing, Abstract!Empty, Abstract!Nothing

\* Whatever overlaps and however often Spanner aborts, the store implements
\* the abstract carts: each call acts on them once, at one moment, or fails.
THEOREM Refinement == Spec => RefinesCarts
<1>1. Spec => Abstract!Init /\ [][Abstract!Next]_(Abstract!vars)
  BY InitRefines, StepRefines, Invariance, PTL DEF Spec
<1>2. QED
  BY <1>1 DEF RefinesCarts, Abstract!Spec
=============================================================================
