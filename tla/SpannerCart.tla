---------------------------- MODULE SpannerCart ----------------------------
(***************************************************************************)
(* SpannerCartStore.cs: one row for each user and product.  AddItem reads  *)
(* the row and writes the sum in a read-write transaction, which Spanner   *)
(* aborts when somebody else wrote the row in between, or for reasons of   *)
(* its own; the client library then runs the whole lambda again.           *)
(***************************************************************************)
EXTENDS CartService

VARIABLES
  rows,          \* rows[u]: the rows of u, by product
  copy,          \* copy[c]: currentQuantity of the running lambda
  stale          \* transactions whose row was written after they read it

vars == <<callVars, rows, copy, stale>>

Init ==
  /\ CallsInit
  /\ rows = [u \in Users |-> Empty]
  /\ copy = [c \in Calls |-> Nothing]
  /\ stale = {}

RowOf(c) == rows[request[c].user][request[c].product]

\* The transactions that read what the call c writes.
Readers(c) ==
  {d \in Calls \ {c} :
     /\ stage[d] = "read"
     /\ request[d].user = request[c].user
     /\ request[c].do = "AddItem" => request[d].product = request[c].product}

\* Mutant of AddItemReads: currentQuantity is declared outside the lambda.
AddItemReadsOn(c) ==
  /\ Handles(c, "AddItem")
  /\ copy' = [copy EXCEPT ![c] = [d \in Calls |-> @[d] + RowOf(c)[d]]]
  /\ stale' = stale \ {c}
  /\ Goto(c, "read")
  /\ UNCHANGED <<answer, rows>>

AddItemReads(c) ==
  /\ Handles(c, "AddItem")
  /\ copy' = [copy EXCEPT ![c] = RowOf(c)]
  /\ stale' = stale \ {c}
  /\ Goto(c, "read")
  /\ UNCHANGED <<answer, rows>>

AddItemCommits(c) ==
  /\ stage[c] = "read"
  /\ c \notin stale
  /\ rows' = [rows EXCEPT ![request[c].user][request[c].product] =
                [copy[c] EXCEPT ![c] = @ + 1]]
  /\ stale' = stale \cup Readers(c)
  /\ Goto(c, "done")
  /\ UNCHANGED <<answer, copy>>

AddItemAborts(c) ==
  /\ stage[c] = "read"
  /\ Goto(c, "called")
  /\ UNCHANGED <<answer, rows, copy, stale>>

EmptyCart(c) ==
  /\ Handles(c, "EmptyCart")
  /\ rows' = [rows EXCEPT ![request[c].user] = Empty]
  /\ stale' = stale \cup Readers(c)
  /\ Goto(c, "done")
  /\ UNCHANGED <<answer, copy>>

GetCart(c) ==
  /\ Handles(c, "GetCart")
  /\ answer' = [answer EXCEPT ![c] = rows[request[c].user]]
  /\ Goto(c, "done")
  /\ UNCHANGED <<rows, copy, stale>>

Next ==
  \E c \in Calls :
    \/ AddItemReads(c) \/ AddItemCommits(c) \/ AddItemAborts(c)
    \/ EmptyCart(c) \/ GetCart(c)
    \/ (Invoke(c) \/ Return(c) \/ Fail(c)) /\ UNCHANGED <<rows, copy, stale>>

Spec == Init /\ [][Next]_vars

----------------------------------------------------------------------------
(* Properties. *)

Abstract == INSTANCE Carts WITH
  carts <- rows,
  stage <- [c \in Calls |-> IF stage[c] = "read" THEN "called" ELSE stage[c]]

\* However the calls overlap and the transactions are run again, each call
\* acts once and at one moment.
RefinesCarts == Abstract!Spec

----------------------------------------------------------------------------
(* The invariant of the refinement. *)

TypeOK ==
  /\ request \in [Calls -> Requests]
  /\ stage \in [Calls -> {"idle", "called", "read", "done"} \cup Finished]
  /\ answer \in [Calls -> Cart]
  /\ rows \in [Users -> Cart]
  /\ copy \in [Calls -> Quantity]
  /\ stale \subseteq Calls

\* A transaction that may commit has read what is still there.
IInv ==
  /\ TypeOK
  /\ \A c \in Calls :
       stage[c] = "read" =>
         /\ request[c].do = "AddItem"
         /\ c \notin stale => copy[c] = RowOf(c)
=============================================================================
