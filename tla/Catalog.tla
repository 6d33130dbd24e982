------------------------------ MODULE Catalog ------------------------------
(***************************************************************************)
(* src/src/productcatalogservice: a list of products that every call reads *)
(* through parseCatalog, which loads it again if reloadCatalog is set or   *)
(* the list is empty.  Loads exclude each other (catalogMutex), but nobody *)
(* else takes the mutex: a call reads the list while another one loads it. *)
(*                                                                         *)
(* The products are loaded from products.json, which may be another one    *)
(* each time: a new list takes the place of the old, which those who have  *)
(* it keep.  Or they are loaded from AlloyDB: then the list is cut to      *)
(* length 0 and filled row by row, in the array that earlier readers are   *)
(* still going through.  The table does not grow.  (After a load that      *)
(* broke off, the list may outgrow its array and move to another one; here *)
(* it stays where it was, so that earlier readers may see more of the rows *)
(* than they can.)                                                         *)
(***************************************************************************)
EXTENDS Naturals, SequencesExt

CONSTANTS
  Callers,       \* each has one call at a time
  Watched,       \* those of them whose answers are looked at
  Listing,       \* the products there are, in the order the table gives them first
  Files,         \* the lists that products.json may hold
  NONE           \* no caller, and no product

ASSUME CatalogAssumption ==
  /\ Watched \subseteq Callers
  /\ Listing \in Seq(ToSet(Listing)) /\ Listing # <<>>
  /\ IsInjective(Listing)
  /\ \A f \in Files : f \in Seq(ToSet(Listing)) /\ Len(f) <= Len(Listing)
  /\ NONE \notin Callers \cup ToSet(Listing)

Products == ToSet(Listing)
Size == Len(Listing)

VARIABLES
  source,        \* "file" or "alloydb"
  reloadCatalog,
  process,       \* "up", or why it is not: "stopped" or "panicked"
  array, length, \* catalog.Products is array[1] .. array[length]
  mutex,         \* the caller that holds catalogMutex, or NONE
  rows,          \* products whose rows the load at work still has to scan
  call,          \* call[c]: the call of c at work, or its last one
  \* ghost
  disturbed,     \* those watched whose call began with a list neither whole nor
                 \* empty, or next to whose call the list was cut or replaced,
                 \* or whose load failed
  mixed          \* those watched whose GetProduct had begun to search when the
                 \* list was cut or replaced

ghosts == <<disturbed, mixed>>
catalogVars == <<source, reloadCatalog, process, array, length, mutex, rows, call, ghosts>>

Ended == {"ok", "NotFound", "Unavailable"}

\* asked is NONE in a ListProducts.  use is what the list that parseCatalog
\* returns is for; index and found are the i and found of GetProduct.  list is
\* what parseCatalog returned, with NONE for a product that the call has to look
\* up in the array, or the answer.
CallType ==
  [asked : Products \cup {NONE},
   stage : {"idle", "check", "lock", "query", "rows", "return", "element", "send"} \cup Ended,
   use   : {"length", "compare", "take", "list"},
   index : 0 .. Size,
   found : Products \cup {NONE},
   list  : BoundedSeq(Products \cup {NONE}, Size)]

NoCall ==
  [asked |-> NONE, stage |-> "idle", use |-> "list", index |-> 0, found |-> NONE,
   list |-> <<>>]

\* The orders in which a query may give the rows.
Orders == {order \in [1 .. Size -> Products] : IsInjective(order)}

CatalogInit ==
  /\ source \in {"file", "alloydb"}
  /\ reloadCatalog = FALSE
  /\ process = "stopped"
  /\ array = Listing /\ length = 0
  /\ mutex = NONE
  /\ rows = {}
  /\ call = [c \in Callers |-> NoCall]
  /\ disturbed = {} /\ mixed = {}

Listed == SubSeq(array, 1, length)
Whole == source = "file" \/ (length = Size /\ IsInjective(array))

Disturbs(calls) == disturbed' = disturbed \cup (calls \cap Watched)

Working == {c \in Callers : call[c].stage \notin {"idle"} \cup Ended}

\* The GetProducts that were given a list before this one.
Midway == {c \in Working : call[c].use # "list" /\ (call[c].use # "length" \/ call[c].index > 0)}

\* The list is not any more what it was.
Mixes == mixed' = mixed \cup (Midway \cap Watched)

\* The list f from the file, in an array of its own; what is behind its end is
\* not read.
FileList(f) ==
  /\ array' = [i \in 1 .. Size |-> IF i \in DOMAIN f THEN f[i] ELSE array[i]]
  /\ length' = Len(f)

----------------------------------------------------------------------------
(* The process. *)

\* main loads the list before it serves, and exits if that fails.  AlloyDB may
\* break off its answer: rows.Next() is false then, and rows.Err() is not asked.
Start ==
  /\ process # "up"
  /\ process' = "up"
  /\ \/ source = "file" /\ \E f \in Files : FileList(f)
     \/ source = "alloydb" /\ array' \in Orders /\ length' \in 0 .. Size
  /\ UNCHANGED <<source, reloadCatalog, mutex, rows, call, ghosts>>

\* The call of c as it is left when it ends.
Over(c, code, answer) ==
  IF c \in Watched THEN [NoCall EXCEPT !.asked = call[c].asked, !.stage = code, !.list = answer]
  ELSE NoCall

\* The process ends, and with it every call at work.
Exit(why) ==
  /\ process' = why
  /\ reloadCatalog' = FALSE
  /\ array' = Listing /\ length' = 0
  /\ mutex' = NONE
  /\ rows' = {}
  /\ call' = [c \in Callers |->
               IF c \in Working THEN Over(c, "Unavailable", <<>>) ELSE call[c]]
  /\ UNCHANGED source

\* It is killed.
Die == process = "up" /\ Exit("stopped") /\ UNCHANGED ghosts

\* SIGUSR1 and SIGUSR2.
Signal ==
  /\ process = "up"
  /\ reloadCatalog' = ~ reloadCatalog
  /\ UNCHANGED <<source, process, array, length, mutex, rows, call, ghosts>>

----------------------------------------------------------------------------
(* parseCatalog. *)

Goto(c, next) == call' = [call EXCEPT ![c].stage = next]

Answers(c, code, answer) == call' = [call EXCEPT ![c] = Over(c, code, answer)]

\* GetProduct calls parseCatalog again, for what it does next.
Again(c, what, i, p) ==
  call' = [call EXCEPT ![c].stage = "check", ![c].use = what, ![c].index = i, ![c].found = p,
                       ![c].list = <<>>]

\* Its products are read later, by a step of their own, and from AlloyDB in the
\* array that is the list's by then.
Keeps(c, next, list) ==
  call' = [call EXCEPT ![c].stage = next,
                       ![c].list = IF source = "file" THEN list ELSE [i \in DOMAIN list |-> NONE]]

\* What the handler does with the list that parseCatalog returns.
\* i < len(p.parseCatalog())
Loops(c, list) ==
  LET k == call[c]
  IN \/ k.index < Len(list) /\ Again(c, "compare", k.index, k.found)
     \/ k.index >= Len(list) /\ k.found = NONE /\ Answers(c, "NotFound", <<>>)
     \/ k.index >= Len(list) /\ k.found # NONE /\ Answers(c, "ok", <<k.found>>)
\* p.parseCatalog()[i], if i is in range
Indexes(c, list) == call[c].index < Len(list) /\ Keeps(c, "element", list)

Returns(c, list) ==
  \/ call[c].use = "length" /\ Loops(c, list)
  \/ call[c].use \in {"compare", "take"} /\ Indexes(c, list)
  \/ call[c].use = "list" /\ Keeps(c, "send", list)

\* i is out of range: nothing recovers the panic of a handler.
Panics(c, list) ==
  call[c].use \in {"compare", "take"} /\ call[c].index >= Len(list) /\ Exit("panicked")

\* The product at i of a list that parseCatalog returned.
At(list, i) == IF list[i] = NONE THEN array[i] ELSE list[i]

\* Mutant of NeedsLoad: an empty list is left as it is.
NeedsLoadOnSignal == reloadCatalog

NeedsLoad == reloadCatalog \/ length = 0

Check(c) ==
  /\ call[c].stage = "check"
  /\ Goto(c, IF NeedsLoad THEN "lock" ELSE "return")
  /\ UNCHANGED <<source, reloadCatalog, process, array, length, mutex, rows, ghosts>>

Return(c) ==
  /\ call[c].stage = "return"
  /\ \/ /\ Returns(c, Listed)
        /\ UNCHANGED <<source, reloadCatalog, process, array, length, mutex, rows, ghosts>>
     \/ Panics(c, Listed) /\ UNCHANGED ghosts

Lock(c) ==
  /\ call[c].stage = "lock"
  /\ mutex = NONE
  /\ mutex' = c
  /\ Goto(c, "query")
  /\ UNCHANGED <<source, reloadCatalog, process, array, length, rows, ghosts>>

\* Mutant of LoadFails: the mutex stays locked.
LoadFailsLocked(c) ==
  /\ call[c].stage = "query"
  /\ Returns(c, <<>>)
  /\ Disturbs({c})
  /\ UNCHANGED <<source, reloadCatalog, process, array, length, mutex, rows, mixed>>

\* A load that fails leaves the list as it is, or the products before the row
\* that failed, and returns another list, an empty one.
LoadFails(c) ==
  /\ call[c].stage = "query" \/ (call[c].stage = "rows" /\ rows # {})
  /\ Disturbs({c}) /\ UNCHANGED mixed
  /\ \/ /\ Returns(c, <<>>)
        /\ mutex' = NONE
        /\ rows' = {}
        /\ UNCHANGED <<source, reloadCatalog, process, array, length>>
     \/ Panics(c, <<>>)

\* Mutant of LoadFile: the list is emptied before the file is parsed.
LoadFileInPlace(c) ==
  /\ call[c].stage = "query"
  /\ source = "file"
  /\ \/ length > 0 /\ length' = 0 /\ UNCHANGED <<array, mutex, call>>
     \/ /\ length = 0 /\ \E f \in Files : FileList(f)
        /\ mutex' = NONE /\ Goto(c, "return")
  /\ UNCHANGED <<source, reloadCatalog, process, rows, ghosts>>

\* products.json may not be what it was at the last load.
LoadFile(c) ==
  /\ call[c].stage = "query"
  /\ source = "file"
  /\ \E f \in Files :
       /\ FileList(f)
       /\ IF f = Listed THEN UNCHANGED ghosts ELSE Disturbs(Midway) /\ Mixes
  /\ mutex' = NONE
  /\ Goto(c, "return")
  /\ UNCHANGED <<source, reloadCatalog, process, rows>>

\* Mutant of Truncate: the rows go behind the old products.
TruncateNot(c) ==
  /\ call[c].stage = "query"
  /\ source = "alloydb"
  /\ rows' = Products
  /\ Goto(c, "rows")
  /\ UNCHANGED <<source, reloadCatalog, process, array, length, mutex, ghosts>>

\* catalog.Products[:0]
Truncate(c) ==
  /\ call[c].stage = "query"
  /\ source = "alloydb"
  /\ length' = 0
  /\ rows' = Products
  /\ Goto(c, "rows")
  /\ Disturbs(IF length = 0 THEN Working \ {c} ELSE Working) /\ Mixes
  /\ UNCHANGED <<source, reloadCatalog, process, array, mutex>>

Scan(c) ==
  /\ call[c].stage = "rows"
  /\ \E p \in rows :
       /\ rows' = rows \ {p}
       /\ array' = [array EXCEPT ![length + 1] = p]
  /\ length' = length + 1
  /\ UNCHANGED <<source, reloadCatalog, process, mutex, call, ghosts>>

\* The end of the rows, or a failure that passes for it.
ScanEnds(c) ==
  /\ call[c].stage = "rows"
  /\ mutex' = NONE
  /\ rows' = {}
  /\ Goto(c, "return")
  /\ Disturbs(IF rows = {} THEN {} ELSE Working) /\ UNCHANGED mixed
  /\ UNCHANGED <<source, reloadCatalog, process, array, length>>

ParseCatalog(c) ==
  Check(c) \/ LoadFails(c) \/ LoadFile(c) \/ Truncate(c) \/ Scan(c) \/ ScanEnds(c) \/ Return(c)

----------------------------------------------------------------------------
(* The handlers. *)

\* A GetProduct for p, or a ListProducts if p is NONE.
Ask(c, p) ==
  /\ call[c].stage = "idle"
  /\ IF process = "up"
     THEN call' = [call EXCEPT ![c].stage = "check", ![c].asked = p,
                               ![c].use = IF p = NONE THEN "list" ELSE "length"]
     ELSE Answers(c, "Unavailable", <<>>)
  /\ Disturbs(IF Whole \/ (length = 0 /\ mutex = NONE) THEN {} ELSE {c}) /\ UNCHANGED mixed
  /\ UNCHANGED <<source, reloadCatalog, process, array, length, mutex, rows>>

\* The caller has seen the answer.
Forget(c) ==
  /\ call[c].stage \in Ended
  /\ call' = [call EXCEPT ![c] = NoCall]
  /\ disturbed' = disturbed \ {c} /\ mixed' = mixed \ {c}
  /\ UNCHANGED <<source, reloadCatalog, process, array, length, mutex, rows>>

\* req.Id == p.parseCatalog()[i].Id
Compare(c) ==
  LET k == call[c]
  IN /\ k.stage = "element" /\ k.use = "compare"
     /\ IF At(k.list, k.index + 1) = k.asked
        THEN Again(c, "take", k.index, k.found)
        ELSE Again(c, "length", k.index + 1, k.found)
     /\ UNCHANGED <<source, reloadCatalog, process, array, length, mutex, rows, ghosts>>

\* Mutant of Take: the index has moved on.
TakeNext(c) ==
  LET k == call[c]
  IN /\ k.stage = "element" /\ k.use = "take"
     /\ Again(c, "length", k.index + 1, array[((k.index + 1) % Size) + 1])
     /\ UNCHANGED <<source, reloadCatalog, process, array, length, mutex, rows, ghosts>>

\* found = p.parseCatalog()[i]
Take(c) ==
  LET k == call[c]
  IN /\ k.stage = "element" /\ k.use = "take"
     /\ Again(c, "length", k.index + 1, At(k.list, k.index + 1))
     /\ UNCHANGED <<source, reloadCatalog, process, array, length, mutex, rows, ghosts>>

\* The list of ListProducts is read when the answer is sent.
Send(c) ==
  /\ call[c].stage = "send"
  /\ Answers(c, "ok", [i \in DOMAIN call[c].list |-> At(call[c].list, i)])
  /\ UNCHANGED <<source, reloadCatalog, process, array, length, mutex, rows, ghosts>>

\* The steps that wait for nobody; the database answers, or fails, when it likes.
Runs(c) ==
  \/ Check(c) \/ LoadFile(c) \/ Return(c) \/ Compare(c) \/ Take(c) \/ Send(c)
  \/ source = "file" /\ LoadFails(c)

Serve(c) == ParseCatalog(c) \/ Compare(c) \/ Take(c) \/ Send(c)

CatalogNext ==
  \/ Start \/ Die \/ Signal
  \/ \E c \in Callers : Lock(c) \/ Serve(c)

----------------------------------------------------------------------------
(* Properties. *)

CatalogTypeOK ==
  /\ source \in {"file", "alloydb"}
  /\ reloadCatalog \in BOOLEAN
  /\ process \in {"up", "stopped", "panicked"}
  /\ array \in [1 .. Size -> Products]
  /\ length \in 0 .. Size
  /\ mutex \in Callers \cup {NONE}
  /\ rows \subseteq Products
  /\ call \in [Callers -> CallType]
  /\ \A c \in Callers : call[c].stage \in {"query", "rows"} <=> mutex = c
  /\ disturbed \subseteq Watched /\ mixed \subseteq Watched

\* What the service has to offer at the moment.
Offered == IF source = "file" THEN ToSet(Listed) ELSE Products
Complete(list) == IF source = "file" THEN list \in Files ELSE Len(list) = Size /\ ToSet(list) = Products

\* A GetProduct that ends is answered from the list as it is: with the product
\* it asked for if that is offered, NotFound if it is not, although it reads the
\* list up to three times for each product.  A ListProducts gets all the products
\* of one list.  That holds of every call that begins with the whole list, or
\* with an empty one that it loads itself, whose loads do not fail, and after
\* whose first look at the list nobody cuts or replaces it.
UndisturbedIsRight ==
  [][ \A c \in Watched \ disturbed' :
        LET k == call'[c]
        IN c \in Working /\ k.stage \in {"ok", "NotFound"} =>
             IF k.asked = NONE THEN Complete(k.list)
             ELSE IF k.asked \in Offered THEN k.stage = "ok" /\ k.list = <<k.asked>>
             ELSE k.stage = "NotFound" ]_catalogVars

\* The process only panics in the middle of a call next to which the list was cut
\* or replaced or whose load failed, because the index it goes on with is out of
\* range then; the panic takes every other call with it.
OnlyDisturbedCrash ==
  [][ process' = "panicked" /\ process = "up" => disturbed' \cap Working # {} ]_catalogVars
=============================================================================
