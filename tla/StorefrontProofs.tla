-------------------------- MODULE StorefrontProofs --------------------------
(***************************************************************************)
(* Theorems about Catalog and Storefront for any number of callers, any    *)
(* list of products, any files and any ads: what the answers of the        *)
(* catalog are when nobody cut or replaced the list, when the process can  *)
(* panic, and what a user finds in his cart, his order and on his pages.   *)
(***************************************************************************)
EXTENDS Storefront, FiniteSetTheorems, SequenceTheorems, TLAPS

----------------------------------------------------------------------------
(* Sequences, and the products as a finite set. *)

\* A set that holds 0 and the successor of each of its numbers holds every
\* number: otherwise k - 1 for k would map the numbers it lacks, up to one of
\* them, one to one to themselves and miss the last of them.
LEMMA Induction ==
  ASSUME NEW S, 0 \in S, \A k \in Nat : k \in S => k + 1 \in S, NEW n \in Nat
  PROVE  n \in S
<1> SUFFICES ASSUME n \notin S PROVE FALSE
  OBVIOUS
<1> DEFINE T == {k \in 0 .. n : k \notin S}
           f == [k \in T |-> k - 1]
<1>1. IsFiniteSet(T)
  <2>1. IsFiniteSet(0 .. n)
    BY FS_Interval
  <2>2. T \in SUBSET (0 .. n)
    OBVIOUS
  <2> QED BY <2>1, <2>2, FS_Subset
<1>2. f \in Injection(T, T)
  <2>1. ASSUME NEW k \in T PROVE k - 1 \in T
    <3>1. k \in Nat /\ k # 0 /\ k - 1 \in Nat /\ (k - 1) + 1 = k
      OBVIOUS
    <3> QED BY <3>1
  <2>2. IsInjective(f)
    BY DEF IsInjective
  <2> QED BY <2>1, <2>2 DEF Injection
<1>3. f \in Surjection(T, T)
  <2> HIDE DEF f, T
  <2> QED BY <1>1, <1>2, FS_Injection
<1>4. PICK k \in T : f[k] = n
  <2>1. n \in T
    OBVIOUS
  <2> HIDE DEF f, T
  <2> QED BY <1>3, <2>1 DEF Surjection
<1> QED BY <1>4

LEMMA SizeOfListing ==
  /\ Size \in Nat \ {0}
  /\ Listing \in [1 .. Size -> Products]
  /\ NONE \notin Products
  BY CatalogAssumption, SeqDef, LenProperties DEF Size, Products, ToSet

LEMMA ProductsAreFinite ==
  IsFiniteSet(Products) /\ Cardinality(Products) = Size
<1>1. Listing \in Bijection(1 .. Size, Products)
  BY SizeOfListing, CatalogAssumption DEF Bijection, Injection, Surjection, Products, ToSet, Size
<1>2. IsFiniteSet(1 .. Size) /\ Cardinality(1 .. Size) = Size
  BY SizeOfListing, FS_Interval
<1> QED BY <1>1, <1>2, FS_Bijection DEF ExistsBijection

\* An array of the size of the table without a product twice has them all.
LEMMA InjectiveHasAll ==
  ASSUME NEW a \in [1 .. Size -> Products], IsInjective(a)
  PROVE  \A p \in Products : \E i \in 1 .. Size : a[i] = p
<1>1. a \in Injection(1 .. Size, Products)
  BY DEF Injection
<1>2. IsFiniteSet(1 .. Size) /\ Cardinality(1 .. Size) = Size
  BY SizeOfListing, FS_Interval
<1>3. a \in Surjection(1 .. Size, Products)
  BY <1>1, <1>2, ProductsAreFinite, FS_Injection
<1> QED BY <1>3 DEF Surjection

\* The products of a cart as a sequence: each of them, no more than there are.
LEMMA SequenceOfSet ==
  ASSUME NEW S \in SUBSET Products
  PROVE  /\ SetToSeq(S) \in Seq(S)
         /\ Len(SetToSeq(S)) <= Size
         /\ ToSet(SetToSeq(S)) = S
<1>1. IsFiniteSet(S) /\ Cardinality(S) \in Nat /\ Cardinality(S) <= Size
  BY ProductsAreFinite, FS_Subset, FS_CardinalityType
<1>2. \E f \in [1 .. Cardinality(S) -> S] : IsInjective(f)
  BY <1>1, FS_CardinalityType DEF ExistsBijection, Bijection, Injection
<1> DEFINE s == SetToSeq(S)
<1>3. s \in [1 .. Cardinality(S) -> S] /\ IsInjective(s)
  BY <1>2 DEF SetToSeq
<1>4. s \in Seq(S) /\ Len(s) = Cardinality(S)
  BY <1>1, <1>3, SeqDef, LenProperties
<1>5. s \in Surjection(1 .. Cardinality(S), S)
  <2>1. s \in Injection(1 .. Cardinality(S), S)
    BY <1>3 DEF Injection
  <2>2. Cardinality(1 .. Cardinality(S)) = Cardinality(S)
    BY <1>1, FS_Interval
  <2> QED BY <1>1, <2>1, <2>2, FS_Injection
<1>6. ToSet(s) = S
  BY <1>3, <1>5 DEF ToSet, Surjection
<1> QED BY <1>1, <1>4, <1>6

LEMMA ElementsOfConcat ==
  ASSUME NEW S, NEW s \in Seq(S), NEW t \in Seq(S)
  PROVE  ToSet(s \o t) = ToSet(s) \cup ToSet(t)
<1>1. /\ Len(s) \in Nat /\ Len(t) \in Nat /\ Len(s \o t) = Len(s) + Len(t)
      /\ DOMAIN s = 1 .. Len(s) /\ DOMAIN t = 1 .. Len(t)
      /\ DOMAIN (s \o t) = 1 .. Len(s) + Len(t)
  BY ConcatProperties, LenProperties
<1>2. \A i \in 1 .. Len(s) + Len(t) : (s \o t)[i] = IF i <= Len(s) THEN s[i] ELSE t[i - Len(s)]
  BY ConcatProperties
<1>3. \A i \in 1 .. Len(t) :
        Len(s) + i \in 1 .. Len(s) + Len(t) /\ (s \o t)[Len(s) + i] = t[i]
  BY <1>1, <1>2
<1>4. \A i \in 1 .. Len(s) : i \in 1 .. Len(s) + Len(t) /\ (s \o t)[i] = s[i]
  BY <1>1, <1>2
<1>5. ToSet(s \o t) \subseteq ToSet(s) \cup ToSet(t)
  BY <1>1, <1>2 DEF ToSet
<1>6. ToSet(s) \cup ToSet(t) \subseteq ToSet(s \o t)
  BY <1>1, <1>3, <1>4 DEF ToSet
<1> QED BY <1>5, <1>6

LEMMA ElementsOfTail ==
  ASSUME NEW S, NEW s \in Seq(S), s # <<>>
  PROVE  ToSet(s) = {Head(s)} \cup ToSet(Tail(s))
<1>1. Len(s) \in Nat \ {0} /\ DOMAIN s = 1 .. Len(s) /\ Head(s) = s[1]
  BY LenProperties, EmptySeq
<1>2. /\ DOMAIN Tail(s) = 1 .. Len(s) - 1
      /\ \A i \in 1 .. Len(s) - 1 : Tail(s)[i] = s[i + 1]
  BY HeadTailProperties, LenProperties
<1>3. \A i \in 1 .. Len(s) : i # 1 => i - 1 \in 1 .. Len(s) - 1 /\ s[i] = Tail(s)[i - 1]
  BY <1>1, <1>2
<1>4. \A i \in 1 .. Len(s) - 1 : i + 1 \in 1 .. Len(s)
  BY <1>1
<1>5. ToSet(s) \subseteq {Head(s)} \cup ToSet(Tail(s))
  <2> SUFFICES ASSUME NEW i \in 1 .. Len(s), i # 1 PROVE s[i] \in ToSet(Tail(s))
    BY <1>1 DEF ToSet
  <2> QED BY <1>2, <1>3 DEF ToSet
<1>6. ToSet(Tail(s)) \subseteq ToSet(s)
  BY <1>1, <1>2, <1>4 DEF ToSet
<1>7. Head(s) \in ToSet(s)
  BY <1>1 DEF ToSet
<1> QED BY <1>5, <1>6, <1>7

LEMMA ElementsOfOne ==
  ASSUME NEW e
  PROVE  ToSet(<<e>>) = {e} /\ ToSet(<<>>) = {}
  BY DEF ToSet

----------------------------------------------------------------------------
(* The ads: what FlattenSeq, a recursive function, does to any sequence. *)

\* g holds, at each i up to n, the first i sequences of ss in a row.
Flattens(g, ss, n) == g = [i \in 1 .. n |-> IF i = 1 THEN ss[i] ELSE g[i - 1] \o ss[i]]

LEMMA FlattensExists ==
  ASSUME NEW ss, NEW n \in Nat
  PROVE  \E g : Flattens(g, ss, n)
<1> DEFINE S == {m \in Nat : \E g : Flattens(g, ss, m)}
<1>1. 0 \in S
  <2>1. Flattens(<<>>, ss, 0)
    BY DEF Flattens
  <2> QED BY <2>1
<1>2. ASSUME NEW m \in Nat, m \in S PROVE m + 1 \in S
  <2>1. PICK g : Flattens(g, ss, m)
    BY <1>2
  <2> DEFINE h == [i \in 1 .. m + 1 |->
                     IF i <= m THEN g[i] ELSE IF i = 1 THEN ss[i] ELSE g[i - 1] \o ss[i]]
  <2>2. \A i \in 1 .. m : g[i] = IF i = 1 THEN ss[i] ELSE g[i - 1] \o ss[i]
    BY <2>1 DEF Flattens
  <2>3. ASSUME NEW i \in 1 .. m + 1
        PROVE  h[i] = IF i = 1 THEN ss[i] ELSE h[i - 1] \o ss[i]
    <3>1. CASE i = 1
      BY <2>2, <3>1
    <3>2. CASE i # 1
      <4>1. i - 1 \in 1 .. m + 1 /\ i - 1 <= m
        BY <3>2
      <4>2. h[i - 1] = g[i - 1]
        BY <4>1
      <4>3. CASE i <= m
        <5>1. i \in 1 .. m /\ h[i] = g[i]
          BY <4>3
        <5>2. g[i] = g[i - 1] \o ss[i]
          BY <2>2, <3>2, <5>1
        <5> HIDE DEF h
        <5> QED BY <3>2, <4>2, <5>1, <5>2
      <4>4. CASE ~ (i <= m)
        <5>1. h[i] = g[i - 1] \o ss[i]
          BY <3>2, <4>4
        <5> HIDE DEF h
        <5> QED BY <3>2, <4>2, <5>1
      <4> QED BY <4>3, <4>4
    <3> QED BY <3>1, <3>2
  <2>4. h = [i \in 1 .. m + 1 |-> IF i = 1 THEN ss[i] ELSE h[i - 1] \o ss[i]]
    <3>1. h = [i \in 1 .. m + 1 |-> h[i]]
      OBVIOUS
    <3> HIDE DEF h
    <3> QED BY <2>3, <3>1
  <2>5. Flattens(h, ss, m + 1)
    BY <2>4 DEF Flattens
  <2> QED BY <2>5
<1> HIDE DEF S
<1>3. n \in S
  BY <1>1, <1>2, Induction
<1> QED BY <1>3 DEF S

LEMMA UnionOfOneMore ==
  ASSUME NEW ss, NEW A, NEW x
  PROVE  UNION {ToSet(ss[i]) : i \in A \cup {x}} = (UNION {ToSet(ss[i]) : i \in A}) \cup ToSet(ss[x])
<1>1. ASSUME NEW e \in UNION {ToSet(ss[i]) : i \in A \cup {x}}
      PROVE  e \in (UNION {ToSet(ss[i]) : i \in A}) \cup ToSet(ss[x])
  <2>1. PICK i \in A \cup {x} : e \in ToSet(ss[i])
    OBVIOUS
  <2> QED BY <2>1
<1>2. ASSUME NEW e \in (UNION {ToSet(ss[i]) : i \in A}) \cup ToSet(ss[x])
      PROVE  e \in UNION {ToSet(ss[i]) : i \in A \cup {x}}
  <2>1. PICK i \in A \cup {x} : e \in ToSet(ss[i])
    OBVIOUS
  <2> QED BY <2>1
<1> QED BY <1>1, <1>2

LEMMA ElementsOfFlattened ==
  ASSUME NEW T, NEW ss \in Seq(Seq(T))
  PROVE  /\ FlattenSeq(ss) \in Seq(T)
         /\ ToSet(FlattenSeq(ss)) = UNION {ToSet(ss[i]) : i \in 1 .. Len(ss)}
<1> DEFINE n == Len(ss)
<1>1. n \in Nat /\ \A i \in 1 .. n : ss[i] \in Seq(T)
  BY LenProperties, ElementOfSeq
<1>2. CASE n = 0
  <2>1. ss = <<>>
    BY <1>2, EmptySeq
  <2>2. FlattenSeq(ss) = <<>>
    BY <1>2, <2>1 DEF FlattenSeq
  <2>3. ToSet(<<>>) = {} /\ <<>> \in Seq(T)
    BY DEF ToSet
  <2>4. {ToSet(ss[i]) : i \in 1 .. n} = {}
    BY <1>2
  <2> QED BY <2>2, <2>3, <2>4
<1>3. CASE n # 0
  <2> DEFINE g == CHOOSE f : Flattens(f, ss, n)
  <2>1. FlattenSeq(ss) = g[n]
    BY <1>3 DEF FlattenSeq, Flattens
  <2>2. Flattens(g, ss, n)
    <3>1. \E f : Flattens(f, ss, n)
      BY <1>1, FlattensExists
    <3> QED BY <3>1
  <2> HIDE DEF g
  <2>3. \A i \in 1 .. n : g[i] = IF i = 1 THEN ss[i] ELSE g[i - 1] \o ss[i]
    BY <2>2 DEF Flattens
  <2> DEFINE Up(i) == g[i] \in Seq(T) /\ ToSet(g[i]) = UNION {ToSet(ss[j]) : j \in 1 .. i}
             S == {i \in Nat : i \in 1 .. n => Up(i)}
  <2>4. 0 \in S
    OBVIOUS
  <2>5. ASSUME NEW i \in Nat, i \in S PROVE i + 1 \in S
    <3> SUFFICES ASSUME i + 1 \in 1 .. n PROVE Up(i + 1)
      OBVIOUS
    <3>1. ss[i + 1] \in Seq(T)
      BY <1>1
    <3>2. CASE i = 0
      <4>1. g[i + 1] = ss[1] /\ 1 .. i + 1 = {1}
        BY <2>3, <3>2
      <4>2. {ToSet(ss[j]) : j \in {1}} = {ToSet(ss[1])}
        OBVIOUS
      <4> QED BY <3>1, <3>2, <4>1, <4>2
    <3>3. CASE i # 0
      <4>1. i \in 1 .. n /\ Up(i)
        BY <2>5, <3>3
      <4>2. g[i + 1] = g[i] \o ss[i + 1]
        <5>1. i + 1 # 1 /\ (i + 1) - 1 = i
          BY <3>3
        <5> QED BY <2>3, <5>1
      <4>3. g[i + 1] \in Seq(T) /\ ToSet(g[i + 1]) = ToSet(g[i]) \cup ToSet(ss[i + 1])
        BY <3>1, <4>1, <4>2, ConcatProperties, ElementsOfConcat
      <4>4. 1 .. i + 1 = (1 .. i) \cup {i + 1}
        OBVIOUS
      <4>5. UNION {ToSet(ss[j]) : j \in (1 .. i) \cup {i + 1}}
              = (UNION {ToSet(ss[j]) : j \in 1 .. i}) \cup ToSet(ss[i + 1])
        BY UnionOfOneMore
      <4> QED BY <4>1, <4>3, <4>4, <4>5
    <3> QED BY <3>2, <3>3
  <2> HIDE DEF S
  <2>6. n \in S
    BY <1>1, <2>4, <2>5, Induction
  <2>7. Up(n)
    BY <1>1, <1>3, <2>6 DEF S
  <2> QED BY <2>1, <2>7
<1> QED BY <1>2, <1>3

\* The ads selected for some categories are those of each that has some.
LEMMA SelectedAreOfCategories ==
  ASSUME NEW keys, keys \in Seq(ToSet(keys))
  PROVE  /\ Selected(keys) \in Seq(allAds)
         /\ ToSet(Selected(keys)) = UNION {ToSet(AdsMap[k]) : k \in DOMAIN AdsMap \cap ToSet(keys)}
<1> DEFINE ss == [i \in DOMAIN keys |-> IF keys[i] \in DOMAIN AdsMap THEN AdsMap[keys[i]] ELSE <<>>]
<1>1. Len(keys) \in Nat /\ DOMAIN keys = 1 .. Len(keys)
  BY LenProperties
<1>2. ASSUME NEW k \in DOMAIN AdsMap PROVE AdsMap[k] \in Seq(allAds)
  <2>1. ToSet(AdsMap[k]) \subseteq allAds
    BY DEF allAds
  <2> QED BY AdsAssumption, <2>1, SeqMonotonic
<1>3. \A i \in DOMAIN keys : ss[i] \in Seq(allAds)
  BY <1>2, EmptySeq
<1>4. ss \in Seq(Seq(allAds)) /\ Len(ss) = Len(keys)
  BY <1>1, <1>3, SeqDef, LenProperties
<1>5. /\ FlattenSeq(ss) \in Seq(allAds)
      /\ ToSet(FlattenSeq(ss)) = UNION {ToSet(ss[i]) : i \in 1 .. Len(keys)}
  <2> HIDE DEF ss
  <2> QED BY <1>4, ElementsOfFlattened
<1>6. UNION {ToSet(ss[i]) : i \in DOMAIN keys}
        = UNION {ToSet(AdsMap[k]) : k \in DOMAIN AdsMap \cap ToSet(keys)}
  <2>1. ASSUME NEW i \in DOMAIN keys, NEW ad \in ToSet(ss[i])
        PROVE  ad \in UNION {ToSet(AdsMap[k]) : k \in DOMAIN AdsMap \cap ToSet(keys)}
    <3>1. keys[i] \in ToSet(keys)
      BY DEF ToSet
    <3>2. keys[i] \in DOMAIN AdsMap
      BY <2>1, ElementsOfOne
    <3> QED BY <2>1, <3>1, <3>2
  <2>2. ASSUME NEW k \in DOMAIN AdsMap \cap ToSet(keys), NEW ad \in ToSet(AdsMap[k])
        PROVE  ad \in UNION {ToSet(ss[i]) : i \in DOMAIN keys}
    <3>1. PICK i \in DOMAIN keys : keys[i] = k
      BY DEF ToSet
    <3>2. ss[i] = AdsMap[k]
      BY <3>1
    <3> HIDE DEF ss
    <3> QED BY <2>2, <3>2
  <2> QED BY <2>1, <2>2
<1>7. Selected(keys) = FlattenSeq(ss)
  BY DEF Selected
<1> QED BY <1>1, <1>5, <1>6, <1>7

----------------------------------------------------------------------------
(* The inductive invariant of the catalog. *)

\* What the record of a call may be, whatever the list is: an index that is read
\* is in range of what parseCatalog returned, which is products of a file or
\* places in the array; only a ListProducts lists, and an answer to a GetProduct
\* is one product.
AtWorkOn(k) == k.stage \notin {"idle"} \cup Ended
Fits(k) ==
  /\ k.stage = "idle" => k = NoCall
  /\ k.stage = "element" => k.use \in {"compare", "take"} /\ k.index < Len(k.list)
  /\ k.stage = "send" => k.use = "list"
  /\ k.stage \in {"element", "send"} =>
       \A i \in DOMAIN k.list : k.list[i] = NONE <=> source = "alloydb"
  /\ AtWorkOn(k) => (k.use = "list" <=> k.asked = NONE)
  /\ k.stage = "ok" /\ k.asked # NONE => \E p \in Products : k.list = <<p>>

\* A process that is down serves no call.  The list from a file is one that the
\* file held.  The list from AlloyDB is only in pieces while a call scans rows,
\* which are all the products that the list lacks so far.
Loads ==
  /\ process # "up" => \A c \in Callers : ~ AtWorkOn(call[c])
  /\ process = "up" /\ source = "file" => Listed \in Files
  /\ \A c \in Callers : call[c].stage = "rows" =>
       /\ source = "alloydb"
       /\ Cardinality(rows) + length = Size
       /\ \A i, j \in 1 .. length : array[i] \notin rows /\ (array[i] = array[j] => i = j)

\* A GetProduct next to whose search the list was neither cut nor replaced: the
\* place that it is about to read is in the list, and what it takes from there
\* is the product that it found there.
Unmixed(k) ==
  k.asked # NONE =>
    /\ AtWorkOn(k) =>
         /\ k.found \in {NONE, k.asked}
         /\ k.use = "take" \/ k.stage = "element" => k.index < length
         /\ k.use = "take" => array[k.index + 1] = k.asked
         /\ k.stage = "element" /\ source = "file" => k.list = Listed
    /\ k.stage = "ok" => k.list = <<k.asked>>

\* A call that is not disturbed either began with the empty list, and will load
\* it or finds it whole, or loads it, or has the whole list to search: then no
\* product before its index is the one it looks for.
Begins(k) == k.index = 0 /\ k.found = NONE /\ k.use \in {"length", "list"}
Emptied(k) ==
  /\ length = 0 /\ k.stage \in {"check", "lock", "query"} /\ Begins(k)
  /\ \A c \in Callers : call[c].stage # "rows"
Loading(k) == k.stage = "rows" /\ Begins(k)
Searching(k) ==
  /\ k.stage # "rows" /\ Whole
  /\ k.stage = "send" => IF source = "file" THEN k.list \in Files ELSE Len(k.list) = Size
  /\ k.asked # NONE =>
       /\ k.found \in {NONE, k.asked}
       /\ k.index <= length
       /\ k.index = 0 => k.found = NONE
       /\ k.found = NONE => \A i \in 1 .. k.index : array[i] # k.asked
       /\ k.found # NONE => k.asked \in Offered
       /\ k.use \in {"compare", "take"} => k.index < length
       /\ k.use = "take" => array[k.index + 1] = k.asked
       /\ k.stage = "element" /\ source = "file" => k.list = Listed
Undisturbed(k) == AtWorkOn(k) => Emptied(k) \/ Loading(k) \/ Searching(k)

CatalogIInv ==
  /\ CatalogTypeOK
  /\ Loads
  /\ \A c \in Callers : Fits(call[c])
  /\ \A c \in Watched \ mixed : Unmixed(call[c])
  /\ \A c \in Watched \ disturbed : Undisturbed(call[c])

\* The calls of others are ListProducts.
OthersList == \A c \in Callers \ Watched : call[c].use = "list"

----------------------------------------------------------------------------
(* Lists. *)

Entries == BoundedSeq(Products \cup {NONE}, Size)

LEMMA BoundedSeqs ==
  /\ <<>> \in Entries
  /\ \A p \in Products : <<p>> \in Entries
  /\ \A n \in 0 .. Size : \A f \in [1 .. n -> Products \cup {NONE}] : f \in Entries
<1>1. \A n \in 0 .. Size : \A f \in [1 .. n -> Products \cup {NONE}] : f \in Entries
  BY SizeOfListing DEF Entries, BoundedSeq, SeqOf
<1>2. /\ <<>> \in [1 .. 0 -> Products \cup {NONE}]
      /\ \A p \in Products : <<p>> \in [1 .. 1 -> Products \cup {NONE}]
  OBVIOUS
<1>3. 0 \in 0 .. Size /\ 1 \in 0 .. Size
  BY SizeOfListing
<1> QED BY <1>1, <1>2, <1>3

LEMMA EntriesAre ==
  ASSUME NEW s \in Entries
  PROVE  \E n \in 0 .. Size : s \in [1 .. n -> Products \cup {NONE}] /\ Len(s) = n /\ DOMAIN s = 1 .. n
<1>1. PICK n \in 0 .. Size : s \in [1 .. n -> Products \cup {NONE}]
  BY SizeOfListing DEF Entries, BoundedSeq, SeqOf
<1>2. n \in Nat /\ DOMAIN s = 1 .. n
  BY <1>1, SizeOfListing
<1>3. s \in Seq(Products \cup {NONE})
  BY <1>1, <1>2, SeqDef
<1>4. Len(s) = n
  BY <1>2, <1>3, LenProperties
<1> QED BY <1>1, <1>2, <1>4

\* The first n of an array.
LEMMA FirstOf ==
  ASSUME NEW a \in [1 .. Size -> Products], NEW n \in 0 .. Size
  PROVE  /\ SubSeq(a, 1, n) \in [1 .. n -> Products] /\ Len(SubSeq(a, 1, n)) = n
         /\ DOMAIN SubSeq(a, 1, n) = 1 .. n
         /\ \A i \in 1 .. n : SubSeq(a, 1, n)[i] = a[i]
<1>1. \A i \in 1 .. n : a[i] \in Products
  BY SizeOfListing
<1>2. n \in Nat
  BY SizeOfListing
<1>3. /\ SubSeq(a, 1, n) \in Seq(Products) /\ Len(SubSeq(a, 1, n)) = n
      /\ \A i \in 1 .. n : SubSeq(a, 1, n)[i] = a[i]
  BY <1>1, <1>2, SubSeqProperties
<1>4. SubSeq(a, 1, n) \in [1 .. Len(SubSeq(a, 1, n)) -> Products]
  BY <1>3, LenProperties
<1> QED BY <1>3, <1>4

LEMMA ListedIs ==
  ASSUME CatalogTypeOK
  PROVE  /\ Listed \in Entries /\ Len(Listed) = length /\ DOMAIN Listed = 1 .. length
         /\ \A i \in 1 .. length : Listed[i] = array[i] /\ Listed[i] \in Products /\ Listed[i] # NONE
<1>1. /\ Listed \in [1 .. length -> Products] /\ Len(Listed) = length /\ DOMAIN Listed = 1 .. length
      /\ \A i \in 1 .. length : Listed[i] = array[i]
  BY FirstOf DEF CatalogTypeOK, Listed
<1>2. Listed \in Entries
  <2>1. Listed \in [1 .. length -> Products \cup {NONE}]
    BY <1>1
  <2> QED BY <2>1, BoundedSeqs DEF CatalogTypeOK
<1> QED BY <1>1, <1>2, SizeOfListing

\* A list from the file is the list; if it is the one there was, no place of it
\* has changed.
LEMMA NewList ==
  ASSUME CatalogTypeOK, NEW f \in Files, FileList(f)
  PROVE  /\ array' \in [1 .. Size -> Products] /\ length' \in 0 .. Size
         /\ Listed' = f
         /\ f = Listed => length' = length /\ \A i \in 1 .. length : array'[i] = array[i]
<1>1. f \in Seq(Products) /\ Len(f) \in Nat /\ Len(f) <= Size /\ DOMAIN f = 1 .. Len(f)
  BY CatalogAssumption, LenProperties DEF Products, Size
<1>2. /\ array' = [i \in 1 .. Size |-> IF i \in DOMAIN f THEN f[i] ELSE array[i]]
      /\ length' = Len(f)
  BY DEF FileList
<1>3. length' \in 0 .. Size
  BY <1>1, <1>2, SizeOfListing
<1>4. \A i \in 1 .. Len(f) : f[i] \in Products
  BY <1>1, ElementOfSeq
<1>5. array' \in [1 .. Size -> Products]
  BY <1>1, <1>2, <1>4 DEF CatalogTypeOK
<1>6. \A i \in 1 .. Len(f) : i \in 1 .. Size /\ array'[i] = f[i]
  BY <1>1, <1>2, SizeOfListing
<1>7. Listed' = f
  <2>1. /\ Listed' \in [1 .. Len(f) -> Products]
        /\ \A i \in 1 .. Len(f) : Listed'[i] = array'[i]
    BY <1>2, <1>3, <1>5, FirstOf DEF Listed
  <2>2. f \in [1 .. Len(f) -> Products]
    BY <1>1, <1>4, LenProperties
  <2> QED BY <1>6, <2>1, <2>2
<1>8. f = Listed => length' = length /\ \A i \in 1 .. length : array'[i] = array[i]
  BY <1>1, <1>2, <1>6, ListedIs
<1> QED BY <1>3, <1>5, <1>7, <1>8

----------------------------------------------------------------------------
(* What the steps of a call do to its record. *)

LEMMA NoCallFits ==
  /\ NoCall \in CallType /\ Fits(NoCall) /\ ~ AtWorkOn(NoCall)
  /\ Unmixed(NoCall) /\ Undisturbed(NoCall)
  BY BoundedSeqs, SizeOfListing
  DEF Entries, NoCall, CallType, Fits, AtWorkOn, Ended, Unmixed, Undisturbed

\* An answer to a call at work, and whom it may answer.
LEMMA OverFits ==
  ASSUME CatalogTypeOK, NEW c \in Callers, Fits(call[c]),
         NEW code \in Ended, NEW answer \in Entries,
         code = "ok" /\ call[c].asked # NONE => \E p \in Products : answer = <<p>>
  PROVE  /\ Over(c, code, answer) \in CallType
         /\ Fits(Over(c, code, answer)) /\ ~ AtWorkOn(Over(c, code, answer))
         /\ Over(c, code, answer).stage \in {"idle", code}
         /\ Over(c, code, answer).stage # "idle" =>
              /\ Over(c, code, answer).asked = call[c].asked
              /\ Over(c, code, answer).list = answer
         /\ Over(c, code, answer).use = "list"
<1>1. CASE c \notin Watched
  BY <1>1, NoCallFits DEF Over, NoCall
<1>2. CASE c \in Watched
  <2> DEFINE k == [NoCall EXCEPT !.asked = call[c].asked, !.stage = code, !.list = answer]
  <2>1. call[c].asked \in Products \cup {NONE}
    BY DEF CatalogTypeOK, CallType
  <2>2. /\ k \in CallType /\ k.stage = code /\ k.asked = call[c].asked
        /\ k.list = answer /\ k.use = "list"
    BY <2>1, NoCallFits DEF NoCall, CallType, Ended, Entries
  <2> HIDE DEF k
  <2>3. Fits(k) /\ ~ AtWorkOn(k)
    BY <2>2 DEF Fits, AtWorkOn, Ended
  <2>4. Over(c, code, answer) = k
    BY <1>2 DEF Over, k
  <2> QED BY <2>2, <2>3, <2>4
<1> QED BY <1>1, <1>2

\* GetProduct goes on.
LEMMA AgainMoves ==
  ASSUME CatalogTypeOK, NEW c \in Callers, call[c].asked # NONE,
         NEW what \in {"length", "compare", "take"}, NEW i \in 0 .. Size, NEW p \in Products \cup {NONE},
         Again(c, what, i, p)
  PROVE  \E k \in CallType :
           /\ call' = [call EXCEPT ![c] = k]
           /\ k.stage = "check" /\ k.use = what /\ k.index = i /\ k.found = p
           /\ k.asked = call[c].asked /\ Fits(k)
<1> DEFINE k == [call[c] EXCEPT !.stage = "check", !.use = what, !.index = i, !.found = p, !.list = <<>>]
<1>1. call[c] \in CallType /\ call \in [Callers -> CallType]
  BY DEF CatalogTypeOK
<1>2. call' = [call EXCEPT ![c] = k]
  BY <1>1 DEF Again, CallType
<1>3. /\ k \in CallType /\ k.stage = "check" /\ k.use = what /\ k.index = i /\ k.found = p
      /\ k.asked = call[c].asked
  <2>1. <<>> \in BoundedSeq(Products \cup {NONE}, Size)
    BY BoundedSeqs DEF Entries
  <2> QED BY <1>1, <2>1 DEF CallType
<1> HIDE DEF k
<1>4. Fits(k)
  BY <1>3 DEF Fits, AtWorkOn, Ended
<1> QED BY <1>2, <1>3, <1>4

\* The call keeps what parseCatalog returned.
LEMMA KeepsMoves ==
  ASSUME CatalogTypeOK, NEW c \in Callers, NEW next \in {"element", "send"},
         NEW list \in {<<>>, Listed}, Keeps(c, next, list)
  PROVE  \E k \in CallType :
           /\ call' = [call EXCEPT ![c] = k]
           /\ k.stage = next /\ k.use = call[c].use /\ k.asked = call[c].asked
           /\ k.index = call[c].index /\ k.found = call[c].found
           /\ Len(k.list) = Len(list) /\ DOMAIN k.list = DOMAIN list
           /\ \A i \in DOMAIN k.list : k.list[i] = NONE <=> source = "alloydb"
           /\ source = "file" => k.list = list
<1> DEFINE kept == IF source = "file" THEN list ELSE [i \in DOMAIN list |-> NONE]
           k == [call[c] EXCEPT !.stage = next, !.list = kept]
<1>1. call[c] \in CallType /\ call \in [Callers -> CallType] /\ source \in {"file", "alloydb"}
  BY DEF CatalogTypeOK
<1>2. /\ list \in Entries /\ \E n \in 0 .. Size : DOMAIN list = 1 .. n /\ Len(list) = n
      /\ \A i \in DOMAIN list : list[i] # NONE
  <2>1. CASE list = Listed
    BY <2>1, ListedIs DEF CatalogTypeOK
  <2>2. CASE list = <<>>
    <3>1. DOMAIN <<>> = 1 .. 0 /\ Len(<<>>) = 0 /\ 0 \in 0 .. Size /\ \A i \in DOMAIN <<>> : FALSE
      BY SizeOfListing
    <3> QED BY <2>2, <3>1, BoundedSeqs
  <2> QED BY <2>1, <2>2
<1>3. PICK n \in 0 .. Size : DOMAIN list = 1 .. n /\ Len(list) = n
  BY <1>2
<1>4. /\ kept \in Entries /\ Len(kept) = Len(list) /\ DOMAIN kept = DOMAIN list
      /\ \A i \in DOMAIN kept : kept[i] = NONE <=> source = "alloydb"
  <2>1. CASE source = "file"
    BY <1>2, <2>1
  <2>2. CASE source = "alloydb"
    <3>1. kept = [i \in 1 .. n |-> NONE] /\ kept \in [1 .. n -> Products \cup {NONE}]
      BY <1>3, <2>2
    <3>2. kept \in Entries
      BY <3>1, BoundedSeqs
    <3>3. n \in Nat /\ kept \in Seq({NONE})
      BY <1>3, <3>1, SizeOfListing, SeqDef
    <3>4. Len(kept) = n
      <4>1. DOMAIN kept = 1 .. n
        BY <3>1
      <4> HIDE DEF kept
      <4> QED BY <3>3, <4>1, LenProperties
    <3> QED BY <1>3, <2>2, <3>1, <3>2, <3>4
  <2> QED BY <1>1, <2>1, <2>2
<1>5. call' = [call EXCEPT ![c] = k]
  BY <1>1 DEF Keeps, CallType
<1>6. source = "file" => kept = list
  OBVIOUS
<1> HIDE DEF kept
<1>7. /\ k \in CallType /\ k.stage = next /\ k.use = call[c].use /\ k.asked = call[c].asked
      /\ k.index = call[c].index /\ k.found = call[c].found /\ k.list = kept
  BY <1>1, <1>4 DEF CallType, Entries
<1> HIDE DEF k
<1> QED BY <1>4, <1>5, <1>6, <1>7

\* The answer of k, if it is one.
Right(k) ==
  k.stage \in {"ok", "NotFound"} =>
    IF k.asked = NONE THEN Complete(k.list)
    ELSE IF k.asked \in Offered THEN k.stage = "ok" /\ k.list = <<k.asked>>
    ELSE k.stage = "NotFound"

\* The whole list has what is offered.
LEMMA WholeHasOffered ==
  ASSUME CatalogTypeOK, Whole, NEW p \in Offered
  PROVE  \E i \in 1 .. length : array[i] = p
<1>1. array \in [1 .. Size -> Products] /\ length \in 0 .. Size
  BY DEF CatalogTypeOK
<1>2. CASE source = "file"
  <2>1. p \in ToSet(Listed)
    BY <1>2 DEF Offered
  <2> QED BY <2>1, ListedIs DEF ToSet
<1>3. CASE source # "file"
  BY <1>1, <1>3, InjectiveHasAll DEF Whole, Offered
<1> QED BY <1>2, <1>3

LEMMA OfferedAre ==
  ASSUME CatalogTypeOK, NEW i \in 1 .. length
  PROVE  array[i] \in Offered /\ array[i] \in Products
  BY ListedIs DEF Offered, ToSet, CatalogTypeOK

\* What a handler does with the list leaves a record that fits, of a call that is
\* not at a load.  An unmixed call stays one; one that has the whole list stays
\* undisturbed, and its answer is right.
LEMMA ReturnsFits ==
  ASSUME CatalogTypeOK, Loads, process = "up",
         NEW c \in Callers, Fits(call[c]), AtWorkOn(call[c]),
         NEW list \in {<<>>, Listed}, Returns(c, list)
  PROVE  \E k \in CallType :
           /\ call' = [call EXCEPT ![c] = k]
           /\ Fits(k) /\ k.stage \notin {"lock", "query", "rows", "return"}
           /\ call[c].use = "list" => k.use = "list"
           /\ k.stage # "idle" => k.asked = call[c].asked
           /\ Unmixed(call[c]) => Unmixed(k)
           /\ Searching(call[c]) /\ list = Listed => Undisturbed(k) /\ Right(k)
<1> DEFINE k0 == call[c]
<1>1. /\ k0 \in CallType /\ length \in Nat /\ Len(<<>>) = 0 /\ Len(Listed) = length
      /\ k0.index \in Nat
  <2>1. k0 \in CallType /\ length \in 0 .. Size
    BY DEF CatalogTypeOK
  <2>2. k0.index \in 0 .. Size
    BY <2>1 DEF CallType
  <2>3. Len(<<>>) = 0
    OBVIOUS
  <2> QED BY <2>1, <2>2, <2>3, ListedIs, SizeOfListing
<1>2. CASE k0.use = "length" /\ Loops(c, list)
  <2>1. k0.asked \in Products /\ k0.asked # NONE
    BY <1>1, <1>2, SizeOfListing DEF Fits, CallType
  <2>2. CASE k0.index < Len(list) /\ Again(c, "compare", k0.index, k0.found)
    <3>1. PICK k \in CallType :
            /\ call' = [call EXCEPT ![c] = k]
            /\ k.stage = "check" /\ k.use = "compare" /\ k.index = k0.index /\ k.found = k0.found
            /\ k.asked = k0.asked /\ Fits(k)
      <4>1. k0.index \in 0 .. Size /\ k0.found \in Products \cup {NONE}
        BY <1>1 DEF CallType
      <4> QED BY <2>1, <2>2, <4>1, AgainMoves
    <3>2. Unmixed(k0) => Unmixed(k)
      BY <3>1 DEF Unmixed, AtWorkOn, Ended
    <3>3. Searching(k0) /\ list = Listed => Undisturbed(k) /\ Right(k)
      BY <1>1, <2>2, <3>1 DEF Undisturbed, Searching, Right
    <3> QED BY <1>2, <3>1, <3>2, <3>3
  <2>3. CASE k0.index >= Len(list) /\ k0.found = NONE /\ Answers(c, "NotFound", <<>>)
    <3> DEFINE k == Over(c, "NotFound", <<>>)
    <3>1. call' = [call EXCEPT ![c] = k]
      BY <2>3 DEF Answers
    <3>2. /\ k \in CallType /\ Fits(k) /\ ~ AtWorkOn(k) /\ k.use = "list"
          /\ k.stage \in {"idle", "NotFound"} /\ (k.stage # "idle" => k.asked = k0.asked)
      BY OverFits, BoundedSeqs DEF Ended
    <3> HIDE DEF k
    <3>3. Searching(k0) /\ list = Listed => Right(k)
      <4> SUFFICES ASSUME Searching(k0), list = Listed, k.stage = "NotFound" PROVE k.asked \notin Offered
        BY <2>1, <3>2 DEF Right
      <4> SUFFICES ASSUME k.asked \in Offered PROVE FALSE
        OBVIOUS
      <4>1. PICK i \in 1 .. length : array[i] = k0.asked
        BY <3>2, WholeHasOffered DEF Searching
      <4>2. i \in 1 .. k0.index
        BY <1>1, <2>3
      <4> QED BY <2>1, <2>3, <4>1, <4>2 DEF Searching
    <3>4. Unmixed(k) /\ Undisturbed(k)
      BY <3>2 DEF Unmixed, Undisturbed
    <3> QED BY <3>1, <3>2, <3>3, <3>4
  <2>4. CASE k0.index >= Len(list) /\ k0.found # NONE /\ Answers(c, "ok", <<k0.found>>)
    <3> DEFINE k == Over(c, "ok", <<k0.found>>)
    <3>1. call' = [call EXCEPT ![c] = k]
      BY <2>4 DEF Answers
    <3>2. k0.found \in Products
      BY <1>1, <2>4 DEF CallType
    <3>3. /\ k \in CallType /\ Fits(k) /\ ~ AtWorkOn(k) /\ k.use = "list"
          /\ k.stage \in {"idle", "ok"}
          /\ k.stage # "idle" => k.asked = k0.asked /\ k.list = <<k0.found>>
      BY <3>2, OverFits, BoundedSeqs DEF Ended
    <3> HIDE DEF k
    <3>4. Unmixed(k0) => Unmixed(k)
      BY <2>4, <3>3 DEF Unmixed
    <3>5. Undisturbed(k)
      BY <3>3 DEF Undisturbed
    <3>6. Searching(k0) => Right(k)
      BY <2>1, <2>4, <3>3 DEF Searching, Right
    <3> QED BY <3>1, <3>3, <3>4, <3>5, <3>6
  <2> QED BY <1>2, <2>2, <2>3, <2>4 DEF Loops
<1>3. CASE k0.use \in {"compare", "take"} /\ Indexes(c, list)
  <2>1. k0.index < Len(list) /\ list = Listed
    BY <1>1, <1>3 DEF Indexes
  <2>2. PICK k \in CallType :
          /\ call' = [call EXCEPT ![c] = k]
          /\ k.stage = "element" /\ k.use = k0.use /\ k.asked = k0.asked
          /\ k.index = k0.index /\ k.found = k0.found
          /\ Len(k.list) = Len(list) /\ DOMAIN k.list = DOMAIN list
          /\ \A i \in DOMAIN k.list : k.list[i] = NONE <=> source = "alloydb"
          /\ source = "file" => k.list = list
    BY <1>3, KeepsMoves DEF Indexes
  <2>3. Fits(k)
    BY <1>3, <2>1, <2>2 DEF Fits, AtWorkOn, Ended
  <2>4. Unmixed(k0) => Unmixed(k)
    BY <1>1, <2>1, <2>2 DEF Unmixed, AtWorkOn, Ended
  <2>5. Searching(k0) => Undisturbed(k) /\ Right(k)
    BY <2>1, <2>2 DEF Undisturbed, Searching, Right
  <2> QED BY <1>3, <2>2, <2>3, <2>4, <2>5
<1>4. CASE k0.use = "list" /\ Keeps(c, "send", list)
  <2>1. PICK k \in CallType :
          /\ call' = [call EXCEPT ![c] = k]
          /\ k.stage = "send" /\ k.use = k0.use /\ k.asked = k0.asked
          /\ k.index = k0.index /\ k.found = k0.found
          /\ Len(k.list) = Len(list) /\ DOMAIN k.list = DOMAIN list
          /\ \A i \in DOMAIN k.list : k.list[i] = NONE <=> source = "alloydb"
          /\ source = "file" => k.list = list
    BY <1>4, KeepsMoves
  <2>2. Fits(k) /\ k.asked = NONE
    BY <1>4, <2>1 DEF Fits, AtWorkOn, Ended
  <2>3. Unmixed(k)
    BY <2>2 DEF Unmixed
  <2>4. Searching(k0) /\ list = Listed => Undisturbed(k) /\ Right(k)
    <3> SUFFICES ASSUME Searching(k0), list = Listed PROVE Searching(k) /\ Right(k)
      BY DEF Undisturbed
    <3>1. source = "file" => k.list \in Files
      BY <2>1 DEF Loads
    <3>2. source # "file" => Len(k.list) = Size
      BY <1>1, <2>1 DEF Searching, Whole
    <3> QED BY <2>1, <2>2, <3>1, <3>2 DEF Searching, Right
  <2> QED BY <1>4, <2>1, <2>2, <2>3, <2>4
<1> QED BY <1>2, <1>3, <1>4 DEF Returns

----------------------------------------------------------------------------
(* The steps of the catalog keep the invariant. *)

\* A step of one call that leaves the list as it is: what is left to show is
\* about the record k of that call, the mutex and the rows.
LEMMA MoveStep ==
  ASSUME CatalogIInv, NEW c \in Callers, NEW k \in CallType,
         call' = [call EXCEPT ![c] = k],
         UNCHANGED <<source, process, array, length>>,
         reloadCatalog' \in BOOLEAN, mutex' \in Callers \cup {NONE}, rows' \subseteq Products,
         k.stage # "rows", AtWorkOn(k) => process = "up",
         Fits(k),
         c \in Watched \ mixed' => Unmixed(k),
         c \in Watched \ disturbed' => Undisturbed(k),
         disturbed \subseteq disturbed' \cup {c}, disturbed' \subseteq Watched,
         mixed \subseteq mixed' \cup {c}, mixed' \subseteq Watched,
         k.stage = "query" <=> mutex' = c,
         \A d \in Callers \ {c} : mutex' = d <=> mutex = d,
         \A d \in Callers \ {c} : call[d].stage = "rows" => rows' = rows
  PROVE  CatalogIInv'
<1>1. /\ call' \in [Callers -> CallType] /\ call'[c] = k
      /\ \A d \in Callers \ {c} : call'[d] = call[d]
  BY DEF CatalogIInv, CatalogTypeOK
<1>2. CatalogTypeOK'
  <2>1. \A d \in Callers : call'[d].stage \in {"query", "rows"} <=> mutex' = d
    BY <1>1 DEF CatalogIInv, CatalogTypeOK
  <2> QED BY <1>1, <2>1 DEF CatalogIInv, CatalogTypeOK
<1>3. Listed' = Listed /\ Offered' = Offered /\ Whole' = Whole /\ source' = source
  BY DEF Listed, Offered, Whole
<1>4. Loads'
  BY <1>1, <1>3 DEF CatalogIInv, Loads, AtWorkOn
<1>5. \A d \in Callers : Fits(call[d])'
  BY <1>1 DEF CatalogIInv, Fits, AtWorkOn
<1>6. \A d \in Watched \ mixed' : Unmixed(call[d])'
  <2> SUFFICES ASSUME NEW d \in Watched \ mixed' PROVE Unmixed(call[d])'
    OBVIOUS
  <2>1. d \in Callers
    BY CatalogAssumption
  <2>2. Unmixed(call'[d])
    BY <1>1, <2>1 DEF CatalogIInv
  <2> QED BY <1>3, <2>2 DEF Unmixed, AtWorkOn
<1>7. \A d \in Watched \ disturbed' : Undisturbed(call[d])'
  <2> SUFFICES ASSUME NEW d \in Watched \ disturbed' PROVE Undisturbed(call[d])'
    OBVIOUS
  <2>1. d \in Callers
    BY CatalogAssumption
  <2>2. Undisturbed(call'[d])
    BY <1>1, <2>1 DEF CatalogIInv
  <2>3. Emptied(call'[d]) => Emptied(call[d])'
    BY <1>1 DEF Emptied, Begins
  <2>4. (Loading(call'[d]) => Loading(call[d])') /\ (Searching(call'[d]) => Searching(call[d])')
    BY <1>3 DEF Loading, Begins, Searching
  <2> QED BY <2>2, <2>3, <2>4 DEF Undisturbed, AtWorkOn
<1> QED BY <1>2, <1>4, <1>5, <1>6, <1>7 DEF CatalogIInv

\* The end of the process is the end of every call at work.
LEMMA ExitStep ==
  ASSUME CatalogIInv, NEW why \in {"stopped", "panicked"}, Exit(why),
         disturbed \subseteq disturbed', disturbed' \subseteq Watched, mixed' = mixed
  PROVE  CatalogIInv'
<1>1. ASSUME NEW d \in Callers
      PROVE  /\ call'[d] \in CallType /\ Fits(call'[d]) /\ ~ AtWorkOn(call'[d])
             /\ call'[d] = call[d] \/ call'[d].stage \in {"idle", "Unavailable"}
             /\ call'[d].stage \notin {"query", "rows"}
  <2>1. CASE d \in Working
    <3>1. call'[d] = Over(d, "Unavailable", <<>>)
      BY <2>1 DEF Exit
    <3>2. /\ call'[d] \in CallType /\ Fits(call'[d]) /\ ~ AtWorkOn(call'[d])
          /\ call'[d].stage \in {"idle", "Unavailable"}
      BY <3>1, OverFits, BoundedSeqs DEF CatalogIInv, Ended
    <3> QED BY <3>2
  <2>2. CASE d \notin Working
    BY <2>2 DEF Exit, Working, AtWorkOn, CatalogIInv, CatalogTypeOK, Ended
  <2> QED BY <2>1, <2>2
<1>2. CatalogTypeOK'
  <2>1. Listing \in [1 .. Size -> Products] /\ 0 \in 0 .. Size
    BY SizeOfListing
  <2>2. call' \in [Callers -> CallType]
    BY <1>1 DEF Exit
  <2>3. \A d \in Callers : call'[d].stage \in {"query", "rows"} <=> mutex' = d
    BY <1>1, CatalogAssumption DEF Exit
  <2>4. /\ source' \in {"file", "alloydb"} /\ reloadCatalog' \in BOOLEAN
        /\ process' \in {"up", "stopped", "panicked"} /\ array' \in [1 .. Size -> Products]
        /\ length' \in 0 .. Size /\ mutex' \in Callers \cup {NONE} /\ rows' \subseteq Products
    BY <2>1 DEF Exit, CatalogIInv, CatalogTypeOK
  <2>5. disturbed' \subseteq Watched /\ mixed' \subseteq Watched
    BY DEF CatalogIInv, CatalogTypeOK
  <2> QED BY <2>2, <2>3, <2>4, <2>5 DEF CatalogTypeOK
<1>3. Loads'
  BY <1>1 DEF Loads, Exit, AtWorkOn
<1>4. \A d \in Callers : Fits(call[d])'
  <2>1. source' = source
    BY DEF Exit
  <2> QED BY <1>1, <2>1 DEF CatalogIInv, Fits, AtWorkOn, Ended
<1>5. \A d \in Watched \ mixed' : Unmixed(call[d])'
  <2> SUFFICES ASSUME NEW d \in Watched \ mixed' PROVE Unmixed(call[d])'
    OBVIOUS
  <2>1. d \in Callers /\ Unmixed(call[d])
    BY CatalogAssumption DEF CatalogIInv
  <2> QED BY <1>1, <2>1 DEF Unmixed, AtWorkOn, Ended
<1>6. \A d \in Watched \ disturbed' : Undisturbed(call[d])'
  BY <1>1, CatalogAssumption DEF Undisturbed, AtWorkOn
<1> QED BY <1>2, <1>3, <1>4, <1>5, <1>6 DEF CatalogIInv

LEMMA GotoMoves ==
  ASSUME CatalogIInv, NEW c \in Callers, AtWorkOn(call[c]),
         NEW s \in {"lock", "query", "rows", "return"}, Goto(c, s)
  PROVE  \E k \in CallType :
           /\ call' = [call EXCEPT ![c] = k]
           /\ k.stage = s /\ k.asked = call[c].asked /\ k.use = call[c].use
           /\ k.index = call[c].index /\ k.found = call[c].found
           /\ Fits(k)
           /\ Unmixed(call[c]) => Unmixed(k)
           /\ Begins(call[c]) => Begins(k)
           /\ Searching(call[c]) /\ s # "rows" => Searching(k)
<1> DEFINE k0 == call[c]
           k == [k0 EXCEPT !.stage = s]
<1>1. k0 \in CallType /\ Fits(k0)
  BY DEF CatalogIInv, CatalogTypeOK
<1>2. call' = [call EXCEPT ![c] = k]
  BY DEF Goto
<1>3. /\ k \in CallType /\ k.stage = s /\ k.use = k0.use /\ k.asked = k0.asked
      /\ k.index = k0.index /\ k.found = k0.found
  BY <1>1 DEF CallType
<1> HIDE DEF k
<1>4. Fits(k) /\ (Unmixed(k0) => Unmixed(k))
  BY <1>1, <1>3 DEF Fits, Unmixed, AtWorkOn, Ended
<1>5. (Begins(k0) => Begins(k)) /\ (Searching(k0) /\ s # "rows" => Searching(k))
  BY <1>3 DEF Begins, Searching
<1> QED BY <1>2, <1>3, <1>4, <1>5

LEMMA CheckStep ==
  ASSUME CatalogIInv, NEW c \in Callers, Check(c)
  PROVE  CatalogIInv'
<1>1. AtWorkOn(call[c]) /\ call[c].stage = "check"
  BY DEF Check, AtWorkOn, Ended
<1> DEFINE s == IF NeedsLoad THEN "lock" ELSE "return"
<1>2. s \in {"lock", "query", "rows", "return"} /\ s \in {"lock", "return"} /\ Goto(c, s)
  BY DEF Check
<1>3. length = 0 => s = "lock"
  BY DEF NeedsLoad
<1> HIDE DEF s
<1>4. PICK k \in CallType :
        /\ call' = [call EXCEPT ![c] = k]
        /\ k.stage = s /\ Fits(k)
        /\ Unmixed(call[c]) => Unmixed(k)
        /\ Begins(call[c]) => Begins(k)
        /\ Searching(call[c]) /\ s # "rows" => Searching(k)
  BY <1>1, <1>2, GotoMoves
<1>5. c \in Watched \ disturbed => Undisturbed(k)
  <2> SUFFICES ASSUME c \in Watched \ disturbed PROVE Undisturbed(k)
    OBVIOUS
  <2>1. Emptied(call[c]) \/ Searching(call[c])
    BY <1>1 DEF CatalogIInv, Undisturbed, Loading
  <2> QED BY <1>2, <1>3, <1>4, <2>1 DEF Undisturbed, Emptied, AtWorkOn, Ended
<1>6. process = "up"
  BY <1>1 DEF CatalogIInv, Loads
<1>7. call[c].stage \notin {"query", "rows"} /\ mutex # c
  BY <1>1 DEF CatalogIInv, CatalogTypeOK
<1>8. c \in Watched \ mixed => Unmixed(k)
  BY <1>4 DEF CatalogIInv
<1> QED BY <1>2, <1>4, <1>5, <1>6, <1>7, <1>8, MoveStep DEF Check, ghosts, CatalogIInv, CatalogTypeOK

LEMMA LockStep ==
  ASSUME CatalogIInv, NEW c \in Callers, Lock(c)
  PROVE  CatalogIInv'
<1>1. AtWorkOn(call[c]) /\ call[c].stage = "lock"
  BY DEF Lock, AtWorkOn, Ended
<1>2. PICK k \in CallType :
        /\ call' = [call EXCEPT ![c] = k]
        /\ k.stage = "query" /\ Fits(k)
        /\ Unmixed(call[c]) => Unmixed(k)
        /\ Begins(call[c]) => Begins(k)
        /\ Searching(call[c]) => Searching(k)
  BY <1>1, GotoMoves DEF Lock
<1>3. c \in Watched \ disturbed => Undisturbed(k)
  <2> SUFFICES ASSUME c \in Watched \ disturbed PROVE Undisturbed(k)
    OBVIOUS
  <2>1. Emptied(call[c]) \/ Searching(call[c])
    BY <1>1 DEF CatalogIInv, Undisturbed, Loading
  <2> QED BY <1>2, <2>1 DEF Undisturbed, Emptied, AtWorkOn, Ended
<1>4. process = "up"
  BY <1>1 DEF CatalogIInv, Loads
<1>5. \A d \in Callers : mutex # d
  BY CatalogAssumption DEF Lock
<1>6. c \in Watched \ mixed => Unmixed(k)
  BY <1>2 DEF CatalogIInv
<1> QED BY <1>2, <1>3, <1>4, <1>5, <1>6, MoveStep DEF Lock, ghosts, CatalogIInv, CatalogTypeOK

LEMMA ReturnStep ==
  ASSUME CatalogIInv, NEW c \in Callers, Return(c)
  PROVE  CatalogIInv'
<1>1. /\ AtWorkOn(call[c]) /\ call[c].stage = "return" /\ Fits(call[c])
      /\ process = "up" /\ mutex # c /\ Loads /\ CatalogTypeOK
  BY DEF Return, AtWorkOn, Ended, CatalogIInv, CatalogTypeOK, Loads
<1>2. UNCHANGED ghosts
  BY DEF Return
<1>3. CASE Returns(c, Listed) /\ UNCHANGED <<source, reloadCatalog, process, array, length, mutex, rows>>
  <2>1. PICK k \in CallType :
          /\ call' = [call EXCEPT ![c] = k]
          /\ Fits(k) /\ k.stage \notin {"lock", "query", "rows", "return"}
          /\ Unmixed(call[c]) => Unmixed(k)
          /\ Searching(call[c]) => Undisturbed(k)
    BY <1>1, <1>3, ReturnsFits
  <2>2. c \in Watched \ disturbed => Undisturbed(k)
    BY <1>1, <2>1 DEF CatalogIInv, Undisturbed, Emptied, Loading
  <2>3. c \in Watched \ mixed => Unmixed(k)
    BY <2>1 DEF CatalogIInv
  <2> QED BY <1>1, <1>2, <1>3, <2>1, <2>2, <2>3, MoveStep DEF ghosts, CatalogTypeOK
<1>4. CASE Panics(c, Listed)
  BY <1>1, <1>2, <1>4, ExitStep DEF Panics, ghosts, CatalogTypeOK
<1> QED BY <1>3, <1>4 DEF Return

LEMMA LoadFailsStep ==
  ASSUME CatalogIInv, NEW c \in Callers, LoadFails(c)
  PROVE  CatalogIInv'
<1>1. /\ AtWorkOn(call[c]) /\ call[c].stage \in {"query", "rows"} /\ Fits(call[c])
      /\ process = "up" /\ Loads /\ CatalogTypeOK
  BY DEF LoadFails, AtWorkOn, Ended, CatalogIInv, Loads
<1>2. disturbed' = disturbed \cup ({c} \cap Watched) /\ disturbed' \subseteq Watched /\ mixed' = mixed
  BY DEF LoadFails, Disturbs, CatalogIInv, CatalogTypeOK
<1>3. CASE /\ Returns(c, <<>>) /\ mutex' = NONE /\ rows' = {}
           /\ UNCHANGED <<source, reloadCatalog, process, array, length>>
  <2>1. PICK k \in CallType :
          /\ call' = [call EXCEPT ![c] = k]
          /\ Fits(k) /\ k.stage \notin {"lock", "query", "rows", "return"}
          /\ Unmixed(call[c]) => Unmixed(k)
    BY <1>1, <1>3, ReturnsFits
  <2>2. mutex = c /\ \A d \in Callers \ {c} : call[d].stage # "rows"
    BY <1>1 DEF CatalogTypeOK
  <2>3. c # NONE /\ \A d \in Callers : d # NONE
    BY CatalogAssumption
  <2>4. c \notin Watched \ disturbed' /\ disturbed \subseteq disturbed' \cup {c}
    BY <1>2
  <2>5. reloadCatalog' \in BOOLEAN /\ mixed' \subseteq Watched
    BY <1>1, <1>2, <1>3 DEF CatalogTypeOK
  <2>6. c \in Watched \ mixed' => Unmixed(k)
    BY <1>2, <2>1 DEF CatalogIInv
  <2> QED BY <1>1, <1>2, <1>3, <2>1, <2>2, <2>3, <2>4, <2>5, <2>6, MoveStep
<1>4. CASE Panics(c, <<>>)
  BY <1>2, <1>4, ExitStep DEF Panics
<1> QED BY <1>3, <1>4 DEF LoadFails

\* When the rows have ended, every product was scanned once: a list of all.
LEMMA AllScanned ==
  ASSUME CatalogIInv, NEW c \in Callers, call[c].stage = "rows", rows = {}
  PROVE  length = Size /\ IsInjective(array)
<1>1. Cardinality(rows) = 0
  BY FS_EmptySet
<1>2. length = Size
  BY <1>1, SizeOfListing DEF CatalogIInv, Loads, CatalogTypeOK
<1>3. DOMAIN array = 1 .. length
  BY <1>2 DEF CatalogIInv, CatalogTypeOK
<1> QED BY <1>2, <1>3 DEF CatalogIInv, Loads, IsInjective

LEMMA ScanEndsStep ==
  ASSUME CatalogIInv, NEW c \in Callers, ScanEnds(c)
  PROVE  CatalogIInv'
<1>1. AtWorkOn(call[c]) /\ call[c].stage = "rows"
  BY DEF ScanEnds, AtWorkOn, Ended
<1>2. PICK k \in CallType :
        /\ call' = [call EXCEPT ![c] = k]
        /\ k.stage = "return" /\ Fits(k)
        /\ Unmixed(call[c]) => Unmixed(k)
        /\ Begins(call[c]) => Begins(k)
  BY <1>1, GotoMoves DEF ScanEnds
<1>3. c \in Watched \ disturbed' => Undisturbed(k)
  <2> SUFFICES ASSUME c \in Watched \ disturbed' PROVE Undisturbed(k)
    OBVIOUS
  <2>1. rows = {}
    BY <1>1 DEF ScanEnds, Disturbs, Working, AtWorkOn
  <2>2. length = Size /\ IsInjective(array)
    BY <1>1, <2>1, AllScanned
  <2>3. Begins(call[c])
    <3>1. Undisturbed(call[c])
      BY <2>1 DEF CatalogIInv, ScanEnds, Disturbs
    <3> QED BY <1>1, <3>1 DEF Undisturbed, Emptied, Loading, Searching
  <2>4. Searching(k)
    <3>1. k.index <= length
      BY <1>2, <2>2, <2>3, SizeOfListing DEF Begins
    <3> QED BY <1>2, <2>2, <2>3, <3>1 DEF Searching, Begins, Whole
  <2> QED BY <1>2, <2>4 DEF Undisturbed, AtWorkOn, Ended
<1>4. process = "up"
  BY <1>1 DEF CatalogIInv, Loads
<1>5. mutex = c /\ \A d \in Callers \ {c} : call[d].stage # "rows"
  BY <1>1 DEF CatalogIInv, CatalogTypeOK
<1>6. \A d \in Callers : d # NONE
  BY CatalogAssumption
<1>7. /\ disturbed \subseteq disturbed' /\ disturbed' \subseteq Watched
      /\ mixed' = mixed /\ mixed' \subseteq Watched
  BY DEF ScanEnds, Disturbs, CatalogIInv, CatalogTypeOK, Working
<1>8. /\ UNCHANGED <<source, process, array, length>> /\ mutex' = NONE /\ rows' = {}
      /\ reloadCatalog' \in BOOLEAN
  BY DEF ScanEnds, CatalogIInv, CatalogTypeOK
<1>9. c \in Watched \ mixed' => Unmixed(k)
  BY <1>2, <1>7 DEF CatalogIInv
<1> QED BY <1>2, <1>3, <1>4, <1>5, <1>6, <1>7, <1>8, <1>9, MoveStep

\* What the product is that a call reads.
LEMMA ElementAt ==
  ASSUME CatalogIInv, NEW c \in Callers, call[c].stage = "element"
  PROVE  /\ call[c].asked # NONE /\ call[c].asked \in Products
         /\ call[c].index \in Nat /\ call[c].index + 1 \in 0 .. Size
         /\ At(call[c].list, call[c].index + 1) \in Products
         /\ c \in Watched \ mixed =>
              /\ Unmixed(call[c]) /\ call[c].index + 1 \in 1 .. length
              /\ At(call[c].list, call[c].index + 1) = array[call[c].index + 1]
         /\ c \in Watched \ disturbed =>
              /\ Searching(call[c]) /\ call[c].index + 1 \in 1 .. length
              /\ At(call[c].list, call[c].index + 1) = array[call[c].index + 1]
<1> DEFINE k == call[c]
           i == k.index + 1
<1>1. /\ k \in CallType /\ Fits(k) /\ CatalogTypeOK /\ AtWorkOn(k)
      /\ source \in {"file", "alloydb"} /\ array \in [1 .. Size -> Products] /\ length \in Nat
  BY SizeOfListing DEF CatalogIInv, CatalogTypeOK, AtWorkOn, Ended
<1>2. k.asked # NONE /\ k.asked \in Products /\ k.use \in {"compare", "take"}
  BY <1>1 DEF Fits, CallType
<1>3. k.list \in Entries /\ k.index \in 0 .. Size /\ Size \in Nat
  BY <1>1, SizeOfListing DEF CallType, Entries
<1>4. PICK n \in 0 .. Size :
        k.list \in [1 .. n -> Products \cup {NONE}] /\ Len(k.list) = n /\ DOMAIN k.list = 1 .. n
  BY <1>3, EntriesAre
<1>5. k.index < n
  BY <1>1, <1>4 DEF Fits
<1>6. k.index \in Nat /\ i \in 1 .. n /\ i \in 1 .. Size /\ i \in 0 .. Size
  BY <1>3, <1>5
<1>7. k.list[i] = NONE <=> source = "alloydb"
  BY <1>1, <1>4, <1>6 DEF Fits
<1>8. k.list[i] \in Products \cup {NONE} /\ array[i] \in Products
  BY <1>1, <1>4, <1>6
<1>9. At(k.list, i) \in Products
  BY <1>8 DEF At
<1>10. ASSUME k.index < length, source = "file" => k.list = Listed
       PROVE  i \in 1 .. length /\ At(k.list, i) = array[i]
  <2>1. i \in 1 .. length
    BY <1>1, <1>6, <1>10
  <2>2. source = "file" => k.list[i] = array[i]
    BY <1>1, <1>10, <2>1, ListedIs
  <2> QED BY <1>1, <1>7, <2>1, <2>2 DEF At
<1>11. c \in Watched \ mixed => Unmixed(k) /\ i \in 1 .. length /\ At(k.list, i) = array[i]
  <2> SUFFICES ASSUME c \in Watched \ mixed PROVE Unmixed(k) /\ i \in 1 .. length /\ At(k.list, i) = array[i]
    OBVIOUS
  <2>1. Unmixed(k)
    BY DEF CatalogIInv
  <2> QED BY <1>1, <1>2, <1>10, <2>1 DEF Unmixed
<1>12. c \in Watched \ disturbed => Searching(k) /\ i \in 1 .. length /\ At(k.list, i) = array[i]
  <2> SUFFICES ASSUME c \in Watched \ disturbed PROVE Searching(k) /\ i \in 1 .. length /\ At(k.list, i) = array[i]
    OBVIOUS
  <2>1. Searching(k)
    BY <1>1 DEF CatalogIInv, Undisturbed, Emptied, Loading
  <2> QED BY <1>2, <1>10, <2>1 DEF Searching
<1> QED BY <1>2, <1>6, <1>9, <1>11, <1>12

LEMMA CompareStep ==
  ASSUME CatalogIInv, NEW c \in Callers, Compare(c)
  PROVE  CatalogIInv'
<1> DEFINE k0 == call[c]
           p == At(k0.list, k0.index + 1)
<1>1. k0.stage = "element" /\ k0.use = "compare" /\ AtWorkOn(k0)
  BY DEF Compare, AtWorkOn, Ended
<1>2. /\ k0.asked # NONE /\ k0.asked \in Products
      /\ k0.index \in Nat /\ k0.index + 1 \in 0 .. Size
      /\ c \in Watched \ mixed => Unmixed(k0) /\ k0.index + 1 \in 1 .. length /\ p = array[k0.index + 1]
      /\ c \in Watched \ disturbed => Searching(k0) /\ k0.index + 1 \in 1 .. length /\ p = array[k0.index + 1]
  BY <1>1, ElementAt
<1>3. k0.index \in 0 .. Size /\ k0.found \in Products \cup {NONE} /\ CatalogTypeOK /\ length \in Nat
  <2>1. CatalogTypeOK /\ k0 \in CallType /\ length \in 0 .. Size
    BY DEF CatalogIInv, CatalogTypeOK
  <2> QED BY <2>1, SizeOfListing DEF CallType
<1>4. process = "up" /\ mutex # c
  BY <1>1 DEF CatalogIInv, CatalogTypeOK, Loads
<1>5. UNCHANGED <<source, reloadCatalog, process, array, length, mutex, rows, disturbed, mixed>>
  BY DEF Compare, ghosts
<1> HIDE DEF p
<1>6. CASE p = k0.asked
  <2>1. PICK k \in CallType :
          /\ call' = [call EXCEPT ![c] = k]
          /\ k.stage = "check" /\ k.use = "take" /\ k.index = k0.index /\ k.found = k0.found
          /\ k.asked = k0.asked /\ Fits(k)
    BY <1>2, <1>3, <1>6, AgainMoves DEF Compare, p
  <2>2. c \in Watched \ mixed => Unmixed(k)
    BY <1>1, <1>2, <1>3, <1>6, <2>1 DEF Unmixed
  <2>3. c \in Watched \ disturbed => Undisturbed(k)
    BY <1>1, <1>2, <1>3, <1>6, <2>1 DEF Undisturbed, Searching
  <2> QED BY <1>4, <1>5, <2>1, <2>2, <2>3, MoveStep DEF CatalogIInv, CatalogTypeOK
<1>7. CASE p # k0.asked
  <2>1. PICK k \in CallType :
          /\ call' = [call EXCEPT ![c] = k]
          /\ k.stage = "check" /\ k.use = "length" /\ k.index = k0.index + 1 /\ k.found = k0.found
          /\ k.asked = k0.asked /\ Fits(k)
    BY <1>2, <1>3, <1>7, AgainMoves DEF Compare, p
  <2>2. c \in Watched \ mixed => Unmixed(k)
    BY <1>1, <1>2, <2>1 DEF Unmixed
  <2>3. c \in Watched \ disturbed => Undisturbed(k)
    <3> SUFFICES ASSUME c \in Watched \ disturbed PROVE Searching(k)
      BY DEF Undisturbed
    <3>1. k.found = NONE => \A i \in 1 .. k.index : array[i] # k.asked
      BY <1>2, <1>7, <2>1 DEF Searching
    <3>2. k.index # 0
      BY <1>2, <2>1
    <3> QED BY <1>2, <2>1, <3>1, <3>2 DEF Searching
  <2> QED BY <1>4, <1>5, <2>1, <2>2, <2>3, MoveStep DEF CatalogIInv, CatalogTypeOK
<1> QED BY <1>6, <1>7

LEMMA TakeStep ==
  ASSUME CatalogIInv, NEW c \in Callers, Take(c)
  PROVE  CatalogIInv'
<1> DEFINE k0 == call[c]
           p == At(k0.list, k0.index + 1)
<1>1. k0.stage = "element" /\ k0.use = "take" /\ AtWorkOn(k0)
  BY DEF Take, AtWorkOn, Ended
<1>2. /\ k0.asked # NONE /\ k0.asked \in Products /\ p \in Products
      /\ k0.index \in Nat /\ k0.index + 1 \in 0 .. Size
      /\ c \in Watched \ mixed => Unmixed(k0) /\ k0.index + 1 \in 1 .. length /\ p = array[k0.index + 1]
      /\ c \in Watched \ disturbed => Searching(k0) /\ k0.index + 1 \in 1 .. length /\ p = array[k0.index + 1]
  BY <1>1, ElementAt
<1>3. CatalogTypeOK
  BY DEF CatalogIInv
<1>4. process = "up" /\ mutex # c
  BY <1>1 DEF CatalogIInv, CatalogTypeOK, Loads
<1>5. UNCHANGED <<source, reloadCatalog, process, array, length, mutex, rows, disturbed, mixed>>
  BY DEF Take, ghosts
<1> HIDE DEF p
<1>6. PICK k \in CallType :
        /\ call' = [call EXCEPT ![c] = k]
        /\ k.stage = "check" /\ k.use = "length" /\ k.index = k0.index + 1
        /\ k.found = p /\ k.asked = k0.asked /\ Fits(k)
  <2>1. Again(c, "length", k0.index + 1, p)
    BY DEF Take, p
  <2> QED BY <1>2, <1>3, <2>1, AgainMoves
<1>7. c \in Watched \ mixed => Unmixed(k)
  BY <1>1, <1>2, <1>6 DEF Unmixed, AtWorkOn
<1>8. c \in Watched \ disturbed => Undisturbed(k)
  <2> SUFFICES ASSUME c \in Watched \ disturbed PROVE Searching(k)
    BY DEF Undisturbed
  <2>1. p = k0.asked
    BY <1>1, <1>2 DEF Searching
  <2>2. p \in Offered
    BY <1>2, <1>3, OfferedAre
  <2>3. p # NONE /\ k.index # 0
    BY <1>2, <1>6, SizeOfListing
  <2> QED BY <1>2, <1>6, <2>1, <2>2, <2>3 DEF Searching
<1> QED BY <1>4, <1>5, <1>6, <1>7, <1>8, MoveStep DEF CatalogIInv, CatalogTypeOK

\* An answer to ListProducts has no place left to look up.
LEMMA SendMoves ==
  ASSUME CatalogIInv, NEW c \in Callers, Send(c)
  PROVE  \E k \in CallType :
           /\ call' = [call EXCEPT ![c] = k]
           /\ Fits(k) /\ ~ AtWorkOn(k) /\ k.stage \in {"idle", "ok"} /\ k.use = "list"
           /\ k.stage # "idle" => k.asked = call[c].asked /\ k.asked = NONE
           /\ c \in Watched \ disturbed => Right(k)
<1> DEFINE k0 == call[c]
           answer == [i \in DOMAIN k0.list |-> At(k0.list, i)]
           k == Over(c, "ok", answer)
<1>1. /\ k0.stage = "send" /\ AtWorkOn(k0) /\ k0 \in CallType /\ Fits(k0) /\ CatalogTypeOK
      /\ array \in [1 .. Size -> Products] /\ source \in {"file", "alloydb"}
  BY DEF Send, AtWorkOn, Ended, CatalogIInv, CatalogTypeOK
<1>2. k0.asked = NONE /\ \A i \in DOMAIN k0.list : k0.list[i] = NONE <=> source = "alloydb"
  BY <1>1 DEF Fits
<1>3. k0.list \in Entries
  BY <1>1 DEF CallType, Entries
<1>4. PICK n \in 0 .. Size :
        k0.list \in [1 .. n -> Products \cup {NONE}] /\ Len(k0.list) = n /\ DOMAIN k0.list = 1 .. n
  BY <1>3, EntriesAre
<1>5. n \in Nat /\ n <= Size /\ Size \in Nat
  BY <1>4, SizeOfListing
<1>6. \A i \in 1 .. n : At(k0.list, i) = IF source = "file" THEN k0.list[i] ELSE array[i]
  BY <1>1, <1>2, <1>4 DEF At
<1>7. \A i \in 1 .. n : At(k0.list, i) \in Products
  BY <1>1, <1>2, <1>4, <1>5, <1>6
<1>8. answer \in [1 .. n -> Products] /\ \A i \in 1 .. n : answer[i] = At(k0.list, i)
  BY <1>4, <1>7
<1> HIDE DEF answer
<1>9. answer \in Entries
  <2>1. answer \in [1 .. n -> Products \cup {NONE}]
    BY <1>8
  <2> QED BY <2>1, BoundedSeqs
<1>10. call' = [call EXCEPT ![c] = k]
  BY DEF Send, Answers, answer
<1>11. /\ k \in CallType /\ Fits(k) /\ ~ AtWorkOn(k) /\ k.stage \in {"idle", "ok"} /\ k.use = "list"
       /\ k.stage # "idle" => k.asked = k0.asked /\ k.list = answer
  BY <1>1, <1>2, <1>9, OverFits DEF Ended
<1> HIDE DEF k
<1>12. c \in Watched \ disturbed => Right(k)
  <2> SUFFICES ASSUME c \in Watched \ disturbed, k.stage = "ok" PROVE Complete(answer)
    BY <1>2, <1>11 DEF Right
  <2>1. Searching(k0)
    BY <1>1 DEF CatalogIInv, Undisturbed, Emptied, Loading
  <2>2. CASE source = "file"
    <3>1. answer = k0.list
      BY <1>4, <1>6, <1>8, <2>2
    <3>2. k0.list \in Files
      BY <1>1, <2>1, <2>2 DEF Searching
    <3> QED BY <2>2, <3>1, <3>2 DEF Complete
  <2>3. CASE source # "file"
    <3>1. n = Size /\ IsInjective(array)
      BY <1>1, <1>4, <2>1, <2>3 DEF Searching, Whole
    <3>2. \A i \in 1 .. Size : answer[i] = array[i]
      BY <1>6, <1>8, <2>3, <3>1
    <3>3. answer \in [1 .. Size -> Products]
      BY <1>8, <3>1
    <3>4. Len(answer) = Size
      <4>1. answer \in Seq(Products) /\ DOMAIN answer = 1 .. Size
        BY <1>5, <3>3, SeqDef
      <4> QED BY <1>5, <4>1, LenProperties
    <3>5. ToSet(answer) = Products
      <4>1. ToSet(answer) \subseteq Products
        BY <3>3 DEF ToSet
      <4>2. ASSUME NEW p \in Products PROVE p \in ToSet(answer)
        <5>1. PICK i \in 1 .. Size : array[i] = p
          BY <1>1, <3>1, InjectiveHasAll
        <5> QED BY <3>2, <3>3, <5>1 DEF ToSet
      <4> QED BY <4>1, <4>2
    <3> QED BY <2>3, <3>4, <3>5 DEF Complete
  <2> QED BY <2>2, <2>3
<1> QED BY <1>2, <1>10, <1>11, <1>12

LEMMA SendStep ==
  ASSUME CatalogIInv, NEW c \in Callers, Send(c)
  PROVE  CatalogIInv'
<1>1. PICK k \in CallType :
        /\ call' = [call EXCEPT ![c] = k]
        /\ Fits(k) /\ ~ AtWorkOn(k) /\ k.stage \in {"idle", "ok"}
        /\ k.stage # "idle" => k.asked = NONE
  BY SendMoves
<1>2. process = "up" /\ mutex # c
  BY DEF Send, CatalogIInv, CatalogTypeOK, Loads, AtWorkOn, Ended
<1>3. Undisturbed(k) /\ Unmixed(k)
  <2>1. k.stage = "idle" => k = NoCall
    BY <1>1 DEF Fits
  <2> QED BY <1>1, <2>1, NoCallFits DEF Undisturbed, Unmixed
<1>4. UNCHANGED <<source, reloadCatalog, process, array, length, mutex, rows, disturbed, mixed>>
  BY DEF Send, ghosts
<1> QED BY <1>1, <1>2, <1>3, <1>4, MoveStep DEF CatalogIInv, CatalogTypeOK

LEMMA AskStep ==
  ASSUME CatalogIInv, NEW c \in Callers, NEW p \in Products \cup {NONE}, Ask(c, p)
  PROVE  CatalogIInv'
<1> DEFINE what == IF p = NONE THEN "list" ELSE "length"
           k0 == call[c]
<1>1. /\ k0 = NoCall /\ k0.stage = "idle" /\ k0 \in CallType
      /\ call \in [Callers -> CallType] /\ mutex # c
  BY DEF Ask, CatalogIInv, CatalogTypeOK, Fits
<1>2. disturbed' = disturbed \cup ((IF Whole \/ (length = 0 /\ mutex = NONE) THEN {} ELSE {c}) \cap Watched)
  BY DEF Ask, Disturbs
<1>3. disturbed \subseteq disturbed' /\ disturbed' \subseteq Watched /\ mixed' = mixed
  BY <1>2 DEF Ask, CatalogIInv, CatalogTypeOK
<1>4. CASE process = "up"
  <2> DEFINE k == [k0 EXCEPT !.stage = "check", !.asked = p, !.use = what]
  <2>5. what \in {"length", "list"} /\ (what = "list" <=> p = NONE)
    OBVIOUS
  <2>1. call' = [call EXCEPT ![c] = k]
    BY <1>1, <1>4 DEF Ask, CallType
  <2>2. /\ k \in CallType /\ k.stage = "check" /\ k.asked = p /\ k.use = what
        /\ k.index = 0 /\ k.found = NONE
    <3> HIDE DEF what
    <3>1. k0 = NoCall /\ k0 \in CallType
      BY <1>1
    <3> HIDE DEF k0
    <3>2. k \in CallType
      BY <2>5, <3>1 DEF CallType
    <3>3. k0.index = 0 /\ k0.found = NONE
      BY <3>1 DEF NoCall
    <3> QED BY <3>1, <3>2, <3>3 DEF CallType
  <2> HIDE DEF k, what
  <2>3. Fits(k) /\ Unmixed(k)
    BY <2>2, <2>5 DEF Fits, Unmixed, AtWorkOn, Ended
  <2>4. c \in Watched \ disturbed' => Undisturbed(k)
    <3> SUFFICES ASSUME c \in Watched \ disturbed' PROVE Undisturbed(k)
      OBVIOUS
    <3>1. CASE Whole
      <4>1. Searching(k)
        <5>1. k.index <= length
          BY <2>2, SizeOfListing DEF CatalogIInv, CatalogTypeOK
        <5> QED BY <2>2, <2>5, <3>1, <5>1 DEF Searching
      <4> QED BY <4>1 DEF Undisturbed
    <3>2. CASE length = 0 /\ mutex = NONE
      <4>1. \A d \in Callers : call[d].stage # "rows"
        BY <3>2, CatalogAssumption DEF CatalogIInv, CatalogTypeOK
      <4>2. Emptied(k)
        BY <2>2, <2>5, <3>2, <4>1 DEF Emptied, Begins
      <4> QED BY <4>2 DEF Undisturbed
    <3> QED BY <1>2, <3>1, <3>2
  <2> QED BY <1>1, <1>3, <1>4, <2>1, <2>2, <2>3, <2>4, MoveStep DEF Ask, CatalogIInv, CatalogTypeOK
<1>5. CASE process # "up"
  <2> DEFINE k == Over(c, "Unavailable", <<>>)
  <2>1. call' = [call EXCEPT ![c] = k]
    BY <1>5 DEF Ask, Answers
  <2>2. k \in CallType /\ Fits(k) /\ ~ AtWorkOn(k) /\ k.stage \in {"idle", "Unavailable"}
    BY OverFits, BoundedSeqs DEF CatalogIInv, Ended
  <2> HIDE DEF k
  <2>3. Unmixed(k) /\ Undisturbed(k)
    BY <2>2 DEF Unmixed, Undisturbed
  <2> QED BY <1>1, <1>3, <1>5, <2>1, <2>2, <2>3, MoveStep DEF Ask, CatalogIInv, CatalogTypeOK
<1> QED BY <1>4, <1>5

LEMMA ForgetStep ==
  ASSUME CatalogIInv, NEW c \in Callers, Forget(c)
  PROVE  CatalogIInv'
<1>1. call[c].stage \notin {"query", "rows"} /\ mutex # c
  BY DEF Forget, Ended, CatalogIInv, CatalogTypeOK
<1>2. NoCall.stage = "idle"
  BY DEF NoCall
<1>3. call' = [call EXCEPT ![c] = NoCall]
  BY DEF Forget
<1>4. /\ disturbed' \subseteq Watched /\ disturbed \subseteq disturbed' \cup {c}
      /\ mixed' \subseteq Watched /\ mixed \subseteq mixed' \cup {c}
  BY DEF Forget, CatalogIInv, CatalogTypeOK
<1>5. /\ NoCall \in CallType /\ Fits(NoCall) /\ ~ AtWorkOn(NoCall)
      /\ Unmixed(NoCall) /\ Undisturbed(NoCall)
  BY NoCallFits
<1> QED BY <1>1, <1>2, <1>3, <1>4, <1>5, MoveStep DEF Forget, CatalogIInv, CatalogTypeOK

\* Nothing is at work when the process starts.
LEMMA StartStep ==
  ASSUME CatalogIInv, Start
  PROVE  CatalogIInv'
<1>1. \A c \in Callers : ~ AtWorkOn(call[c])
  BY DEF Start, CatalogIInv, Loads
<1>2. /\ array' \in [1 .. Size -> Products] /\ length' \in 0 .. Size
      /\ source = "file" => Listed' \in Files
  <2>1. CASE source = "file" /\ \E f \in Files : FileList(f)
    BY <2>1, NewList DEF CatalogIInv
  <2>2. CASE source = "alloydb" /\ array' \in Orders /\ length' \in 0 .. Size
    BY <2>2 DEF Orders
  <2> QED BY <2>1, <2>2 DEF Start
<1>3. UNCHANGED <<source, reloadCatalog, mutex, rows, call, disturbed, mixed>> /\ process' = "up"
  BY DEF Start, ghosts
<1>4. CatalogTypeOK'
  BY <1>2, <1>3 DEF CatalogIInv, CatalogTypeOK
<1>5. Loads'
  BY <1>1, <1>2, <1>3 DEF Loads, AtWorkOn, Ended
<1>6. \A c \in Callers : Fits(call[c])'
  BY <1>1, <1>3 DEF CatalogIInv, Fits, AtWorkOn
<1>7. \A c \in Watched \ mixed' : Unmixed(call[c])'
  <2> SUFFICES ASSUME NEW c \in Watched \ mixed' PROVE Unmixed(call[c])'
    OBVIOUS
  <2>1. ~ AtWorkOn(call[c]) /\ Unmixed(call[c])
    BY <1>1, <1>3, CatalogAssumption DEF CatalogIInv
  <2> QED BY <1>3, <2>1 DEF Unmixed, AtWorkOn
<1>8. \A c \in Watched \ disturbed' : Undisturbed(call[c])'
  BY <1>1, <1>3, CatalogAssumption DEF Undisturbed, AtWorkOn
<1> QED BY <1>4, <1>5, <1>6, <1>7, <1>8 DEF CatalogIInv

LEMMA SignalStep ==
  ASSUME CatalogIInv, Signal \/ UNCHANGED catalogVars
  PROVE  CatalogIInv'
<1>1. UNCHANGED <<source, process, array, length, mutex, rows, call, disturbed, mixed>>
  BY DEF Signal, catalogVars, ghosts
<1>2. reloadCatalog' \in BOOLEAN
  BY DEF Signal, catalogVars, CatalogIInv, CatalogTypeOK
<1>3. CatalogTypeOK'
  BY <1>1, <1>2 DEF CatalogIInv, CatalogTypeOK
<1>4. Listed' = Listed /\ Offered' = Offered /\ Whole' = Whole
  BY <1>1 DEF Listed, Offered, Whole
<1>5. Loads'
  BY <1>1, <1>4 DEF CatalogIInv, Loads, AtWorkOn
<1>6. \A c \in Callers : Fits(call[c])'
  BY <1>1 DEF CatalogIInv, Fits, AtWorkOn
<1>7. \A c \in Watched \ mixed' : Unmixed(call[c])'
  BY <1>1, <1>4 DEF CatalogIInv, Unmixed, AtWorkOn
<1>8. \A c \in Watched \ disturbed' : Undisturbed(call[c])'
  BY <1>1, <1>4 DEF CatalogIInv, Undisturbed, AtWorkOn, Emptied, Loading, Begins, Searching
<1> QED BY <1>3, <1>5, <1>6, <1>7, <1>8 DEF CatalogIInv

\* A load from the file gives every call the list of a file; with that source a
\* call has the whole list to search whenever it has not looked at it yet, and
\* another list disturbs and mixes those that have.
LEMMA LoadFileStep ==
  ASSUME CatalogIInv, NEW c \in Callers, LoadFile(c)
  PROVE  CatalogIInv'
<1>1. AtWorkOn(call[c]) /\ call[c].stage = "query" /\ mutex = c /\ CatalogTypeOK
  BY DEF LoadFile, AtWorkOn, Ended, CatalogIInv, CatalogTypeOK
<1>2. PICK k \in CallType :
        /\ call' = [call EXCEPT ![c] = k]
        /\ k.stage = "return" /\ k.asked = call[c].asked /\ k.use = call[c].use
        /\ k.index = call[c].index /\ k.found = call[c].found
        /\ Fits(k)
  BY <1>1, GotoMoves DEF LoadFile
<1>3. /\ call' \in [Callers -> CallType] /\ call'[c] = k
      /\ \A d \in Callers \ {c} : call'[d] = call[d]
  BY <1>1, <1>2 DEF CatalogTypeOK
<1>4. PICK f \in Files :
        /\ FileList(f)
        /\ IF f = Listed THEN UNCHANGED ghosts ELSE Disturbs(Midway) /\ Mixes
  BY DEF LoadFile
<1>5. /\ array' \in [1 .. Size -> Products] /\ length' \in 0 .. Size
      /\ Listed' = f
      /\ f = Listed => length' = length /\ \A i \in 1 .. length : array'[i] = array[i]
  BY <1>1, <1>4, NewList
<1>6. /\ source = "file" /\ source' = "file" /\ mutex' = NONE
      /\ UNCHANGED <<reloadCatalog, process, rows>> /\ process = "up"
  BY <1>1 DEF LoadFile, CatalogIInv, Loads
<1>7. \A d \in Callers : call'[d].stage # "rows" /\ call[d].stage # "rows"
  BY <1>1, <1>2, <1>3 DEF CatalogTypeOK
<1>8. /\ disturbed \subseteq disturbed' /\ disturbed' \subseteq Watched
      /\ mixed \subseteq mixed' /\ mixed' \subseteq Watched
      /\ f # Listed => Midway \cap Watched \subseteq disturbed' /\ Midway \cap Watched \subseteq mixed'
  BY <1>1, <1>4 DEF ghosts, Disturbs, Mixes, CatalogTypeOK
<1>9. CatalogTypeOK'
  <2>1. \A d \in Callers : call'[d].stage \notin {"query", "rows"}
    BY <1>1, <1>2, <1>3 DEF CatalogTypeOK
  <2>2. \A d \in Callers : d # NONE
    BY CatalogAssumption
  <2> QED BY <1>1, <1>3, <1>5, <1>6, <1>8, <2>1, <2>2 DEF CatalogTypeOK
<1>10. Loads'
  BY <1>5, <1>6, <1>7 DEF Loads
<1>11. \A d \in Callers : Fits(call[d])'
  BY <1>2, <1>3, <1>6 DEF CatalogIInv, Fits, AtWorkOn
<1>12. ASSUME NEW d \in Callers, AtWorkOn(call'[d])
       PROVE  /\ AtWorkOn(call[d])
              /\ call'[d].asked = call[d].asked /\ call'[d].use = call[d].use
              /\ call'[d].index = call[d].index /\ call'[d].found = call[d].found
              /\ call'[d].stage \in {"element", "send"} => call'[d] = call[d]
              /\ d \notin Midway => call[d].use # "take" /\ call[d].stage # "element"
              /\ d \notin Midway /\ call[d].asked # NONE =>
                   call[d].use = "length" /\ call[d].index = 0
              /\ call[d].index \in Nat
  <2>1. call[d] \in CallType /\ Fits(call[d]) /\ call[d].index \in Nat
    <3>1. call[d] \in CallType /\ Fits(call[d])
      BY DEF CatalogIInv, CatalogTypeOK
    <3>2. call[d].index \in 0 .. Size
      BY <3>1 DEF CallType
    <3> QED BY <3>1, <3>2, SizeOfListing
  <2>2. /\ AtWorkOn(call[d])
        /\ call'[d].asked = call[d].asked /\ call'[d].use = call[d].use
        /\ call'[d].index = call[d].index /\ call'[d].found = call[d].found
        /\ call'[d].stage \in {"element", "send"} => call'[d] = call[d]
    BY <1>1, <1>2, <1>3, <1>12
  <2>3. d \notin Midway => call[d].use = "list" \/ (call[d].use = "length" /\ call[d].index = 0)
    BY <2>1, <2>2 DEF Midway, Working, AtWorkOn
  <2> QED BY <2>1, <2>2, <2>3 DEF Fits
<1>13. ASSUME NEW d \in Watched \ mixed' PROVE Unmixed(call[d])'
  <2>1. d \in Callers /\ Unmixed(call[d])
    BY <1>8, CatalogAssumption DEF CatalogIInv
  <2>2. ASSUME AtWorkOn(call'[d]), call'[d].asked # NONE
        PROVE  /\ call'[d].found \in {NONE, call'[d].asked}
               /\ call'[d].use = "take" \/ call'[d].stage = "element" => call'[d].index < length'
               /\ call'[d].use = "take" => array'[call'[d].index + 1] = call'[d].asked
               /\ call'[d].stage = "element" => call'[d].list = Listed'
    <3>1. CASE f = Listed
      <4>1. /\ call[d].use = "take" => call[d].index + 1 \in 1 .. length
            /\ length' = length
        BY <1>5, <1>12, <2>1, <2>2, <3>1, <1>1, SizeOfListing DEF Unmixed, CatalogTypeOK
      <4> QED BY <1>5, <1>6, <1>12, <2>1, <2>2, <3>1, <4>1 DEF Unmixed
    <3>2. CASE f # Listed
      <4>1. d \notin Midway
        BY <1>8, <3>2
      <4> QED BY <1>12, <2>1, <2>2, <4>1 DEF Unmixed
    <3> QED BY <3>1, <3>2
  <2>3. call'[d].stage = "ok" => call'[d] = call[d]
    BY <1>2, <1>3, <2>1
  <2> QED BY <2>1, <2>2, <2>3 DEF Unmixed, AtWorkOn
<1>14. ASSUME NEW d \in Watched \ disturbed' PROVE Undisturbed(call[d])'
  <2>1. d \in Callers /\ Undisturbed(call[d])
    BY <1>8, CatalogAssumption DEF CatalogIInv
  <2> SUFFICES ASSUME AtWorkOn(call'[d]) PROVE Searching(call[d])'
    BY DEF Undisturbed, AtWorkOn
  <2>2. (Begins(call[d]) /\ call[d].stage # "send") \/ Searching(call[d])
    BY <1>12, <2>1 DEF Undisturbed, Emptied, Loading
  <2>3. Whole' /\ call'[d].stage # "rows"
    BY <1>6, <1>7, <2>1 DEF Whole
  <2>4. call'[d].stage = "send" => call'[d].list \in Files
    BY <1>6, <1>12, <2>1, <2>2 DEF Searching
  <2>5. ASSUME call'[d].asked # NONE
        PROVE  /\ call'[d].found \in {NONE, call'[d].asked}
               /\ call'[d].index <= length'
               /\ call'[d].index = 0 => call'[d].found = NONE
               /\ call'[d].found = NONE => \A i \in 1 .. call'[d].index : array'[i] # call'[d].asked
               /\ call'[d].found # NONE => call'[d].asked \in Offered'
               /\ call'[d].use \in {"compare", "take"} => call'[d].index < length'
               /\ call'[d].use = "take" => array'[call'[d].index + 1] = call'[d].asked
               /\ call'[d].stage = "element" => call'[d].list = Listed'
    <3>1. CASE d \notin Midway
      <4>1. call[d].use = "length" /\ call[d].index = 0 /\ call[d].found = NONE
        BY <1>12, <2>1, <2>2, <2>5, <3>1 DEF Searching, Begins
      <4>2. call'[d].use = "length" /\ call'[d].index = 0 /\ call'[d].found = NONE
            /\ call'[d].stage # "element"
        BY <1>12, <2>1, <3>1, <4>1
      <4>3. 0 <= length' /\ \A i \in 1 .. 0 : FALSE
        BY <1>5, SizeOfListing
      <4> QED BY <4>2, <4>3
    <3>2. CASE d \in Midway
      <4>1. f = Listed
        BY <1>8, <3>2
      <4>2. Searching(call[d])
        BY <1>12, <2>1, <2>2, <3>2 DEF Midway, Begins
      <4>3. Offered' = Offered
        BY <1>5, <1>6, <4>1 DEF Offered
      <4>4. /\ call[d].asked # NONE /\ call[d].index \in Nat /\ call[d].index <= length
            /\ length \in Nat /\ length' = length
        BY <1>1, <1>5, <1>12, <2>1, <2>5, <4>1, <4>2, SizeOfListing DEF Searching, CatalogTypeOK
      <4>5. \A i \in 1 .. call[d].index : array'[i] = array[i]
        BY <1>5, <4>1, <4>4
      <4>6. call[d].index < length => array'[call[d].index + 1] = array[call[d].index + 1]
        BY <1>5, <4>1, <4>4
      <4>7. call'[d].stage = "element" => call'[d].list = Listed'
        BY <1>5, <1>6, <1>12, <2>1, <4>1, <4>2, <4>4 DEF Searching
      <4> QED BY <1>12, <2>1, <4>2, <4>3, <4>4, <4>5, <4>6, <4>7 DEF Searching
    <3> QED BY <3>1, <3>2
  <2> QED BY <1>6, <2>3, <2>4, <2>5 DEF Searching
<1> QED BY <1>9, <1>10, <1>11, <1>13, <1>14 DEF CatalogIInv

\* Cutting a list that is not empty disturbs whoever is at work, the call that
\* cuts it included, and mixes whoever has looked at it.
LEMMA TruncateStep ==
  ASSUME CatalogIInv, NEW c \in Callers, Truncate(c)
  PROVE  CatalogIInv'
<1>1. AtWorkOn(call[c]) /\ call[c].stage = "query" /\ mutex = c
  BY DEF Truncate, AtWorkOn, Ended, CatalogIInv, CatalogTypeOK
<1>2. PICK k \in CallType :
        /\ call' = [call EXCEPT ![c] = k]
        /\ k.stage = "rows" /\ k.asked = call[c].asked /\ k.use = call[c].use
        /\ k.index = call[c].index /\ k.found = call[c].found
        /\ Fits(k)
        /\ Begins(call[c]) => Begins(k)
  BY <1>1, GotoMoves DEF Truncate
<1>3. /\ call' \in [Callers -> CallType] /\ call'[c] = k
      /\ \A d \in Callers \ {c} : call'[d] = call[d] /\ call[d].stage \notin {"query", "rows"}
  BY <1>1, <1>2 DEF CatalogIInv, CatalogTypeOK
<1>4. /\ source = "alloydb" /\ source' = "alloydb" /\ length' = 0 /\ rows' = Products
      /\ UNCHANGED <<reloadCatalog, process, array, mutex>>
  BY DEF Truncate
<1>5. process = "up"
  BY <1>1 DEF CatalogIInv, Loads
<1>6. /\ disturbed' \subseteq Watched /\ disturbed \subseteq disturbed'
      /\ mixed' = mixed \cup (Midway \cap Watched) /\ mixed' \subseteq Watched
  BY DEF Truncate, Disturbs, Mixes, CatalogIInv, CatalogTypeOK
<1>7. CatalogTypeOK'
  <2>1. \A d \in Callers : call'[d].stage \in {"query", "rows"} <=> mutex' = d
    BY <1>1, <1>2, <1>3, <1>4
  <2>2. length' \in 0 .. Size
    BY <1>4, SizeOfListing
  <2> QED BY <1>3, <1>4, <1>6, <2>1, <2>2 DEF CatalogIInv, CatalogTypeOK
<1>8. Loads'
  <2>1. Cardinality(rows') + length' = Size
    BY <1>4, ProductsAreFinite, SizeOfListing
  <2> QED BY <1>4, <1>5, <2>1 DEF Loads
<1>9. \A d \in Callers : Fits(call[d])'
  BY <1>2, <1>3, <1>4 DEF CatalogIInv, Fits, AtWorkOn
<1>10. ASSUME NEW d \in Watched \ mixed' PROVE Unmixed(call[d])'
  <2>1. d \in Callers /\ Unmixed(call[d]) /\ d \notin Midway /\ Fits(call[d])
    BY <1>6, CatalogAssumption DEF CatalogIInv
  <2>2. AtWorkOn(call[d]) => call[d].use \in {"length", "list"}
    <3>1. call[d].use \in {"length", "compare", "take", "list"}
      BY <2>1 DEF CatalogIInv, CatalogTypeOK, CallType
    <3> QED BY <2>1, <3>1 DEF Midway, Working, AtWorkOn
  <2>3. AtWorkOn(call[d]) => call[d].stage # "element"
    BY <2>1, <2>2 DEF Fits
  <2>4. CASE d = c
    BY <1>1, <1>2, <1>3, <2>1, <2>2, <2>4 DEF Unmixed, AtWorkOn
  <2>5. CASE d # c
    BY <1>3, <2>1, <2>2, <2>3, <2>5 DEF Unmixed, AtWorkOn
  <2> QED BY <2>4, <2>5
<1>11. ASSUME NEW d \in Watched \ disturbed' PROVE Undisturbed(call[d])'
  <2>1. d \in Callers /\ Undisturbed(call[d])
    BY <1>6, CatalogAssumption DEF CatalogIInv
  <2>2. CASE d = c
    <3>1. length = 0
      BY <1>1, <2>1, <2>2 DEF Truncate, Disturbs, Working, AtWorkOn
    <3>2. Begins(call[c])
      BY <1>1, <1>4, <2>1, <2>2, <3>1, SizeOfListing DEF Undisturbed, Emptied, Loading, Searching, Whole
    <3> QED BY <1>2, <1>3, <2>2, <3>2 DEF Undisturbed, Loading, Begins
  <2>3. CASE d # c
    <3>1. ~ AtWorkOn(call[d])
      BY <2>1, <2>3 DEF Truncate, Disturbs, Working, AtWorkOn
    <3> QED BY <1>3, <2>1, <2>3, <3>1 DEF Undisturbed, AtWorkOn
  <2> QED BY <2>2, <2>3
<1> QED BY <1>7, <1>8, <1>9, <1>10, <1>11 DEF CatalogIInv

\* A row that is scanned is in the list, and only once; what is in it stays.
LEMMA ScanStep ==
  ASSUME CatalogIInv, NEW c \in Callers, Scan(c)
  PROVE  CatalogIInv'
<1>1. call[c].stage = "rows" /\ mutex = c
  BY DEF Scan, CatalogIInv, CatalogTypeOK
<1>2. PICK p \in rows : rows' = rows \ {p} /\ array' = [array EXCEPT ![length + 1] = p]
  BY DEF Scan
<1>3. /\ length' = length + 1
      /\ UNCHANGED <<source, reloadCatalog, process, mutex, call, disturbed, mixed>>
  BY DEF Scan, ghosts
<1>4. /\ array \in [1 .. Size -> Products] /\ length \in 0 .. Size /\ rows \subseteq Products
      /\ source = "alloydb"
      /\ Cardinality(rows) + length = Size
      /\ \A i, j \in 1 .. length : array[i] \notin rows /\ (array[i] = array[j] => i = j)
  BY <1>1 DEF CatalogIInv, CatalogTypeOK, Loads
<1>5. IsFiniteSet(rows) /\ Cardinality(rows) \in Nat
  BY <1>4, ProductsAreFinite, FS_Subset, FS_CardinalityType
<1>6. Cardinality(rows') = Cardinality(rows) - 1 /\ Cardinality(rows) # 0
  BY <1>2, <1>5, FS_RemoveElement, FS_EmptySet
<1>7. length + 1 \in 1 .. Size /\ length # Size /\ Cardinality(rows') + length' = Size
  BY <1>3, <1>4, <1>5, <1>6, SizeOfListing
<1>8. array' \in [1 .. Size -> Products] /\ rows' \subseteq Products /\ length' \in 0 .. Size
  BY <1>2, <1>3, <1>4, <1>7
<1>9. CatalogTypeOK'
  BY <1>3, <1>8 DEF CatalogIInv, CatalogTypeOK
<1>10. ASSUME NEW i \in 1 .. length', NEW j \in 1 .. length'
       PROVE  array'[i] \notin rows' /\ (array'[i] = array'[j] => i = j)
  <2>1. i \in 1 .. Size /\ j \in 1 .. Size
    BY <1>3, <1>4, <1>7, SizeOfListing
  <2>2. i # length + 1 => i \in 1 .. length
    BY <1>3, <1>4
  <2>3. j # length + 1 => j \in 1 .. length
    BY <1>3, <1>4
  <2>4. array'[i] = (IF i = length + 1 THEN p ELSE array[i])
    BY <1>2, <1>4, <2>1
  <2>5. array'[j] = (IF j = length + 1 THEN p ELSE array[j])
    BY <1>2, <1>4, <2>1
  <2> QED BY <1>2, <1>4, <2>2, <2>3, <2>4, <2>5
<1>11. Loads'
  BY <1>1, <1>3, <1>4, <1>7, <1>10 DEF CatalogIInv, Loads, AtWorkOn
<1>12. \A d \in Callers : Fits(call[d])'
  BY <1>3, <1>4 DEF CatalogIInv, Fits, AtWorkOn
<1>13. ASSUME NEW d \in Watched \ mixed' PROVE Unmixed(call[d])'
  <2>1. d \in Callers /\ Unmixed(call[d])
    BY <1>3, CatalogAssumption DEF CatalogIInv
  <2>2. call[d].index \in 0 .. Size /\ Size \in Nat
    BY <2>1, SizeOfListing DEF CatalogIInv, CatalogTypeOK, CallType
  <2>3. call[d].index < length =>
          call[d].index < length' /\ array'[call[d].index + 1] = array[call[d].index + 1]
    BY <1>2, <1>3, <1>4, <1>7, <2>2
  <2> QED BY <1>3, <1>4, <2>1, <2>3 DEF Unmixed, AtWorkOn
<1>14. ASSUME NEW d \in Watched \ disturbed' PROVE Undisturbed(call[d])'
  <2>1. d \in Callers /\ Undisturbed(call[d])
    BY <1>3, CatalogAssumption DEF CatalogIInv
  <2>2. AtWorkOn(call[d]) => Loading(call[d])
    BY <1>1, <1>4, <1>7, <2>1 DEF Undisturbed, Emptied, Searching, Whole
  <2> QED BY <1>3, <2>1, <2>2 DEF Undisturbed, AtWorkOn, Loading, Begins
<1> QED BY <1>9, <1>11, <1>12, <1>13, <1>14 DEF CatalogIInv

\* A step of the catalog or of one of its callers.
CatalogStep ==
  \/ CatalogNext
  \/ \E c \in Callers, p \in Products \cup {NONE} : Ask(c, p)
  \/ \E c \in Callers : Forget(c)
  \/ UNCHANGED catalogVars

LEMMA CatalogStepInv ==
  ASSUME CatalogIInv, CatalogStep
  PROVE  CatalogIInv'
<1>1. CASE Start
  BY <1>1, StartStep
<1>2. CASE Die
  BY <1>2, ExitStep DEF Die, ghosts, CatalogIInv, CatalogTypeOK
<1>3. CASE Signal \/ UNCHANGED catalogVars
  BY <1>3, SignalStep
<1>4. ASSUME NEW c \in Callers, Lock(c) \/ Serve(c) PROVE CatalogIInv'
  BY <1>4, LockStep, CheckStep, LoadFailsStep, LoadFileStep, TruncateStep, ScanStep, ScanEndsStep,
     ReturnStep, CompareStep, TakeStep, SendStep DEF Serve, ParseCatalog
<1>5. ASSUME NEW c \in Callers, NEW p \in Products \cup {NONE}, Ask(c, p) PROVE CatalogIInv'
  BY <1>5, AskStep
<1>6. ASSUME NEW c \in Callers, Forget(c) PROVE CatalogIInv'
  BY <1>6, ForgetStep
<1> QED BY <1>1, <1>2, <1>3, <1>4, <1>5, <1>6 DEF CatalogStep, CatalogNext

LEMMA CatalogInitInv ==
  CatalogInit => CatalogIInv
<1> SUFFICES ASSUME CatalogInit PROVE CatalogIInv
  OBVIOUS
<1>1. \A c \in Callers : call[c] = NoCall
  BY DEF CatalogInit
<1>2. CatalogTypeOK
  <2>1. call \in [Callers -> CallType]
    BY NoCallFits DEF CatalogInit
  <2>2. \A c \in Callers : call[c].stage = "idle" /\ mutex # c
    BY <1>1, CatalogAssumption DEF CatalogInit, NoCall
  <2>3. reloadCatalog \in BOOLEAN
    BY DEF CatalogInit
  <2>4. array \in [1 .. Size -> Products] /\ length \in 0 .. Size
    BY SizeOfListing DEF CatalogInit
  <2>5. /\ source \in {"file", "alloydb"}
        /\ process \in {"up", "stopped", "panicked"} /\ mutex \in Callers \cup {NONE}
        /\ rows \subseteq Products /\ disturbed \subseteq Watched /\ mixed \subseteq Watched
    BY DEF CatalogInit
  <2>6. \A c \in Callers : call[c].stage \in {"query", "rows"} <=> mutex = c
    BY <2>2
  <2> QED BY <2>1, <2>3, <2>4, <2>5, <2>6 DEF CatalogTypeOK
<1>3. Loads
  BY <1>1, NoCallFits DEF CatalogInit, Loads, AtWorkOn, NoCall
<1>4. \A c \in Callers : Fits(call[c]) /\ Unmixed(call[c]) /\ Undisturbed(call[c])
  BY <1>1, NoCallFits
<1> QED BY <1>2, <1>3, <1>4, CatalogAssumption DEF CatalogIInv

----------------------------------------------------------------------------
(* The inductive invariant of the storefront. *)

Handlers == {"home", "setCurrency", "product", "addToCart", "viewCart", "placeOrder"}
RequestType ==
  {r \in [to : Handlers, of : PRODUCTS \cup {NONE}] :
     r.to \in {"product", "addToCart"} => r.of \in PRODUCTS}
PageType ==
  [at : {"rest", "work"}, fetch : Seq(Products \cup {NONE}), found : Seq(Products),
   items : SUBSET Products, mixed : BOOLEAN, ad : {NoAd} \cup allAds]

\* The order is the last request of its task.
TodoOK ==
  /\ todo \in Seq(RequestType)
  /\ \A i \in 1 .. Len(todo) : todo[i].to = "placeOrder" => i = Len(todo)

\* What a request at work has asked and still asks for.
WorkOK ==
  /\ todo # <<>>
  /\ Len(page.fetch) + Len(page.found) <= Size
  /\ Request.to = "home" => page.fetch \in Seq({NONE}) /\ page.found = <<>>
  /\ Request.to # "home" => page.fetch \in Seq(Products)
  /\ Request.to \in {"product", "addToCart"} => Len(page.fetch) + Len(page.found) = 1
  /\ ~ page.mixed =>
       /\ Request.to = "addToCart" => ToSet(page.fetch) \cup ToSet(page.found) \subseteq {Request.of}
       /\ Request.to = "placeOrder" => ToSet(page.fetch) \cup ToSet(page.found) = page.items

PageOK ==
  /\ page \in PageType
  /\ page.at = "rest" => page.fetch = <<>> /\ page.found = <<>>
  /\ AtWork => WorkOK
  /\ call[Shopper].stage # "idle" => AtWork /\ page.fetch # <<>>
  /\ call[Shopper].stage \notin {"idle", "Unavailable"} => call[Shopper].asked = Head(page.fetch)

\* What a task put into the cart stays there until it is ordered, and what the
\* order read in the cart has it too.
CartOK ==
  /\ tool \in {"k6", "locust"} /\ emptying \in BOOLEAN
  /\ cart \subseteq Products /\ put \subseteq Products
  /\ todo # <<>> => put \subseteq cart
  /\ AtWork /\ Request.to = "placeOrder" => put \subseteq page.items

StorefrontIInv == CatalogIInv /\ OthersList /\ TodoOK /\ PageOK /\ CartOK

----------------------------------------------------------------------------
(* The tasks. *)

TaskNames == {"index", "setCurrency", "browseProduct", "addToCart", "viewCart", "checkout"}

LEMMA TasksAre ==
  /\ Len(TASKS) = 6 /\ DOMAIN TASKS = 1 .. 6
  /\ \A i \in 1 .. 6 : TASKS[i].fn \in TaskNames
  /\ TASKS[1].weight = 1 /\ TASKS[2].weight = 2 /\ TASKS[3].weight = 10
  /\ TASKS[4].weight = 2 /\ TASKS[5].weight = 3 /\ TASKS[6].weight = 1
<1>1. Len(TASKS) = 6 /\ DOMAIN TASKS = 1 .. 6
  BY DEF TASKS
<1>2. /\ TASKS[1] = [fn |-> "index", weight |-> 1] /\ TASKS[2] = [fn |-> "setCurrency", weight |-> 2]
      /\ TASKS[3] = [fn |-> "browseProduct", weight |-> 10]
      /\ TASKS[4] = [fn |-> "addToCart", weight |-> 2] /\ TASKS[5] = [fn |-> "viewCart", weight |-> 3]
      /\ TASKS[6] = [fn |-> "checkout", weight |-> 1]
  BY DEF TASKS
<1>3. \A i \in 1 .. 6 : i = 1 \/ i = 2 \/ i = 3 \/ i = 4 \/ i = 5 \/ i = 6
  OBVIOUS
<1> QED BY <1>1, <1>2, <1>3 DEF TaskNames

LEMMA Weights ==
  /\ Weight[0] = 0 /\ Weight[1] = 1 /\ Weight[2] = 3 /\ Weight[3] = 13
  /\ Weight[4] = 15 /\ Weight[5] = 18 /\ Weight[6] = 19
<1> DEFINE Weighs(W) == W = [i \in 0 .. Len(TASKS) |-> IF i = 0 THEN 0 ELSE W[i - 1] + TASKS[i].weight]
           W0 == [i \in 0 .. 6 |-> IF i = 0 THEN 0 ELSE IF i = 1 THEN 1 ELSE IF i = 2 THEN 3
                                   ELSE IF i = 3 THEN 13 ELSE IF i = 4 THEN 15
                                   ELSE IF i = 5 THEN 18 ELSE 19]
<1>1. \A i \in 0 .. 6 : i = 0 \/ i = 1 \/ i = 2 \/ i = 3 \/ i = 4 \/ i = 5 \/ i = 6
  OBVIOUS
<1>2. Weighs(W0)
  <2>1. /\ W0[0] = 0 /\ W0[1] = 1 /\ W0[2] = 3 /\ W0[3] = 13 /\ W0[4] = 15
        /\ W0[5] = 18 /\ W0[6] = 19 /\ W0 = [i \in 0 .. 6 |-> W0[i]]
    OBVIOUS
  <2> HIDE DEF W0
  <2>2. \A i \in 0 .. 6 : W0[i] = IF i = 0 THEN 0 ELSE W0[i - 1] + TASKS[i].weight
    BY <1>1, <2>1, TasksAre
  <2> QED BY <2>1, <2>2, TasksAre
<1>3. Weight = CHOOSE W : Weighs(W)
  BY DEF Weight
<1>4. Weighs(Weight)
  <2> HIDE DEF Weighs, W0
  <2> QED BY <1>2, <1>3
<1>5. \A i \in 0 .. 6 : Weight[i] = IF i = 0 THEN 0 ELSE Weight[i - 1] + TASKS[i].weight
  BY <1>4, TasksAre
<1> HIDE DEF Weighs, W0
<1>6. Weight[0] = 0
  BY <1>5
<1>7. /\ Weight[1] = Weight[0] + 1 /\ Weight[2] = Weight[1] + 2 /\ Weight[3] = Weight[2] + 10
      /\ Weight[4] = Weight[3] + 2 /\ Weight[5] = Weight[4] + 3 /\ Weight[6] = Weight[5] + 1
  BY <1>5, TasksAre
<1> QED BY <1>6, <1>7

\* Each random number picks a task.
LEMMA PickedTasks ==
  Picked \subseteq TaskNames
<1> SUFFICES ASSUME NEW rand \in 0 .. Weight[Len(TASKS)] - 1 PROVE pickTask(rand) \in TaskNames
  BY DEF Picked
<1>1. rand \in 0 .. 18
  BY Weights, TasksAre
<1>2. \E i \in 1 .. 6 : Weight[i - 1] <= rand /\ rand < Weight[i]
  <2>1. \/ rand < Weight[1]
        \/ Weight[1] <= rand /\ rand < Weight[2]
        \/ Weight[2] <= rand /\ rand < Weight[3]
        \/ Weight[3] <= rand /\ rand < Weight[4]
        \/ Weight[4] <= rand /\ rand < Weight[5]
        \/ Weight[5] <= rand /\ rand < Weight[6]
    BY <1>1, Weights
  <2>2. Weight[0] <= rand
    BY <1>1, Weights
  <2>3. /\ 1 - 1 = 0 /\ 2 - 1 = 1 /\ 3 - 1 = 2 /\ 4 - 1 = 3 /\ 5 - 1 = 4 /\ 6 - 1 = 5
        /\ 1 \in 1 .. 6 /\ 2 \in 1 .. 6 /\ 3 \in 1 .. 6 /\ 4 \in 1 .. 6 /\ 5 \in 1 .. 6 /\ 6 \in 1 .. 6
    OBVIOUS
  <2> QED BY <2>1, <2>2, <2>3
<1> DEFINE i == CHOOSE i \in DOMAIN TASKS : Weight[i - 1] <= rand /\ rand < Weight[i]
<1>3. i \in 1 .. 6
  BY <1>2, TasksAre
<1> QED BY <1>3, TasksAre DEF pickTask

\* A task is made of requests, and orders last.
LEMMA RequestsOfTasks ==
  ASSUME NEW fn \in TaskNames, NEW p \in PRODUCTS
  PROVE  /\ Requests(fn, p) \in Seq(RequestType)
         /\ \A i \in 1 .. Len(Requests(fn, p)) :
              Requests(fn, p)[i].to = "placeOrder" => i = Len(Requests(fn, p))
<1>1. \A h \in {"home", "setCurrency", "viewCart", "placeOrder"} :
        To(h) \in RequestType /\ To(h).to = h
  BY DEF To, RequestType, Handlers
<1> DEFINE rp == [to |-> "product", of |-> p]
           ra == [to |-> "addToCart", of |-> p]
<1>2. rp \in RequestType /\ ra \in RequestType /\ rp.to = "product" /\ ra.to = "addToCart"
  BY DEF RequestType, Handlers
<1> HIDE DEF rp, ra
<1> DEFINE t == Requests(fn, p)
<1>3. ASSUME NEW r \in RequestType, r.to # "placeOrder", t = <<r>>
      PROVE  /\ t \in Seq(RequestType)
             /\ \A i \in 1 .. Len(t) : t[i].to # "placeOrder"
  BY <1>3
<1>4. CASE fn = "index"
  BY <1>1, <1>3, <1>4 DEF Requests, index
<1>5. CASE fn = "setCurrency"
  BY <1>1, <1>3, <1>5 DEF Requests, setCurrency
<1>6. CASE fn = "viewCart"
  BY <1>1, <1>3, <1>6 DEF Requests, viewCart
<1>7. CASE fn = "browseProduct"
  BY <1>2, <1>3, <1>7 DEF Requests, browseProduct, rp
<1>8. addToCart(p) = <<rp, ra>>
  BY DEF addToCart, rp, ra
<1>9. CASE fn = "addToCart"
  <2>1. t = <<rp, ra>>
    BY <1>8, <1>9 DEF Requests
  <2>2. t \in Seq(RequestType) /\ Len(t) = 2 /\ t[1] = rp /\ t[2] = ra
    BY <1>2, <2>1
  <2> QED BY <1>2, <2>2
<1>10. CASE fn = "checkout"
  <2> DEFINE ro == To("placeOrder")
  <2>1. t = <<rp, ra>> \o <<ro>>
    BY <1>8, <1>10 DEF Requests, checkout
  <2>2. ro \in RequestType /\ ro.to = "placeOrder"
    BY <1>1
  <2> HIDE DEF ro
  <2>3. /\ <<rp, ra>> \in Seq(RequestType) /\ Len(<<rp, ra>>) = 2
        /\ <<ro>> \in Seq(RequestType) /\ Len(<<ro>>) = 1
        /\ <<rp, ra>>[2] = ra /\ <<rp, ra>>[1] = rp /\ <<ro>>[1] = ro
    BY <1>2, <2>2
  <2>4. /\ t \in Seq(RequestType) /\ Len(t) = 3
        /\ \A i \in 1 .. 3 : t[i] = IF i <= 2 THEN <<rp, ra>>[i] ELSE <<ro>>[i - 2]
    BY <2>1, <2>3, ConcatProperties
  <2>5. t[1] = rp /\ t[2] = ra /\ t[3] = ro
    BY <2>3, <2>4
  <2> QED BY <1>2, <2>2, <2>4, <2>5
<1> QED BY <1>4, <1>5, <1>6, <1>7, <1>9, <1>10 DEF TaskNames

LEMMA RequestIs ==
  ASSUME TodoOK, todo # <<>>
  PROVE  /\ Request \in RequestType /\ Request.to \in Handlers
         /\ Tail(todo) \in Seq(RequestType)
         /\ Request.to = "placeOrder" => Tail(todo) = <<>>
<1>1. /\ todo \in Seq(RequestType) /\ Len(todo) \in Nat \ {0} /\ Request = todo[1]
      /\ Request \in RequestType
      /\ Tail(todo) \in Seq(RequestType) /\ Len(Tail(todo)) = Len(todo) - 1
  BY HeadTailProperties, EmptySeq, LenProperties DEF TodoOK, Request
<1>2. Request.to = "placeOrder" => Len(todo) = 1
  <2>1. 1 \in 1 .. Len(todo)
    BY <1>1
  <2> QED BY <1>1, <2>1 DEF TodoOK
<1>3. ASSUME Len(todo) = 1 PROVE Tail(todo) = <<>>
  <2>1. Len(Tail(todo)) = 0
    BY <1>1, <1>3
  <2> QED BY <1>1, <2>1, EmptySeq
<1> QED BY <1>1, <1>2, <1>3 DEF RequestType

LEMMA TodoShortens ==
  ASSUME TodoOK, todo # <<>>, todo' = Tail(todo)
  PROVE  TodoOK'
<1>1. /\ todo \in Seq(RequestType) /\ Len(todo) \in Nat \ {0}
      /\ todo' \in Seq(RequestType) /\ Len(todo') = Len(todo) - 1
      /\ \A i \in 1 .. Len(todo') : todo'[i] = todo[i + 1]
  BY HeadTailProperties, EmptySeq, LenProperties DEF TodoOK
<1>2. ASSUME NEW i \in 1 .. Len(todo'), todo'[i].to = "placeOrder"
      PROVE  i = Len(todo')
  <2>1. i + 1 \in 1 .. Len(todo) /\ todo[i + 1].to = "placeOrder"
    BY <1>1, <1>2
  <2>2. i + 1 = Len(todo)
    BY <2>1 DEF TodoOK
  <2>3. i \in Int /\ i = (i + 1) - 1
    OBVIOUS
  <2> QED BY <1>1, <2>2, <2>3
<1> QED BY <1>1, <1>2 DEF TodoOK

LEMMA TodoRedirects ==
  ASSUME TodoOK, todo # <<>>, NEW h \in {"home", "viewCart"}, todo' = <<To(h)>> \o Tail(todo)
  PROVE  TodoOK'
<1>1. /\ todo \in Seq(RequestType) /\ Len(todo) \in Nat \ {0}
      /\ Tail(todo) \in Seq(RequestType) /\ Len(Tail(todo)) = Len(todo) - 1
      /\ \A i \in 1 .. Len(Tail(todo)) : Tail(todo)[i] = todo[i + 1]
  BY HeadTailProperties, EmptySeq, LenProperties DEF TodoOK
<1> DEFINE r == To(h)
<1>2. r \in RequestType /\ r.to = h
  BY DEF To, RequestType, Handlers
<1> HIDE DEF r
<1>3. <<r>> \in Seq(RequestType) /\ Len(<<r>>) = 1 /\ <<r>>[1] = r
  BY <1>2
<1>4. /\ todo' \in Seq(RequestType) /\ Len(todo') = Len(todo)
      /\ \A i \in 1 .. Len(todo) : todo'[i] = IF i <= 1 THEN <<r>>[i] ELSE Tail(todo)[i - 1]
  <2>1. todo' = <<r>> \o Tail(todo)
    BY DEF r
  <2> QED BY <1>1, <1>3, <2>1, ConcatProperties
<1>5. todo'[1] = r /\ \A i \in 2 .. Len(todo) : todo'[i] = todo[i]
  BY <1>1, <1>3, <1>4
<1>6. ASSUME NEW i \in 1 .. Len(todo'), todo'[i].to = "placeOrder"
      PROVE  i = Len(todo')
  <2>1. i \in 2 .. Len(todo) /\ i \in 1 .. Len(todo) /\ todo[i].to = "placeOrder"
    BY <1>1, <1>2, <1>4, <1>5, <1>6
  <2> QED BY <1>4, <2>1 DEF TodoOK
<1> QED BY <1>4, <1>6 DEF TodoOK

----------------------------------------------------------------------------
(* The calls of the user and of others. *)

\* A step of the catalog answers what was asked, and asks nothing.
LEMMA CallsStay ==
  ASSUME CatalogIInv, CatalogNext, NEW d \in Callers
  PROVE  /\ call[d].stage = "idle" => call'[d].stage = "idle"
         /\ call'[d].stage \notin {"idle", "Unavailable"} =>
              call[d].stage \notin {"idle", "Unavailable"} /\ call'[d].asked = call[d].asked
         /\ call[d].use = "list" => call'[d].use = "list"
<1> DEFINE Stays ==
      /\ call[d].stage = "idle" => call'[d].stage = "idle"
      /\ call'[d].stage \notin {"idle", "Unavailable"} =>
           call[d].stage \notin {"idle", "Unavailable"} /\ call'[d].asked = call[d].asked
      /\ call[d].use = "list" => call'[d].use = "list"
<1>1. /\ call \in [Callers -> CallType] /\ call[d] \in CallType /\ CatalogTypeOK /\ Loads
  BY DEF CatalogIInv, CatalogTypeOK
<1>2. ASSUME UNCHANGED call PROVE Stays
  BY <1>2
<1>3. ASSUME NEW why, Exit(why) PROVE Stays
  BY <1>3 DEF Exit, Over, NoCall, Working, Ended
<1>4. ASSUME NEW c \in Callers, NEW k \in CallType, AtWorkOn(call[c]),
             call' = [call EXCEPT ![c] = k],
             k.stage # "idle" => k.asked = call[c].asked,
             call[c].use = "list" => k.use = "list"
      PROVE  Stays
  BY <1>1, <1>4 DEF AtWorkOn, Ended
<1>5. ASSUME NEW c \in Callers, AtWorkOn(call[c]), NEW list \in {<<>>, Listed}, Returns(c, list)
      PROVE  Stays
  <2>1. Fits(call[c]) /\ process = "up"
    BY <1>5 DEF CatalogIInv, Loads
  <2>2. PICK k \in CallType :
          /\ call' = [call EXCEPT ![c] = k]
          /\ call[c].use = "list" => k.use = "list"
          /\ k.stage # "idle" => k.asked = call[c].asked
    BY <1>1, <1>5, <2>1, ReturnsFits
  <2> QED BY <1>4, <1>5, <2>2
<1>6. ASSUME NEW c \in Callers, AtWorkOn(call[c]),
             NEW s \in {"lock", "query", "rows", "return"}, Goto(c, s)
      PROVE  Stays
  <2>1. PICK k \in CallType :
          call' = [call EXCEPT ![c] = k] /\ k.asked = call[c].asked /\ k.use = call[c].use
    BY <1>6, GotoMoves
  <2> QED BY <1>4, <1>6, <2>1
<1>7. ASSUME NEW c \in Callers, Lock(c) \/ Check(c) \/ LoadFile(c) \/ Truncate(c) \/ ScanEnds(c)
      PROVE  Stays
  <2>1. AtWorkOn(call[c])
    BY <1>7 DEF Lock, Check, LoadFile, Truncate, ScanEnds, AtWorkOn, Ended
  <2>2. \E s \in {"lock", "query", "rows", "return"} : Goto(c, s)
    BY <1>7 DEF Lock, Check, LoadFile, Truncate, ScanEnds
  <2> QED BY <1>6, <2>1, <2>2
<1>8. ASSUME NEW c \in Callers, LoadFails(c) \/ Return(c) PROVE Stays
  <2>1. AtWorkOn(call[c])
    BY <1>8 DEF LoadFails, Return, AtWorkOn, Ended
  <2>2. \E list \in {<<>>, Listed} : Returns(c, list) \/ Panics(c, list)
    BY <1>8 DEF LoadFails, Return
  <2> QED BY <1>3, <1>5, <2>1, <2>2 DEF Panics
<1>9. ASSUME NEW c \in Callers, Compare(c) \/ Take(c) PROVE Stays
  <2> DEFINE k0 == call[c]
  <2>1. k0 \in CallType /\ Fits(k0) /\ AtWorkOn(k0) /\ k0.stage = "element" /\ k0.use # "list"
    BY <1>9 DEF Compare, Take, AtWorkOn, Ended, CatalogIInv, CatalogTypeOK
  <2>2. /\ k0.asked # NONE /\ k0.index + 1 \in 0 .. Size
        /\ At(k0.list, k0.index + 1) \in Products \cup {NONE}
    BY <2>1, ElementAt
  <2>3. k0.index \in 0 .. Size /\ k0.found \in Products \cup {NONE}
    BY <2>1 DEF CallType
  <2>4. \E what \in {"length", "compare", "take"}, i \in 0 .. Size, p \in Products \cup {NONE} :
          Again(c, what, i, p)
    BY <1>9, <2>2, <2>3 DEF Compare, Take
  <2>5. PICK k \in CallType : call' = [call EXCEPT ![c] = k] /\ k.asked = call[c].asked
    BY <1>1, <2>2, <2>4, AgainMoves
  <2> QED BY <1>4, <2>1, <2>5
<1>10. ASSUME NEW c \in Callers, Send(c) PROVE Stays
  <2>1. AtWorkOn(call[c])
    BY <1>10 DEF Send, AtWorkOn, Ended
  <2>2. PICK k \in CallType :
          /\ call' = [call EXCEPT ![c] = k]
          /\ k.use = "list" /\ (k.stage # "idle" => k.asked = call[c].asked)
    BY <1>10, SendMoves
  <2> QED BY <1>4, <2>1, <2>2
<1>11. ASSUME NEW c \in Callers, Scan(c) PROVE Stays
  BY <1>2, <1>11 DEF Scan
<1>12. Start \/ Die \/ Signal => Stays
  BY <1>2, <1>3 DEF Start, Die, Signal
<1> QED BY <1>7, <1>8, <1>9, <1>10, <1>11, <1>12 DEF CatalogNext, Serve, ParseCatalog

LEMMA AskedIs ==
  ASSUME CatalogIInv, NEW c \in Callers, NEW p \in Products \cup {NONE}, Ask(c, p)
  PROVE  /\ call' \in [Callers -> CallType]
         /\ \A d \in Callers \ {c} : call'[d] = call[d]
         /\ call'[c].stage \notin {"idle", "Unavailable"} => call'[c].asked = p
         /\ p = NONE => call'[c].use = "list"
<1> DEFINE k == call'[c]
<1>1. /\ call[c] = NoCall /\ call \in [Callers -> CallType]
  BY DEF Ask, CatalogIInv, CatalogTypeOK, Fits
<1>2. CASE process = "up"
  <2>1. call' = [call EXCEPT ![c].stage = "check", ![c].asked = p,
                             ![c].use = IF p = NONE THEN "list" ELSE "length"]
    BY <1>2 DEF Ask
  <2>2. call' \in [Callers -> CallType]
    BY AskStep DEF CatalogIInv, CatalogTypeOK
  <2>3. /\ \A d \in Callers \ {c} : call'[d] = call[d]
        /\ k.asked = p /\ k.use = IF p = NONE THEN "list" ELSE "length"
    BY <1>1, <2>1 DEF NoCall
  <2> QED BY <2>2, <2>3
<1>3. CASE process # "up"
  <2>1. call' = [call EXCEPT ![c] = Over(c, "Unavailable", <<>>)]
    BY <1>3 DEF Ask, Answers
  <2>2. /\ Over(c, "Unavailable", <<>>).stage \in {"idle", "Unavailable"}
        /\ Over(c, "Unavailable", <<>>).use = "list"
    BY DEF Over, NoCall
  <2> QED BY <1>1, <2>1, <2>2, AskStep DEF CatalogIInv, CatalogTypeOK
<1> QED BY <1>2, <1>3


----------------------------------------------------------------------------
(* The steps of the storefront keep the invariant. *)

LEMMA ShopperCalls ==
  Shopper \in Callers /\ Watched = {Shopper}
  BY CatalogAssumption, StorefrontAssumption

LEMMA NoPageIs ==
  /\ NoPage \in PageType
  /\ NoPage.at = "rest" /\ NoPage.fetch = <<>> /\ NoPage.found = <<>>
  /\ NoPage.items = {} /\ NoPage.mixed = FALSE /\ NoPage.ad = NoAd
<1>1. <<>> \in Seq(Products \cup {NONE}) /\ <<>> \in Seq(Products)
  BY EmptySeq
<1> QED BY <1>1 DEF NoPage, PageType

\* A request that is answered leaves nothing of its page but the ad.
LEMMA ReplyStep ==
  ASSUME TodoOK, todo # <<>>, NEW ad \in {NoAd} \cup allAds, Reply(ad),
         call'[Shopper].stage = "idle"
  PROVE  TodoOK' /\ PageOK' /\ page'.at = "rest" /\ page'.ad = ad
<1>1. TodoOK'
  BY TodoShortens DEF Reply
<1>2. /\ page' \in PageType /\ page'.at = "rest" /\ page'.fetch = <<>>
      /\ page'.found = <<>> /\ page'.ad = ad
  BY NoPageIs DEF Reply, PageType, NoPage
<1> QED BY <1>1, <1>2 DEF PageOK, AtWork

LEMMA EmptyPageStep ==
  ASSUME page' = NoPage, call'[Shopper].stage = "idle"
  PROVE  PageOK'
  BY NoPageIs DEF PageOK, AtWork

\* The cart of a request that ends without having changed it.
LEMMA CartStays ==
  ASSUME CartOK, todo # <<>>, UNCHANGED <<tool, cart, emptying, put>>, page'.at = "rest"
  PROVE  CartOK'
  BY DEF CartOK, AtWork

LEMMA IterateStep ==
  ASSUME StorefrontIInv, NEW fn \in TaskNames, Iterate(fn)
  PROVE  TodoOK' /\ PageOK' /\ CartOK'
<1>1. PICK p \in PRODUCTS : todo' = Requests(fn, p)
  BY DEF Iterate
<1>2. TodoOK'
  BY <1>1, RequestsOfTasks DEF TodoOK
<1>3. call'[Shopper].stage = "idle" /\ page' = NoPage
  BY DEF Iterate, StorefrontIInv, PageOK, WorkOK, catalogVars
<1>4. CartOK'
  <2>1. /\ tool' = tool /\ put' = {} /\ page'.at = "rest"
        /\ cart' \in {{}, cart} /\ emptying' \in {FALSE, emptying}
    BY <1>3, NoPageIs DEF Iterate
  <2> QED BY <2>1 DEF StorefrontIInv, CartOK, AtWork
<1> QED BY <1>2, <1>3, <1>4, EmptyPageStep

\* What a request asks the catalog for: as many products as there are at most.
LEMMA FetchesFit ==
  ASSUME TodoOK, cart \subseteq Products, todo # <<>>
  PROVE  /\ Fetches \in Seq(Products \cup {NONE}) /\ Len(Fetches) <= Size
         /\ Request.to = "home" => Fetches \in Seq({NONE})
         /\ Request.to # "home" => Fetches \in Seq(Products)
         /\ Request.to \in {"product", "addToCart"} =>
              Len(Fetches) = 1 /\ ToSet(Fetches) = {Request.of}
         /\ Request.to = "placeOrder" => ToSet(Fetches) = cart
<1>1. Request \in RequestType /\ Request.to \in Handlers
  BY RequestIs
<1>2. PRODUCTS \subseteq Products
  BY StorefrontAssumption
<1>3. CASE Request.to = "home"
  <2>1. Fetches = <<NONE>>
    BY <1>3 DEF Fetches
  <2>2. <<NONE>> \in Seq({NONE}) /\ <<NONE>> \in Seq(Products \cup {NONE}) /\ Len(<<NONE>>) = 1
    OBVIOUS
  <2> QED BY <1>3, <2>1, <2>2, SizeOfListing
<1>4. CASE Request.to \in {"product", "addToCart"}
  <2>1. Fetches = <<Request.of>> /\ Request.of \in PRODUCTS
    BY <1>1, <1>4 DEF Fetches, RequestType
  <2> DEFINE p == Request.of
  <2>2. p \in Products
    BY <1>2, <2>1
  <2> HIDE DEF p
  <2>3. <<p>> \in Seq(Products) /\ <<p>> \in Seq(Products \cup {NONE}) /\ Len(<<p>>) = 1
    BY <2>2
  <2>4. ToSet(<<p>>) = {p}
    BY ElementsOfOne
  <2>5. Fetches = <<p>> /\ Request.of = p
    BY <2>1 DEF p
  <2> QED BY <1>4, <2>3, <2>4, <2>5, SizeOfListing
<1>5. CASE Request.to \in {"viewCart", "placeOrder"}
  <2>1. Fetches = SetToSeq(cart)
    BY <1>5 DEF Fetches
  <2>2. /\ SetToSeq(cart) \in Seq(cart) /\ Len(SetToSeq(cart)) <= Size
        /\ ToSet(SetToSeq(cart)) = cart
    BY SequenceOfSet
  <2>3. SetToSeq(cart) \in Seq(Products) /\ SetToSeq(cart) \in Seq(Products \cup {NONE})
    BY <2>2, SeqMonotonic
  <2> QED BY <1>5, <2>1, <2>2, <2>3
<1>6. CASE Request.to = "setCurrency"
  <2>1. Fetches = <<>>
    BY <1>6 DEF Fetches
  <2> QED BY <1>6, <2>1, SizeOfListing
<1> QED BY <1>1, <1>3, <1>4, <1>5, <1>6 DEF Handlers

LEMMA ReceiveStep ==
  ASSUME StorefrontIInv, Receive
  PROVE  TodoOK' /\ PageOK' /\ CartOK'
<1>1. /\ todo # <<>> /\ page.at = "rest" /\ call' = call
      /\ UNCHANGED <<tool, cart, emptying, put>>
  BY DEF Receive, catalogVars
<1>2. call[Shopper].stage = "idle"
  BY <1>1 DEF StorefrontIInv, PageOK, AtWork
<1>3. CASE Refused
  <2>1. Reply(NoAd)
    BY <1>3 DEF Receive
  <2>2. TodoOK' /\ PageOK' /\ page'.at = "rest"
    BY <1>1, <1>2, <2>1, ReplyStep DEF StorefrontIInv
  <2> QED BY <1>1, <2>2, CartStays DEF StorefrontIInv
<1>4. CASE ~ Refused
  <2> DEFINE f == Fetches
             items == IF Request.to = "placeOrder" THEN cart ELSE {}
  <2>1. page' = [NoPage EXCEPT !.at = "work", !.fetch = f, !.items = items] /\ todo' = todo
    BY <1>4 DEF Receive
  <2>2. TodoOK'
    BY <2>1 DEF StorefrontIInv, TodoOK
  <2>3. cart \subseteq Products /\ put \subseteq cart
    BY <1>1 DEF StorefrontIInv, CartOK
  <2>4. /\ f \in Seq(Products \cup {NONE}) /\ Len(f) <= Size
        /\ Request.to = "home" => f \in Seq({NONE})
        /\ Request.to # "home" => f \in Seq(Products)
        /\ Request.to \in {"product", "addToCart"} => Len(f) = 1 /\ ToSet(f) = {Request.of}
        /\ Request.to = "placeOrder" => ToSet(f) = cart
    BY <1>1, <2>3, FetchesFit DEF StorefrontIInv
  <2>5. /\ items \in SUBSET Products
        /\ Request.to = "placeOrder" => items = cart
    BY <2>3
  <2> HIDE DEF f, items
  <2>6. /\ page'.at = "work" /\ page'.fetch = f /\ page'.found = <<>>
        /\ page'.items = items /\ page'.mixed = FALSE /\ page' \in PageType
    BY <2>1, <2>4, <2>5, NoPageIs DEF PageType, NoPage
  <2>7. Request' = Request
    BY <2>1 DEF Request
  <2>8. CartOK'
    BY <1>1, <2>1, <2>3, <2>5, <2>6, <2>7 DEF StorefrontIInv, CartOK
  <2>9. WorkOK'
    <3>1. Len(<<>>) = 0 /\ ToSet(<<>>) = {} /\ Len(f) \in Nat
      BY <2>4, ElementsOfOne, LenProperties
    <3>2. page'.found = <<>> /\ Len(page'.fetch) + Len(page'.found) = Len(f) /\ ToSet(page'.found) = {}
      BY <2>6, <3>1
    <3> QED BY <1>1, <2>1, <2>4, <2>5, <2>6, <2>7, <3>2 DEF WorkOK
  <2>10. PageOK'
    BY <1>1, <1>2, <2>6, <2>9 DEF PageOK
  <2> QED BY <2>2, <2>8, <2>10
<1> QED BY <1>3, <1>4

\* Steps after which the page and the task are as they were.
LEMMA PageStays ==
  ASSUME StorefrontIInv, UNCHANGED shopVars,
         call'[Shopper].stage # "idle" => AtWork /\ page.fetch # <<>>,
         call'[Shopper].stage \notin {"idle", "Unavailable"} =>
           call'[Shopper].asked = Head(page.fetch)
  PROVE  TodoOK' /\ PageOK' /\ CartOK'
<1>1. UNCHANGED <<tool, todo, page, cart, emptying, put>>
  BY DEF shopVars
<1>2. TodoOK'
  BY <1>1 DEF StorefrontIInv, TodoOK
<1>3. CartOK'
  BY <1>1 DEF StorefrontIInv, CartOK, AtWork, Request
<1>4. WorkOK => WorkOK'
  BY <1>1 DEF WorkOK, Request
<1>5. PageOK'
  BY <1>1, <1>4 DEF StorefrontIInv, PageOK, AtWork
<1> QED BY <1>2, <1>3, <1>5

\* What is asked next is a product of the catalog, or all of them.
LEMMA NextQuestion ==
  ASSUME StorefrontIInv, page.fetch # <<>>
  PROVE  Head(page.fetch) \in Products \cup {NONE}
  BY HeadTailProperties DEF StorefrontIInv, PageOK, PageType

LEMMA FetchStep ==
  ASSUME StorefrontIInv, Fetch
  PROVE  TodoOK' /\ PageOK' /\ CartOK'
<1>1. AtWork /\ page.fetch # <<>> /\ Ask(Shopper, Head(page.fetch)) /\ UNCHANGED shopVars
  BY DEF Fetch
<1>2. call'[Shopper].stage \notin {"idle", "Unavailable"} => call'[Shopper].asked = Head(page.fetch)
  BY <1>1, AskedIs, NextQuestion, ShopperCalls DEF StorefrontIInv
<1> QED BY <1>1, <1>2, PageStays

LEMMA RecommendStep ==
  ASSUME StorefrontIInv, NEW c \in Callers, Recommend(c)
  PROVE  TodoOK' /\ PageOK' /\ CartOK'
<1>1. c # Shopper /\ Ask(c, NONE) /\ UNCHANGED shopVars
  BY DEF Recommend
<1>2. call'[Shopper] = call[Shopper]
  BY <1>1, AskedIs, ShopperCalls DEF StorefrontIInv
<1> QED BY <1>1, <1>2, PageStays DEF StorefrontIInv, PageOK

LEMMA CatalogNextStep ==
  ASSUME StorefrontIInv, CatalogNext \/ UNCHANGED call, UNCHANGED shopVars
  PROVE  TodoOK' /\ PageOK' /\ CartOK'
<1>1. call'[Shopper].stage # "idle" => call[Shopper].stage # "idle"
  BY CallsStay, ShopperCalls DEF StorefrontIInv
<1>2. call'[Shopper].stage \notin {"idle", "Unavailable"} =>
        call[Shopper].stage \notin {"idle", "Unavailable"} /\ call'[Shopper].asked = call[Shopper].asked
  BY CallsStay, ShopperCalls DEF StorefrontIInv
<1> QED BY <1>1, <1>2, PageStays DEF StorefrontIInv, PageOK

\* The cart service empties the cart late.
LEMMA ServeEmptyStep ==
  ASSUME StorefrontIInv, ServeEmpty
  PROVE  TodoOK' /\ PageOK' /\ CartOK'
<1>1. /\ UNCHANGED <<todo, page, call, tool>> /\ cart' = {} /\ put' = {} /\ emptying' \in BOOLEAN
  BY DEF ServeEmpty, catalogVars
<1>2. TodoOK'
  BY <1>1 DEF StorefrontIInv, TodoOK
<1>3. WorkOK => WorkOK'
  BY <1>1 DEF WorkOK, Request
<1>4. PageOK'
  BY <1>1, <1>3 DEF StorefrontIInv, PageOK, AtWork
<1>5. CartOK'
  BY <1>1 DEF StorefrontIInv, CartOK
<1> QED BY <1>2, <1>4, <1>5

\* An answer is one product more for the request, the one it asked for if the list
\* stayed as it was, or, to a question for all of them, none; any other answer ends it.
LEMMA FetchedStep ==
  ASSUME StorefrontIInv, Fetched
  PROVE  TodoOK' /\ PageOK' /\ CartOK'
<1> DEFINE k == call[Shopper]
<1>1. /\ AtWork /\ WorkOK /\ k.stage \in Ended /\ Forget(Shopper) /\ todo # <<>>
      /\ UNCHANGED <<tool, cart, emptying, put>>
      /\ page \in PageType /\ k \in CallType /\ Fits(k)
  BY ShopperCalls
  DEF Fetched, Forget, StorefrontIInv, PageOK, WorkOK, CatalogIInv, CatalogTypeOK
<1>2. call'[Shopper].stage = "idle"
  BY <1>1, ShopperCalls DEF Forget, NoCall, StorefrontIInv, CatalogIInv, CatalogTypeOK
<1>3. CASE k.stage # "ok"
  <2>1. Reply(NoAd)
    BY <1>3 DEF Fetched
  <2>2. TodoOK' /\ PageOK' /\ page'.at = "rest"
    BY <1>1, <1>2, <2>1, ReplyStep DEF StorefrontIInv
  <2> QED BY <1>1, <2>2, CartStays DEF StorefrontIInv
<1>4. CASE k.stage = "ok"
  <2> DEFINE f == page.fetch
             g == page.found
             got == IF Head(f) = NONE THEN g ELSE g \o k.list
             mix == page.mixed \/ (Buys /\ Shopper \in mixed)
  <2>1. page' = [page EXCEPT !.fetch = Tail(f), !.found = got, !.mixed = mix] /\ UNCHANGED todo
    BY <1>4 DEF Fetched
  <2>2. /\ f \in Seq(Products \cup {NONE}) /\ g \in Seq(Products) /\ f # <<>>
        /\ k.asked = Head(f)
    BY <1>1, <1>4 DEF StorefrontIInv, PageOK, PageType
  <2>3. /\ Tail(f) \in Seq(Products \cup {NONE}) /\ Len(Tail(f)) = Len(f) - 1
        /\ Len(f) \in Nat \ {0} /\ Len(g) \in Nat
    BY <2>2, HeadTailProperties, EmptySeq, LenProperties
  <2>4. ToSet(f) = {Head(f)} \cup ToSet(Tail(f))
    BY <2>2, ElementsOfTail
  <2>5. mix \in BOOLEAN
    <3>1. page.mixed \in BOOLEAN
      BY <1>1 DEF PageType
    <3> QED BY <3>1, Zenon
  <2>6. ASSUME ~ mix, Request.to \in {"addToCart", "placeOrder"}, Head(f) # NONE
        PROVE  ~ page.mixed /\ k.list = <<Head(f)>>
    <3>1. Shopper \notin mixed /\ ~ page.mixed
      BY <2>6 DEF Buys
    <3>2. Unmixed(k)
      BY <3>1, ShopperCalls DEF StorefrontIInv, CatalogIInv
    <3> QED BY <1>4, <2>2, <2>6, <3>1, <3>2 DEF Unmixed
  <2> HIDE DEF mix
  <2>7. UNCHANGED <<todo, cart, put, tool, emptying>> /\ Request' = Request
    BY <1>1, <2>1 DEF Request
  <2>8. ASSUME got \in Seq(Products), Len(Tail(f)) + Len(got) <= Size,
               Request.to = "home" => Tail(f) \in Seq({NONE}) /\ got = <<>>,
               Request.to # "home" => Tail(f) \in Seq(Products),
               Request.to \in {"product", "addToCart"} => Len(Tail(f)) + Len(got) = 1,
               ~ mix =>
                 /\ Request.to = "addToCart" => ToSet(Tail(f)) \cup ToSet(got) \subseteq {Request.of}
                 /\ Request.to = "placeOrder" => ToSet(Tail(f)) \cup ToSet(got) = page.items
        PROVE  TodoOK' /\ PageOK' /\ CartOK'
    <3> HIDE DEF got
    <3>1. /\ page' \in PageType /\ page'.at = page.at /\ page'.items = page.items
          /\ page'.fetch = Tail(f) /\ page'.found = got /\ page'.mixed = mix
      BY <1>1, <2>1, <2>3, <2>5, <2>8 DEF PageType
    <3>2. WorkOK'
      BY <1>1, <2>7, <2>8, <3>1 DEF WorkOK
    <3>3. TodoOK'
      BY <2>7 DEF StorefrontIInv, TodoOK
    <3>4. PageOK'
      BY <1>1, <1>2, <3>1, <3>2 DEF PageOK, AtWork
    <3>5. CartOK'
      BY <1>1, <2>7, <3>1 DEF StorefrontIInv, CartOK, AtWork
    <3> QED BY <3>3, <3>4, <3>5
  <2>9. CASE Head(f) = NONE
    <3>1. got = g
      BY <2>9
    <3>2. Request.to = "home"
      <4>1. NONE \notin Products
        BY SizeOfListing
      <4>2. f \notin Seq(Products)
        BY <2>2, <2>9, <4>1, HeadTailProperties
      <4> QED BY <1>1, <4>2 DEF WorkOK
    <3>3. f \in Seq({NONE}) /\ Tail(f) \in Seq({NONE}) /\ g = <<>>
      BY <1>1, <2>2, <3>2, HeadTailProperties DEF WorkOK
    <3>4. Len(Tail(f)) + Len(g) <= Size
      <4>1. Len(f) + Len(g) <= Size
        BY <1>1 DEF WorkOK
      <4>2. \A a, b, n \in Nat : a + b <= n /\ a # 0 => (a - 1) + b <= n
        OBVIOUS
      <4> QED BY <2>3, <4>1, <4>2, SizeOfListing
    <3> HIDE DEF got
    <3> QED BY <2>2, <2>8, <3>1, <3>2, <3>3, <3>4
  <2>10. CASE Head(f) # NONE
    <3>1. PICK p \in Products : k.list = <<p>>
      BY <1>1, <1>4, <2>2, <2>10 DEF Fits
    <3>2. ~ mix /\ Request.to \in {"addToCart", "placeOrder"} => ~ page.mixed /\ p = Head(f)
      <4>1. \A e : <<p>> = <<e>> => p = e
        OBVIOUS
      <4> QED BY <2>6, <2>10, <3>1, <4>1
    <3>3. got = g \o <<p>>
      BY <2>10, <3>1
    <3>4. <<p>> \in Seq(Products) /\ Len(<<p>>) = 1 /\ ToSet(<<p>>) = {p}
      BY ElementsOfOne
    <3>5. /\ got \in Seq(Products) /\ Len(got) = Len(g) + 1
          /\ ToSet(got) = ToSet(g) \cup {p}
      <4> DEFINE one == <<p>>
      <4>1. one \in Seq(Products) /\ Len(one) = 1 /\ ToSet(one) = {p} /\ got = g \o one
        BY <3>3, <3>4
      <4> HIDE DEF one, got
      <4>2. g \o one \in Seq(Products) /\ Len(g \o one) = Len(g) + Len(one)
        BY <2>2, <4>1, ConcatProperties
      <4>3. ToSet(g \o one) = ToSet(g) \cup ToSet(one)
        BY <2>2, <4>1, ElementsOfConcat
      <4> QED BY <4>1, <4>2, <4>3
    <3> HIDE DEF got
    <3>6. Request.to # "home"
      <4>1. f \notin Seq({NONE})
        BY <2>2, <2>10, HeadTailProperties
      <4> QED BY <1>1, <4>1 DEF WorkOK
    <3>7. f \in Seq(Products) /\ Tail(f) \in Seq(Products)
      BY <1>1, <2>2, <3>6, HeadTailProperties DEF WorkOK
    <3>8. Len(Tail(f)) + Len(got) = Len(f) + Len(g)
      <4>1. \A a, b \in Nat : (a - 1) + (b + 1) = a + b
        OBVIOUS
      <4> QED BY <2>3, <3>5, <4>1
    <3>9. p = Head(f) => ToSet(Tail(f)) \cup ToSet(got) = ToSet(f) \cup ToSet(g)
      BY <2>4, <3>5
    <3>10. /\ Len(f) + Len(g) <= Size
           /\ Request.to \in {"product", "addToCart"} => Len(f) + Len(g) = 1
           /\ ~ page.mixed =>
                /\ Request.to = "addToCart" => ToSet(f) \cup ToSet(g) \subseteq {Request.of}
                /\ Request.to = "placeOrder" => ToSet(f) \cup ToSet(g) = page.items
      BY <1>1 DEF WorkOK
    <3> QED BY <2>8, <3>2, <3>5, <3>6, <3>7, <3>8, <3>9, <3>10
  <2> QED BY <2>9, <2>10
<1> QED BY <1>3, <1>4

LEMMA BackendFailsStep ==
  ASSUME StorefrontIInv, BackendFails
  PROVE  TodoOK' /\ PageOK' /\ CartOK'
<1>1. /\ todo # <<>> /\ Reply(NoAd) /\ call'[Shopper].stage = "idle"
      /\ UNCHANGED <<tool, cart, emptying, put>>
  BY DEF BackendFails, StorefrontIInv, PageOK, WorkOK, catalogVars
<1>2. TodoOK' /\ PageOK' /\ page'.at = "rest"
  BY <1>1, ReplyStep DEF StorefrontIInv
<1> QED BY <1>1, <1>2, CartStays DEF StorefrontIInv

\* The ads that are served: there is one at least, they are ads, and those of the
\* categories that were asked for if any of them has one.
LEMMA AdsFit ==
  ASSUME NEW keys, keys \in Seq(ToSet(keys)),
         NEW ads \in getAds(keys) \cup getAdsUncapped(keys)
  PROVE  /\ ads # <<>>
         /\ chooseAd(ads) \subseteq allAds
         /\ LET fitting == UNION {ToSet(AdsMap[k]) : k \in DOMAIN AdsMap \cap ToSet(keys)}
            IN fitting # {} => chooseAd(ads) \subseteq fitting
<1> DEFINE sel == Selected(keys)
           fitting == UNION {ToSet(AdsMap[k]) : k \in DOMAIN AdsMap \cap ToSet(keys)}
<1>1. sel \in Seq(allAds) /\ ToSet(sel) = fitting
  BY SelectedAreOfCategories
<1>2. Len(sel) \in Nat /\ DOMAIN sel = 1 .. Len(sel) /\ \A i \in 1 .. Len(sel) : sel[i] \in allAds
  BY <1>1, LenProperties, ElementOfSeq
<1> HIDE DEF sel, fitting
<1>3. ToSet(sel) \subseteq allAds
  BY <1>2 DEF ToSet
<1>4. CASE sel = <<>>
  <2>1. fitting = {}
    BY <1>1, <1>4, ElementsOfOne
  <2>2. ads \in getRandomAds(MaxAds)
    BY <1>4 DEF getAds, getAdsUncapped, sel
  <2>3. allAds # {}
    <3>1. PICK k \in DOMAIN AdsMap : TRUE
      BY AdsAssumption
    <3>2. AdsMap[k] \in Seq(ToSet(AdsMap[k])) /\ AdsMap[k] # <<>>
      BY AdsAssumption
    <3>3. Head(AdsMap[k]) \in ToSet(AdsMap[k])
      BY <3>2, HeadTailProperties
    <3> QED BY <3>3 DEF allAds
  <2>4. ads \in [1 .. 2 -> allAds]
    BY <2>2, <2>3 DEF getRandomAds, MaxAds
  <2>5. DOMAIN ads = 1 .. 2 /\ 1 \in 1 .. 2 /\ 1 \notin DOMAIN <<>>
    BY <2>4
  <2>6. ToSet(ads) \subseteq allAds
    BY <2>4 DEF ToSet
  <2> QED BY <2>1, <2>5, <2>6 DEF chooseAd, fitting
<1>5. CASE sel # <<>>
  <2>1. ads = sel \/ (Len(sel) > 2 /\ ads = SubSeq(sel, 1, 2))
    BY <1>5 DEF getAds, getAdsUncapped, MaxAds, sel
  <2>2. CASE ads = sel
    BY <1>1, <1>3, <1>5, <2>2 DEF chooseAd, fitting
  <2>3. CASE Len(sel) > 2 /\ ads = SubSeq(sel, 1, 2)
    <3>1. \A i \in 1 .. 2 : i \in DOMAIN sel /\ sel[i] \in allAds
      BY <1>2, <2>3
    <3>2. /\ ads \in Seq(allAds) /\ Len(ads) = 2
          /\ \A i \in 1 .. 2 : ads[i] = sel[i]
      BY <2>3, <3>1, SubSeqProperties
    <3>3. DOMAIN ads = 1 .. 2
      BY <3>2, LenProperties
    <3>4. ToSet(ads) \subseteq ToSet(sel)
      BY <3>1, <3>2, <3>3 DEF ToSet
    <3>5. ads # <<>>
      <4>1. 1 \in DOMAIN ads /\ 1 \notin DOMAIN <<>>
        BY <3>3
      <4> QED BY <4>1
    <3> QED BY <1>1, <1>3, <3>4, <3>5 DEF chooseAd, fitting
  <2> QED BY <2>1, <2>2, <2>3
<1> QED BY <1>4, <1>5

\* A page shows no ad or one that fits.
LEMMA PageShown ==
  ASSUME StorefrontIInv, ShowPage
  PROVE  \E ad \in {NoAd} \cup allAds :
           /\ Reply(ad)
           /\ ad # NoAd /\ page.found # <<>> /\ FittingAds # {} => ad \in FittingAds
<1> DEFINE keys == IF Request.to = "home" THEN <<>> ELSE Categories[page.found[1]]
<1>1. /\ AtWork /\ WorkOK /\ todo # <<>> /\ page.fetch = <<>> /\ Request.to \in {"home", "product"}
      /\ page \in PageType
  BY DEF ShowPage, HasAll, StorefrontIInv, PageOK, WorkOK
<1>2. keys \in Seq(ToSet(keys))
  <2>1. CASE Request.to = "home"
    <3>1. keys = <<>>
      BY <2>1
    <3> HIDE DEF keys
    <3>2. keys \in Seq(ToSet(keys))
      BY <3>1, EmptySeq
    <3> QED BY <3>2
  <2>2. CASE Request.to = "product"
    <3>1. page.found \in Seq(Products) /\ Len(page.found) \in Nat /\ Len(page.fetch) = 0
      BY <1>1, LenProperties DEF PageType
    <3>2. Len(page.found) = 1
      BY <1>1, <2>2, <3>1 DEF WorkOK
    <3>3. page.found[1] \in Products
      BY <3>1, <3>2, ElementOfSeq
    <3>4. keys = Categories[page.found[1]]
      BY <2>2
    <3> HIDE DEF keys
    <3> QED BY <3>3, <3>4, StorefrontAssumption
  <2> QED BY <1>1, <2>1, <2>2
<1>3. page.found # <<>> => keys = Categories[page.found[1]]
  BY <1>1 DEF WorkOK
<1>4. \/ \E ads \in getAds(keys) \cup getAdsUncapped(keys) :
           IF ads = <<>> THEN Reply(Aborted) ELSE \E ad \in chooseAd(ads) : Reply(ad)
      \/ Reply(NoAd)
  BY DEF ShowPage
<1> HIDE DEF keys
<1>5. CASE Reply(NoAd)
  BY <1>5
<1>6. ASSUME NEW ads \in getAds(keys) \cup getAdsUncapped(keys),
             IF ads = <<>> THEN Reply(Aborted) ELSE \E ad \in chooseAd(ads) : Reply(ad)
      PROVE  \E ad \in allAds :
               /\ Reply(ad)
               /\ page.found # <<>> /\ FittingAds # {} => ad \in FittingAds
  <2> DEFINE fitting == UNION {ToSet(AdsMap[k]) : k \in DOMAIN AdsMap \cap ToSet(keys)}
  <2>1. /\ ads # <<>> /\ chooseAd(ads) \subseteq allAds
        /\ fitting # {} => chooseAd(ads) \subseteq fitting
    BY <1>2, AdsFit
  <2>2. PICK ad \in chooseAd(ads) : Reply(ad)
    BY <1>6, <2>1
  <2>3. page.found # <<>> => FittingAds = fitting
    BY <1>3 DEF FittingAds
  <2> HIDE DEF fitting
  <2> QED BY <2>1, <2>2, <2>3
<1> QED BY <1>4, <1>5, <1>6

LEMMA ShowPageStep ==
  ASSUME StorefrontIInv, ShowPage
  PROVE  TodoOK' /\ PageOK' /\ CartOK'
<1>1. /\ todo # <<>> /\ call'[Shopper].stage = "idle" /\ UNCHANGED <<tool, cart, emptying, put>>
  BY DEF ShowPage, HasAll, StorefrontIInv, PageOK, WorkOK, catalogVars
<1>2. TodoOK' /\ PageOK' /\ page'.at = "rest"
  BY <1>1, PageShown, ReplyStep DEF StorefrontIInv
<1> QED BY <1>1, <1>2, CartStays DEF StorefrontIInv

LEMMA ShowCartStep ==
  ASSUME StorefrontIInv, ShowCart
  PROVE  TodoOK' /\ PageOK' /\ CartOK'
<1>1. /\ todo # <<>> /\ Reply(NoAd) /\ call'[Shopper].stage = "idle"
      /\ UNCHANGED <<tool, cart, emptying, put>>
  BY DEF ShowCart, HasAll, StorefrontIInv, PageOK, WorkOK, catalogVars
<1>2. TodoOK' /\ PageOK' /\ page'.at = "rest"
  BY <1>1, ReplyStep DEF StorefrontIInv
<1> QED BY <1>1, <1>2, CartStays DEF StorefrontIInv

LEMMA SetCurrencyStep ==
  ASSUME StorefrontIInv, SetCurrency
  PROVE  TodoOK' /\ PageOK' /\ CartOK'
<1>1. /\ todo # <<>> /\ Redirect("home") /\ call'[Shopper].stage = "idle"
      /\ UNCHANGED <<tool, cart, emptying, put>>
  BY DEF SetCurrency, HasAll, StorefrontIInv, PageOK, WorkOK, catalogVars
<1>2. TodoOK'
  BY <1>1, TodoRedirects DEF StorefrontIInv, Redirect
<1>3. PageOK' /\ page'.at = "rest"
  BY <1>1, EmptyPageStep, NoPageIs DEF Redirect
<1> QED BY <1>1, <1>2, <1>3, CartStays DEF StorefrontIInv

LEMMA InsertCartStep ==
  ASSUME StorefrontIInv, InsertCart
  PROVE  TodoOK' /\ PageOK' /\ CartOK'
<1> DEFINE got == ToSet(page.found)
<1>1. /\ todo # <<>> /\ page \in PageType /\ call'[Shopper].stage = "idle"
      /\ cart' = cart \cup got /\ put' \in {put, put \cup got} /\ UNCHANGED <<tool, emptying>>
      /\ cart \subseteq Products /\ put \subseteq cart
  BY DEF InsertCart, HasAll, StorefrontIInv, PageOK, WorkOK, CartOK, catalogVars
<1>2. got \subseteq Products
  <2>1. page.found \in Seq(Products)
    BY <1>1 DEF PageType
  <2> QED BY <2>1, ElementOfSeq, LenProperties DEF ToSet
<1>3. TodoOK' /\ PageOK' /\ page'.at = "rest"
  <2>1. CASE Redirect("viewCart")
    BY <1>1, <2>1, TodoRedirects, EmptyPageStep, NoPageIs DEF StorefrontIInv, Redirect
  <2>2. CASE Reply(NoAd)
    BY <1>1, <2>2, ReplyStep DEF StorefrontIInv
  <2> QED BY <2>1, <2>2 DEF InsertCart
<1> HIDE DEF got
<1>4. CartOK'
  BY <1>1, <1>2, <1>3 DEF StorefrontIInv, CartOK, AtWork
<1> QED BY <1>3, <1>4

\* An order is the last request of its task, so that nothing is waiting for what
\* is left in the cart.
LEMMA PlaceOrderStep ==
  ASSUME StorefrontIInv, PlaceOrder
  PROVE  TodoOK' /\ PageOK' /\ CartOK'
<1>1. /\ todo # <<>> /\ Request.to = "placeOrder" /\ Reply(NoAd) /\ call'[Shopper].stage = "idle"
      /\ cart' \in {{}, cart} /\ emptying' \in {emptying, TRUE} /\ UNCHANGED <<tool, put>>
  BY DEF PlaceOrder, HasAll, StorefrontIInv, PageOK, WorkOK, catalogVars
<1>2. TodoOK' /\ PageOK' /\ page'.at = "rest"
  BY <1>1, ReplyStep DEF StorefrontIInv
<1>3. todo' = <<>>
  BY <1>1, RequestIs DEF StorefrontIInv, Reply
<1>4. CartOK'
  BY <1>1, <1>2, <1>3 DEF StorefrontIInv, CartOK, AtWork
<1> QED BY <1>2, <1>4

\* What a step of the storefront does to the catalog.
LEMMA NextIsCatalogStep ==
  ASSUME StorefrontIInv, [Next]_vars
  PROVE  CatalogStep /\ OthersList'
<1>1. call \in [Callers -> CallType]
  BY DEF StorefrontIInv, CatalogIInv, CatalogTypeOK
<1>2. OthersList
  BY DEF StorefrontIInv
<1>3. CASE UNCHANGED catalogVars
  BY <1>2, <1>3 DEF CatalogStep, OthersList, catalogVars
<1>4. CASE CatalogNext
  <2>1. \A c \in Callers : call[c].use = "list" => call'[c].use = "list"
    BY <1>4, CallsStay DEF StorefrontIInv
  <2> QED BY <1>2, <1>4, <2>1 DEF CatalogStep, OthersList
<1>5. CASE Fetch
  <2>1. Ask(Shopper, Head(page.fetch)) /\ Head(page.fetch) \in Products \cup {NONE}
    BY <1>5, NextQuestion DEF Fetch
  <2>2. \A c \in Callers \ {Shopper} : call'[c] = call[c]
    BY <2>1, AskedIs, ShopperCalls DEF StorefrontIInv
  <2> QED BY <1>2, <2>1, <2>2, ShopperCalls DEF CatalogStep, OthersList
<1>6. CASE Fetched
  <2>1. Forget(Shopper)
    BY <1>6 DEF Fetched
  <2>2. \A c \in Callers \ {Shopper} : call'[c] = call[c]
    BY <1>1, <2>1 DEF Forget
  <2> QED BY <1>2, <2>1, <2>2, ShopperCalls DEF CatalogStep, OthersList
<1>7. ASSUME NEW c \in Callers, Recommend(c) PROVE CatalogStep /\ OthersList'
  <2>1. Ask(c, NONE)
    BY <1>7 DEF Recommend
  <2>2. call'[c].use = "list" /\ \A d \in Callers \ {c} : call'[d] = call[d]
    BY <2>1, AskedIs DEF StorefrontIInv
  <2> QED BY <1>2, <2>1, <2>2 DEF CatalogStep, OthersList
<1>8. UNCHANGED catalogVars \/ CatalogNext \/ Fetch \/ Fetched \/ \E c \in Callers : Recommend(c)
  BY DEF Next, Handle, Iterate, Receive, BackendFails, ShowPage, ShowCart, SetCurrency, InsertCart,
     PlaceOrder, ServeEmpty, vars
<1> QED BY <1>3, <1>4, <1>5, <1>6, <1>7, <1>8

LEMMA StorefrontInitInv ==
  Init => StorefrontIInv
<1> SUFFICES ASSUME Init PROVE StorefrontIInv
  OBVIOUS
<1>1. CatalogIInv
  BY CatalogInitInv DEF Init
<1>2. \A c \in Callers : call[c] = NoCall
  BY DEF Init, CatalogInit
<1>3. NoCall.stage = "idle" /\ NoCall.use = "list"
  BY DEF NoCall
<1>4. OthersList
  BY <1>2, <1>3 DEF OthersList
<1>5. TodoOK
  BY EmptySeq DEF Init, TodoOK
<1>6. PageOK
  BY <1>2, <1>3, ShopperCalls, NoPageIs DEF Init, PageOK, AtWork
<1>7. CartOK
  BY NoPageIs DEF Init, CartOK, AtWork
<1> QED BY <1>1, <1>4, <1>5, <1>6, <1>7 DEF StorefrontIInv

LEMMA StorefrontStepInv ==
  ASSUME StorefrontIInv, [Next]_vars
  PROVE  StorefrontIInv'
<1>1. CatalogIInv' /\ OthersList'
  BY NextIsCatalogStep, CatalogStepInv DEF StorefrontIInv
<1>2. ASSUME NEW fn \in Picked, Iterate(fn) PROVE TodoOK' /\ PageOK' /\ CartOK'
  BY <1>2, PickedTasks, IterateStep
<1>3. ASSUME Handle PROVE TodoOK' /\ PageOK' /\ CartOK'
  BY <1>3, ReceiveStep, FetchStep, FetchedStep, BackendFailsStep, ShowPageStep, ShowCartStep,
     SetCurrencyStep, InsertCartStep, PlaceOrderStep DEF Handle
<1>4. ASSUME NEW c \in Callers, Recommend(c) PROVE TodoOK' /\ PageOK' /\ CartOK'
  BY <1>4, RecommendStep
<1>5. ASSUME CatalogNext, UNCHANGED shopVars PROVE TodoOK' /\ PageOK' /\ CartOK'
  BY <1>5, CatalogNextStep
<1>6. ASSUME UNCHANGED vars PROVE TodoOK' /\ PageOK' /\ CartOK'
  BY <1>6, CatalogNextStep DEF vars, catalogVars
<1> QED BY <1>1, <1>2, <1>3, <1>4, <1>5, <1>6, ServeEmptyStep DEF Next, StorefrontIInv

----------------------------------------------------------------------------
(* The theorems. *)

\* The inductive invariant holds of every behaviour, for every number of callers
\* and every list, file, test, category and ad.
THEOREM StorefrontInductive ==
  Spec => []StorefrontIInv
<1>1. Init => StorefrontIInv
  BY StorefrontInitInv
<1>2. StorefrontIInv /\ [Next]_vars => StorefrontIInv'
  BY StorefrontStepInv
<1> QED BY <1>1, <1>2, PTL DEF Spec

\* Calls, lists, pages and carts keep their types: no index leaves the table, no
\* page holds more products than there are, and an answer is only had at work.
THEOREM StorefrontTypeCorrect ==
  Spec => []TypeOK
<1>1. StorefrontIInv => TypeOK
  <2> SUFFICES ASSUME StorefrontIInv PROVE TypeOK
    OBVIOUS
  <2>1. page \in PageType /\ CatalogTypeOK /\ CartOK /\ PageOK
    BY DEF StorefrontIInv, CatalogIInv, PageOK
  <2>2. todo = <<>> => page.at = "rest"
    BY <2>1 DEF PageOK, PageType, AtWork, WorkOK
  <2>3. Len(page.fetch) + Len(page.found) <= Size
    <3>1. CASE page.at = "rest"
      <4>1. page.fetch = <<>> /\ page.found = <<>> /\ Len(<<>>) = 0 /\ Len(<<>>) + Len(<<>>) = 0
        BY <2>1, <3>1 DEF PageOK
      <4> QED BY <4>1, SizeOfListing
    <3>2. CASE AtWork
      BY <2>1, <3>2 DEF PageOK, WorkOK
    <3> QED BY <2>1, <3>1, <3>2 DEF PageType, AtWork
  <2>4. page.at = "rest" => call[Shopper].stage = "idle"
    BY <2>1 DEF PageOK, AtWork
  <2>5. cart \cup put \cup page.items \subseteq Products
    BY <2>1 DEF PageType, CartOK
  <2> QED BY <2>1, <2>2, <2>3, <2>4, <2>5 DEF CartOK, TypeOK
<1> QED BY <1>1, StorefrontInductive, PTL

\* The answer of a call is an answer from one list, as long as nobody disturbed it.
LEMMA AnswersAreRight ==
  ASSUME StorefrontIInv, CatalogStep, NEW c \in Watched \ disturbed', c \in Working,
         call'[c].stage \in {"ok", "NotFound"}
  PROVE  Right(call'[c])
<1>1. /\ c \in Callers /\ AtWorkOn(call[c]) /\ call'[c] # call[c]
      /\ CatalogIInv /\ CatalogTypeOK /\ call \in [Callers -> CallType]
  BY CatalogAssumption DEF Working, AtWorkOn, Ended, StorefrontIInv, CatalogIInv, CatalogTypeOK
<1>2. ASSUME NEW d \in Callers, NEW k, call' = [call EXCEPT ![d] = k] PROVE d = c /\ call'[c] = k
  BY <1>1, <1>2
<1>3. CASE Start \/ Signal \/ UNCHANGED catalogVars
  BY <1>1, <1>3 DEF Start, Signal, catalogVars
<1>4. ASSUME NEW why, Exit(why) PROVE FALSE
  BY <1>1, <1>4 DEF Exit, Over, NoCall
<1>5. CASE Die
  BY <1>4, <1>5 DEF Die
<1>6. ASSUME NEW d \in Callers, Forget(d) PROVE FALSE
  BY <1>1, <1>2, <1>6 DEF Forget, AtWorkOn
<1>7. ASSUME NEW d \in Callers, NEW p \in Products \cup {NONE}, Ask(d, p) PROVE FALSE
  <2>1. call[d].stage = "idle" /\ \A e \in Callers \ {d} : call'[e] = call[e]
    BY <1>1, <1>7, AskedIs DEF Ask
  <2> QED BY <1>1, <2>1 DEF AtWorkOn
<1>8. ASSUME NEW d \in Callers, NEW s \in {"lock", "query", "rows", "return"}, Goto(d, s) PROVE FALSE
  BY <1>1, <1>8 DEF Goto
<1>9. ASSUME NEW d \in Callers, Lock(d) \/ Check(d) \/ LoadFile(d) \/ Truncate(d) \/ ScanEnds(d)
      PROVE  FALSE
  BY <1>8, <1>9 DEF Lock, Check, LoadFile, Truncate, ScanEnds
<1>10. ASSUME NEW d \in Callers, Scan(d) PROVE FALSE
  BY <1>1, <1>10 DEF Scan
<1>11. ASSUME NEW d \in Callers, Compare(d) \/ Take(d) PROVE FALSE
  <2>1. \E what, i, p : Again(d, what, i, p)
    BY <1>11 DEF Compare, Take
  <2> QED BY <1>1, <2>1 DEF Again
<1>12. ASSUME NEW d \in Callers, Send(d) PROVE Right(call'[c])
  <2>1. disturbed' = disturbed
    BY <1>12 DEF Send, ghosts
  <2> QED BY <1>1, <1>2, <1>12, <2>1, SendMoves
<1>13. ASSUME NEW d \in Callers, NEW list \in {<<>>, Listed}, AtWorkOn(call[d]), Returns(d, list)
       PROVE  d = c /\ (Searching(call[c]) /\ list = Listed => Right(call'[c]))
  <2>1. Fits(call[d]) /\ process = "up" /\ Loads
    BY <1>1, <1>13 DEF CatalogIInv, Loads
  <2>2. PICK k \in CallType :
          /\ call' = [call EXCEPT ![d] = k]
          /\ Searching(call[d]) /\ list = Listed => Right(k)
    BY <1>1, <1>13, <2>1, ReturnsFits
  <2> QED BY <1>2, <2>2
<1>14. ASSUME NEW d \in Callers, Return(d) PROVE Right(call'[c])
  <2>1. call[d].stage = "return" /\ AtWorkOn(call[d])
    BY <1>14 DEF Return, AtWorkOn, Ended
  <2>2. Returns(d, Listed) /\ disturbed' = disturbed
    BY <1>4, <1>14 DEF Return, Panics, ghosts
  <2>3. d = c
    BY <1>13, <2>1, <2>2
  <2>4. Searching(call[c])
    BY <1>1, <2>1, <2>2, <2>3 DEF CatalogIInv, Undisturbed, Emptied, Loading
  <2> QED BY <1>13, <2>1, <2>2, <2>4
<1>15. ASSUME NEW d \in Callers, LoadFails(d) PROVE FALSE
  <2>1. AtWorkOn(call[d]) /\ disturbed' = disturbed \cup ({d} \cap Watched)
    BY <1>15 DEF LoadFails, AtWorkOn, Ended, Disturbs
  <2>2. Returns(d, <<>>)
    BY <1>4, <1>15 DEF LoadFails, Panics
  <2> QED BY <1>13, <2>1, <2>2
<1> QED BY <1>3, <1>5, <1>6, <1>7, <1>9, <1>10, <1>11, <1>12, <1>14, <1>15
    DEF CatalogStep, CatalogNext, Serve, ParseCatalog

\* A GetProduct and a ListProducts next to whose work nobody cut or replaced the
\* list, and whose loads did not fail, are answered from the list as it is, however
\* many others load it at the same time and whatever the file holds.
THEOREM UndisturbedCallsAreRight ==
  Spec => UndisturbedIsRight
<1>1. ASSUME StorefrontIInv, [Next]_vars, NEW c \in Watched \ disturbed', c \in Working,
             call'[c].stage \in {"ok", "NotFound"}
      PROVE  Right(call'[c])
  BY <1>1, NextIsCatalogStep, AnswersAreRight
<1>2. StorefrontIInv /\ [Next]_vars
        => [ \A c \in Watched \ disturbed' :
               LET k == call'[c]
               IN c \in Working /\ k.stage \in {"ok", "NotFound"} =>
                    IF k.asked = NONE THEN Complete(k.list)
                    ELSE IF k.asked \in Offered THEN k.stage = "ok" /\ k.list = <<k.asked>>
                    ELSE k.stage = "NotFound" ]_catalogVars
  BY <1>1 DEF Right
<1> QED BY <1>2, StorefrontInductive, PTL DEF Spec, UndisturbedIsRight

\* What a task put into the cart is in its order, unless a late EmptyCart took it.
THEOREM OrdersHoldTheirs ==
  Spec => []OrdersHoldWhatWasPut
<1>1. StorefrontIInv => OrdersHoldWhatWasPut
  BY DEF StorefrontIInv, CartOK, OrdersHoldWhatWasPut, HasAll, Order
<1> QED BY <1>1, StorefrontInductive, PTL

\* The user gets into the cart what he asked for and pays the prices of what he
\* orders, if the list was neither cut nor replaced in the middle of a search.
THEOREM CartsAreAsAsked ==
  Spec => []CartIsWhatWasAsked
<1>1. StorefrontIInv => CartIsWhatWasAsked
  <2> SUFFICES ASSUME StorefrontIInv, AtWork, page.fetch = <<>>, ~ page.mixed
               PROVE  /\ Request.to = "addToCart" => page.found = <<Request.of>>
                      /\ Request.to = "placeOrder" => ToSet(page.found) = page.items
    BY DEF CartIsWhatWasAsked, HasAll, Order
  <2>1. WorkOK /\ page \in PageType
    BY DEF StorefrontIInv, PageOK
  <2>2. /\ page.found \in Seq(Products) /\ Len(page.found) \in Nat /\ Len(page.fetch) = 0
        /\ ToSet(page.fetch) = {}
    BY <2>1, ElementsOfOne, LenProperties DEF PageType
  <2>3. CASE Request.to = "addToCart"
    <3> DEFINE s == page.found
               p == Request.of
    <3>1. s \in Seq(Products) /\ Len(s) = 1 /\ ToSet(s) \subseteq {p}
      BY <2>1, <2>2, <2>3 DEF WorkOK
    <3> HIDE DEF s, p
    <3>2. DOMAIN s = 1 .. 1 /\ s = [i \in 1 .. 1 |-> s[i]] /\ s[1] = p
      BY <3>1, LenProperties DEF ToSet
    <3>3. s = <<p>>
      BY <3>2
    <3> QED BY <2>3, <3>3 DEF s, p
  <2>4. CASE Request.to = "placeOrder"
    BY <2>1, <2>2, <2>4 DEF WorkOK
  <2> QED BY <2>3, <2>4
<1> QED BY <1>1, StorefrontInductive, PTL

\* No page breaks off for want of an ad, and the ads of a product's page are of its
\* categories, for any number of categories and ads.
THEOREM AdsFitTheirPages ==
  Spec => PagesHaveFittingAds
<1>1. ASSUME StorefrontIInv' PROVE page'.ad # Aborted
  <2>1. page'.ad \in {NoAd} \cup allAds
    BY <1>1 DEF StorefrontIInv, PageOK, PageType
  <2>2. Aborted \notin {NoAd} \cup allAds
    BY AdsAssumption DEF allAds, NoAd, Aborted
  <2> QED BY <2>1, <2>2
<1>2. ASSUME StorefrontIInv, [Next]_vars, todo' # todo, ~ ShowPage PROVE page'.ad = NoAd
  <2>1. page' = NoPage \/ Reply(NoAd)
    BY <1>2
    DEF Next, Handle, Iterate, Receive, Fetch, Fetched, BackendFails, ShowCart, SetCurrency,
        InsertCart, PlaceOrder, ServeEmpty, Recommend, Redirect, vars, shopVars
  <2> QED BY <2>1 DEF Reply, NoPage
<1>3. ASSUME StorefrontIInv, ShowPage, page'.ad # NoAd, page.found # <<>>, FittingAds # {}
      PROVE  page'.ad \in FittingAds
  <2>1. PICK ad \in {NoAd} \cup allAds :
          /\ Reply(ad)
          /\ ad # NoAd /\ page.found # <<>> /\ FittingAds # {} => ad \in FittingAds
    BY <1>3, PageShown
  <2>2. page'.ad = ad
    BY <2>1 DEF Reply, NoPage
  <2> QED BY <1>3, <2>1, <2>2
<1>4. StorefrontIInv /\ StorefrontIInv' /\ [Next]_vars
        => [ /\ page'.ad # Aborted
             /\ todo' # todo /\ page'.ad # NoAd /\ page.found # <<>> /\ FittingAds # {}
                  => page'.ad \in FittingAds ]_vars
  BY <1>1, <1>2, <1>3
<1> QED BY <1>4, StorefrontInductive, PTL DEF Spec, PagesHaveFittingAds

\* A panic has a culprit: a call at work next to which the list was cut or
\* replaced, or whose load failed.
THEOREM PanicsAreOfTheDisturbed ==
  Spec => OnlyDisturbedCrash
<1>1. ASSUME StorefrontIInv, NEW c \in Callers, Return(c) \/ LoadFails(c),
             process' = "panicked", process = "up"
      PROVE  disturbed' \cap Working # {}
  <2> DEFINE k == call[c]
  <2>1. AtWorkOn(k) /\ c \in Working /\ Fits(k) /\ k \in CallType /\ CatalogTypeOK
    BY <1>1 DEF Return, LoadFails, AtWorkOn, Working, Ended, StorefrontIInv, CatalogIInv, CatalogTypeOK
  <2>2. PICK list \in {<<>>, Listed} : Panics(c, list)
    BY <1>1 DEF Return, LoadFails
  <2>3. k.use \in {"compare", "take"} /\ k.index >= Len(list) /\ k.asked # NONE
    BY <2>1, <2>2 DEF Panics, Fits
  <2>4. c \in Watched
    <3>1. k.use # "list"
      BY <2>3
    <3> QED BY <1>1, <3>1 DEF StorefrontIInv, OthersList
  <2>5. CASE LoadFails(c)
    BY <2>1, <2>4, <2>5 DEF LoadFails, Disturbs
  <2>6. CASE Return(c) /\ ~ LoadFails(c)
    <3>1. k.stage = "return" /\ Panics(c, Listed) /\ disturbed' = disturbed
      BY <1>1, <2>6 DEF Return, ghosts
    <3>2. k.index >= length /\ length \in 0 .. Size /\ k.index \in 0 .. Size
      BY <2>1, <3>1, ListedIs DEF Panics, CallType, CatalogTypeOK
    <3>3. c \in disturbed
      <4> SUFFICES ASSUME c \notin disturbed PROVE FALSE
        OBVIOUS
      <4>1. Undisturbed(k)
        BY <1>1, <2>4 DEF StorefrontIInv, CatalogIInv
      <4>2. Searching(k)
        BY <2>1, <3>1, <4>1 DEF Undisturbed, Emptied, Loading
      <4>3. k.index < length
        BY <2>3, <4>2 DEF Searching
      <4> QED BY <3>2, <4>3, SizeOfListing
    <3> QED BY <2>1, <3>1, <3>3
  <2> QED BY <1>1, <2>5, <2>6
<1>2. ASSUME StorefrontIInv, [Next]_vars, process' = "panicked", process = "up"
      PROVE  \E c \in Callers : Return(c) \/ LoadFails(c)
  BY <1>2
  DEF Next, Handle, Iterate, Receive, Fetch, Fetched, BackendFails, ShowPage, ShowCart, SetCurrency,
      InsertCart, PlaceOrder, ServeEmpty, Recommend, vars, catalogVars, Ask, Forget, CatalogNext,
      Start, Die, Exit, Signal, Lock, Serve, ParseCatalog, Check, LoadFile, Truncate, Scan, ScanEnds,
      Compare, Take, Send
<1>3. StorefrontIInv /\ [Next]_vars
        => [process' = "panicked" /\ process = "up" => disturbed' \cap Working # {}]_catalogVars
  BY <1>1, <1>2
<1> QED BY <1>3, StorefrontInductive, PTL DEF Spec, OnlyDisturbedCrash
=============================================================================
