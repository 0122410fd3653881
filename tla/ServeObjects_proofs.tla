-------------------------- MODULE ServeObjects_proofs --------------------------
(***************************************************************************)
(* Proofs about ServeObjects: its types, that the cache is the newest      *)
(* group, that no object is given twice and that none in the cache is      *)
(* missed, for any number of readers and objects of any group and          *)
(* priority, in any order.                                                 *)
(***************************************************************************)
EXTENDS ServeObjects, TLAPS

(***************************************************************************)
(* The inductive invariant.  What makes counting back from the epoch right *)
(* is Known: of the objects in the cache a reader already took exactly the *)
(* first ones, into its heap or from there, up to the index where it will  *)
(* go on.  Clearing the cache keeps that because the epoch has then moved  *)
(* further than the new cache is long.  Newest: the cache holds the newest *)
(* group, and is empty only before the first object.                       *)
(***************************************************************************)
First(r) ==
  IF epoch - seen[r] > Len(objects) THEN 0 ELSE Len(objects) - (epoch - seen[r])

Taken(r) == pending[r] \cup given[r]

Known(r) == \A i \in 1..Len(objects) : objects[i] \in Taken(r) <=> i <= First(r)

ReadingOf(r) ==
  /\ pending[r] \cap given[r] = {}
  /\ r \in readers => ended[r] = "open" /\ Known(r)
  /\ ended[r] # "open" => writer # "open" /\ Cached \subseteq given[r]

Reading == \A r \in Readers : ReadingOf(r)

Newest == CacheIsNewestGroup /\ (Len(objects) = 0 => Len(info) = 0)

IInv == TypeOK /\ Reading /\ Newest

USE ServeObjectsAssumption

-----------------------------------------------------------------------------
(***************************************************************************)
(* Sequences.                                                              *)
(***************************************************************************)
LEMMA EmptyIsSeq == ASSUME NEW S PROVE <<>> \in Seq(S) /\ Len(<<>>) = 0
  OBVIOUS

LEMMA AppendFacts ==
  ASSUME NEW S, NEW s \in Seq(S), NEW x \in S
  PROVE  /\ Append(s, x) \in Seq(S)
         /\ Len(Append(s, x)) = Len(s) + 1
         /\ \A k \in 1..Len(s) : Append(s, x)[k] = s[k]
         /\ Append(s, x)[Len(s) + 1] = x
  OBVIOUS

LEMMA LenType == ASSUME NEW S, NEW s \in Seq(S) PROVE Len(s) \in Nat /\ DOMAIN s = 1..Len(s)
  OBVIOUS

LEMMA ElementType == ASSUME NEW S, NEW s \in Seq(S), NEW i \in 1..Len(s) PROVE s[i] \in S
  OBVIOUS

LEMMA EmptyOrNot == ASSUME NEW S, NEW s \in Seq(S) PROVE s # <<>> <=> Len(s) > 0
  OBVIOUS

LEMMA WiderSeq == ASSUME NEW S, NEW T, S \subseteq T, NEW s \in Seq(S) PROVE s \in Seq(T)
  OBVIOUS

(***************************************************************************)
(* The lengths that occur, and what next pushes into the heap: the objects *)
(* of the cache that the reader did not take yet.                          *)
(***************************************************************************)
LEMMA Lengths ==
  ASSUME TypeOK
  PROVE  /\ Len(info) \in Nat /\ DOMAIN info = 1..Len(info)
         /\ Len(objects) \in Nat /\ Cached = {objects[i] : i \in 1..Len(objects)}
         /\ \A i \in 1..Len(objects) : objects[i] \in 1..Len(info)
         /\ epoch \in Nat
         /\ \A r \in Readers : seen[r] \in Nat /\ seen[r] <= epoch
  <1>1. /\ info \in Seq(Infos) /\ objects \in Seq(DOMAIN info)
        /\ epoch \in 0..Len(info) /\ seen \in [Readers -> 0..epoch]
    BY DEF TypeOK
  <1>2. Len(info) \in Nat /\ DOMAIN info = 1..Len(info) /\ Len(objects) \in Nat
    BY <1>1, LenType
  <1>3. DOMAIN objects = 1..Len(objects)
    BY <1>1, LenType
  <1>4. \A i \in 1..Len(objects) : objects[i] \in 1..Len(info)
    BY <1>1, <1>2, ElementType
  <1> QED
    BY <1>1, <1>2, <1>3, <1>4 DEF Cached

LEMMA FirstType ==
  ASSUME TypeOK, NEW r \in Readers
  PROVE  /\ First(r) \in 0..Len(objects)
         /\ Fresh(r) = {objects[i] : i \in (First(r) + 1)..Len(objects)}
         /\ seen[r] = epoch => First(r) = Len(objects)
  <1>1. First(r) \in 0..Len(objects) /\ (seen[r] = epoch => First(r) = Len(objects))
    BY Lengths DEF First
  <1> QED
    BY <1>1 DEF Fresh, First

LEMMA PoolFacts ==
  ASSUME TypeOK, NEW r \in readers, ReadingOf(r), Known(r)
  PROVE  /\ Fresh(r) \subseteq Cached
         /\ Fresh(r) \cap Taken(r) = {}
         /\ Cached \subseteq Taken(r) \cup Fresh(r)
         /\ Pool(r) \cap given[r] = {}
         /\ Pool(r) \cup given[r] = Taken(r) \cup Fresh(r)
  <1>1. r \in Readers
    BY DEF TypeOK
  <1>2. /\ First(r) \in 0..Len(objects) /\ Len(objects) \in Nat
        /\ Fresh(r) = {objects[i] : i \in (First(r) + 1)..Len(objects)}
        /\ Cached = {objects[i] : i \in 1..Len(objects)}
    BY <1>1, FirstType, Lengths
  <1>3. Fresh(r) \subseteq Cached
    BY <1>2
  <1>4. Fresh(r) \cap Taken(r) = {}
    BY <1>2 DEF Known
  <1>5. Cached \subseteq Taken(r) \cup Fresh(r)
    <2> SUFFICES ASSUME NEW i \in 1..Len(objects) PROVE objects[i] \in Taken(r) \cup Fresh(r)
      BY <1>2
    <2>1. CASE i <= First(r)
      BY <2>1 DEF Known
    <2>2. CASE i \in (First(r) + 1)..Len(objects)
      BY <2>2, <1>2
    <2> QED
      BY <2>1, <2>2, <1>2
  <1> QED
    BY <1>3, <1>4, <1>5 DEF Pool, Taken, ReadingOf

-----------------------------------------------------------------------------
LEMMA InitIInv == Init => IInv
  <1> SUFFICES ASSUME Init PROVE IInv
    OBVIOUS
  <1>1. info \in Seq(Infos) /\ objects \in Seq(DOMAIN info) /\ Len(info) = 0 /\ Len(objects) = 0
    BY EmptyIsSeq DEF Init
  <1>2. DOMAIN objects = {} /\ Cached = {}
    BY <1>1, LenType DEF Cached
  <1>3. TypeOK
    BY <1>1, <1>2 DEF Init, TypeOK, Status, Ids
  <1>4. Reading
    <2> SUFFICES ASSUME NEW r \in Readers PROVE ReadingOf(r)
      BY DEF Reading
    <2>1. Known(r)
      BY <1>1 DEF Known
    <2> QED
      BY <2>1 DEF Init, ReadingOf
  <1>5. Newest
    BY <1>1, <1>2, LenType DEF Newest, CacheIsNewestGroup
  <1> QED
    BY <1>3, <1>4, <1>5 DEF IInv

(***************************************************************************)
(* ObjectsWriter::create: how the cache looks after it.                    *)
(***************************************************************************)
LEMMA KeptFacts ==
  ASSUME TypeOK, NEW o \in Infos
  PROVE  /\ Kept(o.group) = objects \/ Kept(o.group) = <<>>
         /\ ~Stale(o.group) /\ Kept(o.group) = objects =>
              \A i \in 1..Len(objects) : info[objects[i]].group = o.group
  <1>1. Kept(o.group) = objects \/ Kept(o.group) = <<>>
    BY DEF Kept
  <1>2. ASSUME ~Stale(o.group), Kept(o.group) = objects, NEW i \in 1..Len(objects)
        PROVE  info[objects[i]].group = o.group
    <2>1. /\ objects \in Seq(DOMAIN info) /\ info \in Seq(Infos) /\ Len(objects) \in Nat
          /\ 1 \in 1..Len(objects)
      BY Lengths DEF TypeOK
    <2>2. objects # <<>>
      BY <2>1, EmptyOrNot
    <2>3. objects[1] \in Cached /\ objects[i] \in Cached
      BY <2>1, Lengths
    <2>4. info[objects[1]].group \in Nat /\ o.group \in Nat
      BY <2>1, Lengths, ElementType
    <2>5. ~(o.group > info[objects[1]].group)
      BY <1>2, <2>2 DEF Kept
    <2>6. info[objects[1]].group = o.group
      BY <1>2, <2>2, <2>4, <2>5 DEF Stale
    <2> QED
      BY <2>3, <2>6 DEF TypeOK
  <1> QED
    BY <1>1, <1>2

\* The older objects are those of the group kept, or of a group older than o's.
LEMMA GroupsFacts ==
  ASSUME TypeOK, Newest, NEW o \in Infos, Len(objects) > 0
  PROVE  LET c == info[objects[1]].group IN
         /\ c \in Nat /\ o.group \in Nat
         /\ \A j \in 1..Len(info) : info[j].group \in Nat /\ info[j].group <= c
         /\ \A j \in 1..Len(info) : j \in Cached <=> info[j].group = c
         /\ Stale(o.group) <=> o.group < c
         /\ Kept(o.group) = IF o.group > c THEN <<>> ELSE objects
  <1> DEFINE c == info[objects[1]].group
  <1>1. /\ objects \in Seq(DOMAIN info) /\ info \in Seq(Infos) /\ Len(objects) \in Nat
        /\ 1 \in 1..Len(objects) /\ objects # <<>> /\ DOMAIN info = 1..Len(info)
    BY Lengths, EmptyOrNot DEF TypeOK
  <1>2. objects[1] \in Cached /\ objects[1] \in 1..Len(info)
    BY <1>1, Lengths
  <1>3. \A j \in 1..Len(info) : info[j].group \in Nat
    BY <1>1, ElementType
  <1>4. \A j \in 1..Len(info) : info[j].group <= c
    BY <1>1, <1>2 DEF Newest, CacheIsNewestGroup, InNewestGroup
  <1>5. \A j \in Cached : info[j].group = c
    BY <1>2 DEF TypeOK
  <1>6. ASSUME NEW j \in 1..Len(info), info[j].group = c PROVE j \in Cached
    BY <1>1, <1>4, <1>6 DEF Newest, CacheIsNewestGroup, InNewestGroup
  <1>7. (Stale(o.group) <=> o.group < c) /\ Kept(o.group) = IF o.group > c THEN <<>> ELSE objects
    BY <1>1 DEF Stale, Kept
  <1> QED
    BY <1>2, <1>3, <1>4, <1>5, <1>6, <1>7

LEMMA CreateNewest ==
  ASSUME TypeOK, Newest, NEW o \in Infos, Create(o) PROVE Newest'
  <1> DEFINE n == Len(info) + 1
             K == Kept(o.group)
             c == info[objects[1]].group
  <1>1. /\ info' = Append(info, o)
        /\ \/ ~Stale(o.group) /\ objects' = Append(K, n)
           \/ Stale(o.group) /\ objects' = objects
    BY DEF Create
  <1>2. /\ info \in Seq(Infos) /\ objects \in Seq(1..Len(info)) /\ Len(info) \in Nat
        /\ Len(objects) \in Nat /\ o.group \in Nat
    BY Lengths DEF TypeOK
  <1>3. /\ info' \in Seq(Infos) /\ DOMAIN info' = 1..n /\ Len(info') = n
        /\ \A k \in 1..Len(info) : info'[k] = info[k]
        /\ info'[n] = o
        /\ n \in Nat /\ 1..n = (1..Len(info)) \cup {n}
    BY <1>1, <1>2, AppendFacts, LenType
  <1>4. objects \in Seq(1..n) /\ K \in Seq(1..n)
    <2>1. objects \in Seq(1..n)
      BY <1>2, <1>3, WiderSeq
    <2> QED
      BY <2>1, KeptFacts, EmptyIsSeq
  <1>5. /\ Append(K, n) \in Seq(1..n) /\ Len(Append(K, n)) = Len(K) + 1 /\ Len(K) \in Nat
        /\ DOMAIN Append(K, n) = 1..(Len(K) + 1)
        /\ (\A k \in 1..Len(K) : Append(K, n)[k] = K[k]) /\ Append(K, n)[Len(K) + 1] = n
        /\ 1..(Len(K) + 1) = (1..Len(K)) \cup {Len(K) + 1}
    <2>1. n \in 1..n /\ Len(K) \in Nat
      BY <1>2, <1>4, LenType
    <2> QED
      BY <2>1, <1>4, AppendFacts, LenType
  <1>6. objects' = Append(K, n) => Cached' = {K[i] : i \in 1..Len(K)} \cup {n}
    <2> SUFFICES ASSUME objects' = Append(K, n)
                 PROVE  Cached' = {K[i] : i \in 1..Len(K)} \cup {n}
      OBVIOUS
    <2>1. Cached' = {objects'[i] : i \in DOMAIN objects'}
      BY DEF Cached
    <2> HIDE DEF K, n
    <2> QED
      BY <1>5, <2>1
  <1> DEFINE Max(i) == \A j \in 1..n : info'[j].group <= info'[i].group
  <1> SUFFICES Cached' = {i \in 1..n : Max(i)} /\ Len(objects') # 0
    BY <1>3 DEF Newest, CacheIsNewestGroup, InNewestGroup
  <1>7. CASE Len(objects) = 0
    <2>1. Len(info) = 0 /\ K = objects /\ ~Stale(o.group)
      BY <1>2, <1>7, EmptyOrNot DEF Newest, Kept, Stale
    <2>2. Cached' = {n} /\ n = 1 /\ Len(objects') # 0
      BY <2>1, <1>1, <1>5, <1>6, <1>7
    <2> QED
      BY <2>2, <1>2, <1>3
  <1>8. CASE Len(objects) > 0
    <2>1. /\ c \in Nat
          /\ \A j \in 1..Len(info) : info[j].group \in Nat /\ info[j].group <= c
          /\ \A j \in 1..Len(info) : j \in Cached <=> info[j].group = c
          /\ Stale(o.group) <=> o.group < c
          /\ K = IF o.group > c THEN <<>> ELSE objects
      BY <1>8, GroupsFacts
    <2>2. objects[1] \in 1..Len(info)
      BY <1>2, <1>8, ElementType
    <2>3. Cached = {objects[i] : i \in 1..Len(objects)} /\ Cached \subseteq 1..Len(info)
      BY Lengths
    <2>4. \A j \in 1..Len(info) : info'[j].group = info[j].group
      BY <1>3
    <2>5. info'[n].group = o.group /\ n \notin 1..Len(info)
      BY <1>2, <1>3
    <2> HIDE DEF n, K
    <2>6. \A i \in 1..Len(info) : Max(i) <=> i \in Cached /\ o.group <= c
      <3> SUFFICES ASSUME NEW i \in 1..Len(info)
                   PROVE  Max(i) <=> info[i].group = c /\ o.group <= c
        BY <2>1
      <3>1. info[i].group \in Nat /\ info[i].group <= c /\ info'[i].group = info[i].group
        BY <2>1, <2>4
      <3>2. ASSUME Max(i) PROVE info[i].group = c /\ o.group <= c
        <4>1. info'[objects[1]].group <= info'[i].group /\ info'[n].group <= info'[i].group
          BY <3>2, <2>2, <1>3
        <4>2. info'[objects[1]].group = c /\ c \in Nat /\ o.group \in Nat
          BY <2>1, <2>2, <2>4, <1>2
        <4>3. c <= info[i].group /\ o.group <= info[i].group
          BY <4>1, <4>2, <3>1, <2>5
        <4> HIDE DEF c
        <4> QED
          BY <4>2, <4>3, <3>1
      <3>3. ASSUME info[i].group = c, o.group <= c, NEW j \in 1..n
            PROVE  info'[j].group <= info'[i].group
        BY <3>1, <3>3, <2>1, <2>4, <2>5, <1>3
      <3> QED
        BY <3>2, <3>3
    <2>7. Max(n) <=> c <= o.group
      <3>1. ASSUME Max(n) PROVE c <= o.group
        BY <3>1, <2>2, <2>4, <2>5, <1>3
      <3>2. ASSUME c <= o.group, NEW j \in 1..n PROVE info'[j].group <= info'[n].group
        <4>1. CASE j \in 1..Len(info)
          <5>1. info[j].group \in Nat /\ info[j].group <= c /\ info'[j].group = info[j].group
            BY <4>1, <2>1, <2>4
          <5> QED
            BY <5>1, <3>2, <2>1, <2>5, <1>2
        <4>2. CASE j = n
          BY <4>2, <2>5, <1>2
        <4> QED
          BY <4>1, <4>2, <1>3
      <3> QED
        BY <3>1, <3>2
    <2>8. /\ o.group < c => objects' = objects
          /\ o.group = c => objects' = Append(K, n) /\ K = objects
          /\ o.group > c => objects' = Append(K, n) /\ K = <<>>
      BY <2>1, <1>1, <1>2
    <2>0. /\ \A i \in 1..n : i \in 1..Len(info) \/ i = n
          /\ \A i \in Cached : i \in 1..Len(info) /\ n # i
          /\ c \in Nat /\ o.group \in Nat
      BY <2>1, <2>3, <2>5, <1>2, <1>3
    <2> HIDE DEF Max, c
    <2>9. CASE o.group < c
      <3>1. Cached' = Cached /\ Len(objects') # 0
        BY <2>8, <2>9, <1>8 DEF Cached
      <3>2. \A i \in 1..n : Max(i) <=> i \in Cached
        BY <2>0, <2>6, <2>7, <2>9
      <3> QED
        BY <3>1, <3>2, <2>3, <1>3
    <2>10. CASE o.group = c
      <3>1. Cached' = Cached \cup {n} /\ Len(objects') # 0
        BY <2>3, <2>8, <2>10, <1>5, <1>6
      <3>2. \A i \in 1..n : Max(i) <=> i \in Cached \/ i = n
        BY <2>0, <2>6, <2>7, <2>10
      <3> QED
        BY <3>1, <3>2, <2>3, <1>3
    <2>11. CASE o.group > c
      <3>1. Cached' = {n} /\ Len(objects') # 0
        BY <2>8, <2>11, <1>5, <1>6, EmptyIsSeq
      <3>2. \A i \in 1..n : Max(i) <=> i = n
        BY <2>0, <2>5, <2>6, <2>7, <2>11
      <3> QED
        BY <3>1, <3>2, <1>3
    <2> QED
      BY <2>1, <2>9, <2>10, <2>11, <1>2
  <1> QED
    BY <1>2, <1>7, <1>8

LEMMA CreateKeeps ==
  ASSUME IInv, NEW o \in Infos, Create(o) PROVE IInv'
  <1> DEFINE n == Len(info) + 1
             K == Kept(o.group)
  <1>1. /\ writer = "open" /\ Len(info) < MaxObjects /\ info' = Append(info, o)
        /\ status' = [status EXCEPT ![n] = "open"]
        /\ UNCHANGED <<writer, readers, seen, pending, given, ended, reading>>
        /\ \/ ~Stale(o.group) /\ objects' = Append(K, n) /\ epoch' = epoch + 1
           \/ UNCHANGED <<objects, epoch>>
    BY DEF Create, reads
  <1>2. TypeOK /\ Reading
    BY DEF IInv
  <1>3. /\ info \in Seq(Infos) /\ objects \in Seq(1..Len(info)) /\ Len(info) \in Nat
        /\ DOMAIN info = 1..Len(info) /\ epoch \in 0..Len(info)
    BY <1>2, Lengths DEF TypeOK
  <1>4. /\ info' \in Seq(Infos) /\ Len(info') = n /\ DOMAIN info' = 1..n /\ n \in Nat
        /\ \A k \in 1..Len(info) : info'[k] = info[k]
        /\ info'[n] = o
    BY <1>1, <1>3, AppendFacts, LenType
  <1>5. n \in 1..n /\ 1..Len(info) \subseteq 1..n /\ n \notin 1..Len(info)
    BY <1>3
  <1>6. objects \in Seq(1..n) /\ K \in Seq(1..n)
    <2>1. objects \in Seq(1..n)
      BY <1>3, <1>5, WiderSeq
    <2> QED
      BY <2>1, <1>2, KeptFacts, EmptyIsSeq
  <1>7. Append(K, n) \in Seq(1..n) /\ Len(Append(K, n)) = Len(K) + 1
        /\ (\A k \in 1..Len(K) : Append(K, n)[k] = K[k]) /\ Append(K, n)[Len(K) + 1] = n
    BY <1>5, <1>6, AppendFacts
  <1> HIDE DEF n, K
  <1>8. TypeOK'
    <2>1. status' \in [Ids -> Status]
      BY <1>1, <1>2 DEF TypeOK, Status
    <2>2. objects' \in Seq(DOMAIN info') /\ epoch' \in 0..Len(info')
      <3>1. epoch \in 0..n /\ epoch + 1 \in 0..n
        BY <1>3 DEF n
      <3> QED
        BY <3>1, <1>1, <1>4, <1>6, <1>7
    <2>3. \A i, j \in Cached' : info'[i].group = info'[j].group
      <3>1. \A i \in 1..Len(objects) : objects[i] \in 1..Len(info)
        BY <1>2, Lengths
      <3>2. CASE UNCHANGED <<objects, epoch>>
        <4>1. Cached' = Cached /\ Cached \subseteq 1..Len(info)
          BY <3>1, <3>2, <1>2, Lengths DEF Cached
        <4> QED
          BY <4>1, <1>2, <1>4 DEF TypeOK
      <3>3. CASE ~Stale(o.group) /\ objects' = Append(K, n)
        <4>1. \A i \in 1..Len(K) : K[i] \in 1..Len(info) /\ info[K[i]].group = o.group
          <5>1. CASE K = objects
            BY <5>1, <3>1, <3>3, <1>2, KeptFacts DEF K
          <5>2. CASE K = <<>>
            BY <5>2, EmptyIsSeq
          <5> QED
            BY <5>1, <5>2, <1>2, KeptFacts DEF K
        <4>2. Len(K) \in Nat /\ DOMAIN objects' = 1..(Len(K) + 1)
          BY <3>3, <1>6, <1>7, LenType
        <4>3. \A i \in 1..(Len(K) + 1) : info'[objects'[i]].group = o.group
          <5> SUFFICES ASSUME NEW i \in 1..(Len(K) + 1)
                       PROVE  info'[objects'[i]].group = o.group
            OBVIOUS
          <5>1. CASE i \in 1..Len(K)
            BY <5>1, <4>1, <3>3, <1>4, <1>7
          <5>2. CASE i = Len(K) + 1
            BY <5>2, <3>3, <1>4, <1>7
          <5> QED
            BY <5>1, <5>2, <4>2
        <4> QED
          BY <4>2, <4>3 DEF Cached
      <3> QED
        BY <3>2, <3>3, <1>1
    <2>4. \A S \in SUBSET DOMAIN info : S \in SUBSET DOMAIN info'
      BY <1>3, <1>4, <1>5
    <2>5. /\ pending' \in [Readers -> SUBSET DOMAIN info']
          /\ given' \in [Readers -> SUBSET DOMAIN info']
          /\ reading' \in [Readers -> SUBSET DOMAIN info']
      BY <2>4, <1>1, <1>2 DEF TypeOK
    <2>6. seen' \in [Readers -> 0..epoch']
      BY <1>1, <1>2, <1>3 DEF TypeOK
    <2> QED
      BY <2>1, <2>2, <2>3, <2>5, <2>6, <1>1, <1>2, <1>4 DEF TypeOK
  <1>9. Reading'
    <2> SUFFICES ASSUME NEW r \in Readers PROVE ReadingOf(r)'
      BY DEF Reading
    <2>1. ReadingOf(r) /\ Taken(r) \subseteq 1..Len(info) /\ Taken(r)' = Taken(r)
      BY <1>1, <1>2, <1>3 DEF Reading, TypeOK, Taken
    <2>2. ended[r] = "open" /\ ended'[r] = "open"
      BY <2>1, <1>1 DEF ReadingOf
    <2>3. ASSUME r \in readers PROVE Known(r)'
      <3>1. Known(r)
        BY <2>1, <2>3 DEF ReadingOf
      <3>2. CASE UNCHANGED <<objects, epoch>>
        BY <3>1, <3>2, <2>1, <1>1 DEF Known, First
      <3>3. CASE objects' = Append(K, n) /\ epoch' = epoch + 1
        <4>1. /\ Len(objects) \in Nat /\ epoch \in Nat /\ seen[r] \in Nat /\ seen[r] <= epoch
              /\ Len(objects') = Len(K) + 1 /\ seen'[r] = seen[r]
          BY <3>3, <1>1, <1>2, <1>7, Lengths
        <4>2. n \notin Taken(r)
          BY <2>1, <1>5
        <4>3. CASE K = objects
          <5>1. First(r)' = First(r) /\ First(r) \in 0..Len(objects)
            <6>1. First(r) \in 0..Len(objects)
              BY <1>2, FirstType
            <6>2. First(r)' = IF (epoch + 1) - seen[r] > Len(objects) + 1 THEN 0
                              ELSE (Len(objects) + 1) - ((epoch + 1) - seen[r])
              BY <3>3, <4>1, <4>3 DEF First
            <6> QED
              BY <6>1, <6>2, <4>1 DEF First
          <5>2. \A i \in 1..Len(objects) : objects'[i] = objects[i]
            BY <3>3, <4>3, <1>7
          <5>3. objects'[Len(objects) + 1] = n
            BY <3>3, <4>3, <1>7
          <5> SUFFICES ASSUME NEW i \in 1..(Len(objects) + 1)
                       PROVE  objects'[i] \in Taken(r) <=> i <= First(r)
            BY <4>1, <4>3, <5>1, <2>1 DEF Known
          <5>4. CASE i \in 1..Len(objects)
            BY <5>2, <5>4, <3>1 DEF Known
          <5>5. CASE i = Len(objects) + 1
            BY <5>1, <5>3, <5>5, <4>1, <4>2
          <5> QED
            BY <5>4, <5>5, <4>1
        <4>4. CASE K = <<>>
          <5>1. Len(objects') = 1 /\ objects'[1] = n
            BY <3>3, <4>1, <4>4, <1>7, EmptyIsSeq
          <5>2. First(r)' = 0
            BY <5>1, <4>1, <3>3 DEF First
          <5> QED
            BY <5>1, <5>2, <4>2, <2>1 DEF Known
        <4> QED
          BY <4>3, <4>4, <1>2, KeptFacts DEF K
      <3> QED
        BY <3>2, <3>3, <1>1
    <2> QED
      BY <2>1, <2>2, <2>3, <1>1 DEF ReadingOf
  <1>10. Newest'
    BY CreateNewest DEF IInv
  <1> QED
    BY <1>8, <1>9, <1>10 DEF IInv

\* Only create touches the cache.
LEMMA SameNewest ==
  ASSUME Newest, UNCHANGED <<info, objects>> PROVE Newest'
  BY DEF Newest, CacheIsNewestGroup, InNewestGroup, Cached

LEMMA EndKeeps ==
  ASSUME IInv, NEW err \in BOOLEAN, EndTrack(err) \/ \E i \in Ids : EndObject(i, err)
  PROVE  IInv'
  <1>1. /\ UNCHANGED <<info, objects, epoch, readers, seen, pending, given, ended, reading>>
        /\ writer' = writer \/ (writer = "open" /\ writer' \in {"failed", "done"})
        /\ status' \in [Ids -> Status]
    BY DEF IInv, TypeOK, EndTrack, EndObject, Outcome, reads, Status
  <1>2. TypeOK' /\ Cached' = Cached
    BY <1>1 DEF IInv, TypeOK, Cached, Status
  <1>3. \A r \in Readers : Known(r)' <=> Known(r)
    BY <1>1 DEF Known, First, Taken
  <1>4. Reading'
    BY <1>1, <1>2, <1>3, SameNewest DEF IInv, Reading, ReadingOf
  <1> QED
    BY <1>1, <1>2, <1>4, SameNewest DEF IInv

(***************************************************************************)
(* ObjectsReader.                                                          *)
(***************************************************************************)
LEMMA NextObjectKeeps ==
  ASSUME IInv, NEW r \in Readers, NextObject(r) PROVE IInv'
  <1>1. PICK i \in Pool(r) :
          /\ pending' = [pending EXCEPT ![r] = Pool(r) \ {i}]
          /\ given' = [given EXCEPT ![r] = @ \cup {i}]
          /\ reading' = [reading EXCEPT ![r] = @ \cup {i}]
    BY DEF NextObject
  <1>2. /\ r \in readers /\ seen' = [seen EXCEPT ![r] = epoch]
        /\ UNCHANGED <<info, objects, epoch, writer, status, readers, ended>>
    BY DEF NextObject, cache
  <1>3. TypeOK /\ Reading /\ ReadingOf(r) /\ Known(r) /\ ended[r] = "open"
    BY <1>2 DEF IInv, Reading, ReadingOf
  <1>4. /\ Fresh(r) \subseteq Cached /\ Cached \subseteq Taken(r) \cup Fresh(r)
        /\ Pool(r) \cap given[r] = {} /\ Pool(r) \cup given[r] = Taken(r) \cup Fresh(r)
    BY <1>2, <1>3, PoolFacts
  <1>5. Cached \subseteq DOMAIN info
    BY <1>3, Lengths
  <1>6. Pool(r) \subseteq DOMAIN info
    BY <1>3, <1>4, <1>5 DEF Pool, TypeOK
  <1>7. TypeOK'
    <2>1. /\ pending' \in [Readers -> SUBSET DOMAIN info]
          /\ given' \in [Readers -> SUBSET DOMAIN info]
          /\ reading' \in [Readers -> SUBSET DOMAIN info]
      BY <1>1, <1>3, <1>6 DEF TypeOK
    <2>2. epoch \in 0..epoch /\ seen' \in [Readers -> 0..epoch]
      BY <1>2, <1>3, Lengths DEF TypeOK
    <2>3. Cached' = Cached
      BY <1>2 DEF Cached
    <2> QED
      BY <2>1, <2>2, <2>3, <1>2, <1>3 DEF TypeOK
  <1>8. Reading'
    <2> SUFFICES ASSUME NEW q \in Readers PROVE ReadingOf(q)'
      BY DEF Reading
    <2>1. ReadingOf(q) /\ Cached' = Cached
      BY <1>2, <1>3 DEF Reading, Cached
    <2>2. CASE q = r
      <3>1. /\ pending'[r] = Pool(r) \ {i} /\ given'[r] = given[r] \cup {i} /\ seen'[r] = epoch
        BY <1>1, <1>2, <1>3 DEF TypeOK
      <3>2. Taken(r)' = Taken(r) \cup Fresh(r)
        BY <3>1, <1>1, <1>4 DEF Taken
      <3>3. First(r)' = Len(objects)
        BY <3>1, <1>2, <1>3, Lengths DEF First
      <3>4. \A k \in 1..Len(objects) : objects[k] \in Cached
        BY <1>3, Lengths
      <3>5. Known(r)'
        BY <3>2, <3>3, <3>4, <1>2, <1>4 DEF Known
      <3> QED
        BY <2>2, <3>1, <3>5, <1>2, <1>3, <1>4 DEF ReadingOf
    <2>3. CASE q # r
      <3>1. /\ pending'[q] = pending[q] /\ given'[q] = given[q] /\ seen'[q] = seen[q]
        BY <2>3, <1>1, <1>2, <1>3 DEF TypeOK
      <3>2. Known(q)' <=> Known(q)
        BY <3>1, <1>2 DEF Known, First, Taken
      <3> QED
        BY <2>1, <3>1, <3>2, <1>2 DEF ReadingOf
    <2> QED
      BY <2>2, <2>3
  <1> QED
    BY <1>2, <1>7, <1>8, SameNewest DEF IInv

LEMMA TrackEndsKeeps ==
  ASSUME IInv, NEW r \in Readers, TrackEnds(r) PROVE IInv'
  <1>1. /\ r \in readers /\ Pool(r) = {} /\ writer # "open"
        /\ readers' = readers \ {r} /\ ended' = [ended EXCEPT ![r] = writer]
        /\ UNCHANGED <<info, objects, epoch, writer, status, seen, pending, given, reading>>
    BY DEF TrackEnds, Exhausted, cache
  <1>2. TypeOK' /\ Cached' = Cached
    BY <1>1 DEF IInv, TypeOK, Cached
  <1>3. TypeOK /\ ReadingOf(r) /\ Known(r) /\ ended \in [Readers -> Status]
    BY <1>1 DEF IInv, Reading, ReadingOf, TypeOK
  <1>4. Cached \subseteq given[r]
    BY <1>1, <1>3, PoolFacts
  <1>5. Reading'
    <2> SUFFICES ASSUME NEW q \in Readers PROVE ReadingOf(q)'
      BY DEF Reading
    <2>1. ReadingOf(q) /\ (Known(q)' <=> Known(q))
      BY <1>1 DEF IInv, Reading, Known, First, Taken
    <2>2. q # r => ended'[q] = ended[q]
      BY <1>1, <1>3
    <2> QED
      BY <2>1, <2>2, <1>1, <1>2, <1>3, <1>4 DEF ReadingOf
  <1> QED
    BY <1>1, <1>2, <1>5, SameNewest DEF IInv

LEMMA LeaveKeeps ==
  ASSUME IInv, NEW r \in Readers, Leave(r) PROVE IInv'
  <1>1. /\ readers' = readers \ {r} /\ pending' = [pending EXCEPT ![r] = {}]
        /\ UNCHANGED <<info, objects, epoch, writer, status, seen, given, ended, reading>>
    BY DEF Leave, cache
  <1>2. TypeOK' /\ Cached' = Cached
    BY <1>1 DEF IInv, TypeOK, Cached
  <1>3. Reading'
    <2> SUFFICES ASSUME NEW q \in Readers PROVE ReadingOf(q)'
      BY DEF Reading
    <2>1. ReadingOf(q) /\ pending'[q] = IF q = r THEN {} ELSE pending[q]
      BY <1>1 DEF IInv, Reading, TypeOK
    <2>2. q # r => (Known(q)' <=> Known(q))
      BY <2>1, <1>1 DEF Known, First, Taken
    <2> QED
      BY <2>1, <2>2, <1>1, <1>2 DEF ReadingOf
  <1> QED
    BY <1>1, <1>2, <1>3, SameNewest DEF IInv

LEMMA ObjectEndsKeeps ==
  ASSUME IInv, NEW r \in Readers, NEW i \in Ids, ObjectEnds(r, i) PROVE IInv'
  <1>1. /\ reading' = [reading EXCEPT ![r] = @ \ {i}]
        /\ UNCHANGED <<info, objects, epoch, writer, status, readers, seen, pending, given, ended>>
    BY DEF ObjectEnds, cache
  <1>2. TypeOK' /\ Cached' = Cached
    BY <1>1 DEF IInv, TypeOK, Cached
  <1>3. \A q \in Readers : Known(q)' <=> Known(q)
    BY <1>1 DEF Known, First, Taken
  <1> QED
    BY <1>1, <1>2, <1>3, SameNewest DEF IInv, Reading, ReadingOf

-----------------------------------------------------------------------------
LEMMA NextIInv == IInv /\ [Next]_vars => IInv'
  <1> SUFFICES ASSUME IInv, [Next]_vars PROVE IInv'
    OBVIOUS
  <1>1. ASSUME UNCHANGED vars PROVE IInv'
    <2>1. TypeOK' /\ Cached' = Cached
      BY <1>1 DEF vars, cache, reads, IInv, TypeOK, Cached
    <2>2. \A q \in Readers : Known(q)' <=> Known(q)
      BY <1>1 DEF vars, cache, reads, Known, First, Taken
    <2> QED
      BY <1>1, <2>1, <2>2, SameNewest DEF vars, cache, reads, IInv, Reading, ReadingOf
  <1> QED
    BY <1>1, CreateKeeps, EndKeeps, NextObjectKeeps, TrackEndsKeeps, LeaveKeeps, ObjectEndsKeeps
    DEF Next

(***************************************************************************)
(* Every state variable keeps its type: in particular the cache only ever  *)
(* holds objects of one group.                                             *)
(***************************************************************************)
THEOREM TypeCorrect == Spec => []TypeOK
  <1>1. IInv => TypeOK
    BY DEF IInv
  <1> QED
    BY <1>1, InitIInv, NextIInv, PTL DEF Spec

(***************************************************************************)
(* No object that next will push into the heap of a reader, or that lies   *)
(* there, was given to it before, however often the cache was cleared and  *)
(* refilled between two of its looks.                                      *)
(***************************************************************************)
THEOREM NeverTwice == Spec => []GivenOnce
  <1>1. IInv => GivenOnce
    BY PoolFacts DEF IInv, Reading, ReadingOf, GivenOnce, TypeOK
  <1> QED
    BY <1>1, InitIInv, NextIInv, PTL DEF Spec

(***************************************************************************)
(* Counting back from the epoch misses nothing that is in the cache, and a *)
(* reader told of the end has the whole last group.                        *)
(***************************************************************************)
THEOREM CacheIsCovered == Spec => []NothingMissed
  <1>1. IInv => NothingMissed
    <2> SUFFICES ASSUME IInv PROVE NothingMissed
      OBVIOUS
    <2>1. ASSUME NEW r \in readers PROVE Cached \subseteq given[r] \cup Pool(r)
      BY PoolFacts DEF IInv, Reading, ReadingOf, TypeOK
    <2>2. \A r \in Readers : ended[r] # "open" => Cached \subseteq given[r]
      BY DEF IInv, Reading, ReadingOf
    <2> QED
      BY <2>1, <2>2 DEF NothingMissed
  <1> QED
    BY <1>1, InitIInv, NextIInv, PTL DEF Spec

(***************************************************************************)
(* The cache is the newest group, whole.                                   *)
(***************************************************************************)
THEOREM WholeNewestGroup == Spec => []CacheIsNewestGroup
  <1>1. IInv => CacheIsNewestGroup
    BY DEF IInv, Newest
  <1> QED
    BY <1>1, InitIInv, NextIInv, PTL DEF Spec
=============================================================================
