-------------------------- MODULE ServeStream_proofs --------------------------
(***************************************************************************)
(* Proofs about ServeStream: its types, that readers never go back, that a *)
(* clean end comes after the last group, and that it implements            *)
(* LatestValue, for any number of clones, readers and groups and objects   *)
(* of any size.                                                            *)
(***************************************************************************)
EXTENDS ServeStream, TLAPS

(***************************************************************************)
(* The inductive invariant.  Order: create takes no id older than the      *)
(* latest, however the clones' calls interleave.  Clones: only a clone     *)
(* that exists is between the two locks of append, so that none adds a     *)
(* group once all are gone.  Reading: a reader is behind in groups just as *)
(* much as it is in the epoch, and a clean end is the last thing it hears. *)
(***************************************************************************)
Order == \A i, j \in 1..Len(ids) : i <= j => ids[i] <= ids[j]

Appending == \A w \in Clones : next[w] # Idle => w \in writers

ReadingOf(r) ==
  /\ seen[r] = cur[r]
  /\ ended[r] # "open" => r \notin readers
  /\ ended[r] = "done" => writers = {} /\ cur[r] = latest

Reading == \A r \in Readers : ReadingOf(r)

IInv == TypeOK /\ Order /\ Appending /\ Reading

-----------------------------------------------------------------------------
(***************************************************************************)
(* Sequences and objects.                                                  *)
(***************************************************************************)
LEMMA EmptyIsSeq == ASSUME NEW S PROVE <<>> \in Seq(S) /\ Len(<<>>) = 0
  OBVIOUS

LEMMA AppendFacts ==
  ASSUME NEW S, NEW s \in Seq(S), NEW x \in S
  PROVE  /\ Append(s, x) \in Seq(S)
         /\ Len(Append(s, x)) = Len(s) + 1
         /\ \A k \in 1..Len(s) : Append(s, x)[k] = s[k]
         /\ Append(s, x)[Len(s) + 1] = x
  OBVIOUS

LEMMA ExceptType ==
  ASSUME NEW S, NEW s \in Seq(S), NEW i \in DOMAIN s, NEW x \in S
  PROVE  [s EXCEPT ![i] = x] \in Seq(S)
  OBVIOUS

LEMMA ElementType == ASSUME NEW S, NEW s \in Seq(S), NEW i \in DOMAIN s PROVE s[i] \in S
  OBVIOUS

LEMMA LenType == ASSUME NEW S, NEW s \in Seq(S) PROVE Len(s) \in Nat /\ DOMAIN s = 1..Len(s)
  OBVIOUS

LEMMA ObjectType ==
  /\ \A size \in Sizes : NewObject(0, size) \in Object
  /\ \A o \in Object : Written(o) \in Object
  /\ \A o \in Object, err \in BOOLEAN : Ended(o, err) \in Object
  BY DEF NewObject, Written, Ended, Object

-----------------------------------------------------------------------------
LEMMA InitIInv == Init => IInv
  <1> SUFFICES ASSUME Init PROVE IInv
    OBVIOUS
  <1> USE ServeStreamAssumption DEF Init, Groups, None, Idle, Status
  <1>1. ids \in Seq(Nat) /\ Len(ids) = 0 /\ objects \in [Groups -> Seq(Object)]
    BY EmptyIsSeq
  <1>2. TypeOK
    <2>1. ids \in Seq(Nat) /\ Len(ids) <= MaxGroups /\ latest = Len(ids) /\ epoch = Len(ids)
      BY <1>1
    <2>2. seen \in [Readers -> 0..epoch] /\ cur \in [Readers -> 0..latest]
      OBVIOUS
    <2>3. group \in [Groups -> Status] /\ ended \in [Readers -> Status]
      OBVIOUS
    <2>4. next \in [Clones -> Nat \cup {Idle}] /\ following \in [Readers -> SUBSET Groups]
      OBVIOUS
    <2>5. pos \in [Readers -> [Groups -> Nat]]
      OBVIOUS
    <2> QED
      BY <1>1, <2>1, <2>2, <2>3, <2>4, <2>5 DEF TypeOK
  <1>3. Order /\ Appending /\ Reading
    BY <1>1 DEF Order, Appending, Reading, ReadingOf
  <1> QED
    BY <1>2, <1>3 DEF IInv

(***************************************************************************)
(* StreamWriter.                                                           *)
(***************************************************************************)
LEMMA NewGroupKeeps ==
  ASSUME IInv, NEW w \in writers, NEW n \in Nat, NewGroup(n),
         next' = next \/ next' = [next EXCEPT ![w] = Idle],
         UNCHANGED <<closed, writers, objects, reads>>
  PROVE  IInv'
  <1> USE ServeStreamAssumption DEF None, Idle
  <1>1. /\ ids' = Append(ids, n) /\ latest' = Len(ids) + 1 /\ epoch' = epoch + 1
        /\ group' = [group EXCEPT ![Len(ids) + 1] = "open"]
        /\ Len(ids) < MaxGroups /\ Accepts(n)
    BY DEF NewGroup
  <1>2. /\ ids \in Seq(Nat) /\ Len(ids) \in Nat /\ latest = Len(ids) /\ epoch = Len(ids)
        /\ next \in [Clones -> Nat \cup {Idle}] /\ group \in [Groups -> Status]
        /\ writers \subseteq Clones
        /\ seen \in [Readers -> 0..epoch] /\ cur \in [Readers -> 0..latest]
    BY LenType DEF IInv, TypeOK
  <1>3. /\ ids' \in Seq(Nat) /\ Len(ids') = Len(ids) + 1
        /\ \A k \in 1..Len(ids) : ids'[k] = ids[k]
        /\ ids'[Len(ids) + 1] = n
    BY <1>1, <1>2, AppendFacts
  <1>4. TypeOK'
    <2>1. Len(ids') <= MaxGroups /\ latest' = Len(ids') /\ epoch' = Len(ids')
      BY <1>1, <1>2, <1>3
    <2>2. next' \in [Clones -> Nat \cup {Idle}] /\ group' \in [Groups -> Status]
      BY <1>1, <1>2 DEF Status
    <2>3. seen' \in [Readers -> 0..epoch'] /\ cur' \in [Readers -> 0..latest']
      BY <1>1, <1>2 DEF reads
    <2> QED
      BY <1>3, <2>1, <2>2, <2>3 DEF IInv, TypeOK, reads
  <1>5. Order'
    <2>1. \A k \in 1..Len(ids) : ids[k] \in Nat /\ ids[k] <= n
      <3> SUFFICES ASSUME NEW k \in 1..Len(ids) PROVE ids[k] \in Nat /\ ids[k] <= n
        OBVIOUS
      <3>1. ids[k] \in Nat /\ ids[latest] \in Nat /\ ids[latest] <= n
        BY <1>1, <1>2, ElementType DEF Accepts, LatestId
      <3>2. ids[k] <= ids[latest]
        BY <1>2 DEF IInv, Order
      <3> QED
        BY <3>1, <3>2
    <2> SUFFICES ASSUME NEW i \in 1..(Len(ids) + 1), NEW j \in 1..(Len(ids) + 1), i <= j
                 PROVE  ids'[i] <= ids'[j]
      BY <1>3 DEF Order
    <2>2. CASE j \in 1..Len(ids)
      <3>1. i \in 1..Len(ids)
        BY <2>2, <1>2
      <3> QED
        BY <2>2, <3>1, <1>3 DEF IInv, Order
    <2>3. CASE j = Len(ids) + 1
      <3>1. i \in 1..Len(ids) \/ i = j
        BY <2>3, <1>2
      <3> QED
        BY <3>1, <2>1, <2>3, <1>3
    <2> QED
      BY <2>2, <2>3, <1>2
  <1>6. Appending'
    BY <1>2 DEF IInv, Appending
  <1>7. Reading'
    <2> SUFFICES ASSUME NEW r \in Readers PROVE ReadingOf(r)'
      BY DEF Reading
    <2>1. ReadingOf(r) /\ writers # {}
      BY DEF IInv, Reading
    <2> QED
      BY <2>1 DEF ReadingOf, reads
  <1> QED
    BY <1>4, <1>5, <1>6, <1>7 DEF IInv

LEMMA CreateKeeps ==
  ASSUME IInv, NEW w \in Clones, NEW n \in 0..MaxId, Create(w, n) PROVE IInv'
  <1>1. n \in Nat
    BY ServeStreamAssumption
  <1> QED
    BY <1>1, NewGroupKeeps DEF Create

LEMMA LookAppendKeeps ==
  ASSUME IInv, NEW w \in Clones, LookAppend(w) PROVE IInv'
  <1> USE DEF None
  <1>1. /\ w \in writers /\ UNCHANGED <<stream, writers, content, reads>>
        /\ next' = [next EXCEPT ![w] = IF latest = None THEN 0 ELSE LatestId + 1]
    BY DEF LookAppend
  <1>2. latest # None => LatestId \in Nat
    BY LenType, ElementType DEF IInv, TypeOK, LatestId
  <1>3. next' \in [Clones -> Nat \cup {Idle}]
    BY <1>1, <1>2 DEF IInv, TypeOK
  <1>4. TypeOK' /\ Order' /\ Reading'
    BY <1>1, <1>3 DEF IInv, TypeOK, Order, Reading, ReadingOf, stream, content, reads
  <1>5. Appending'
    BY <1>1 DEF IInv, Appending, TypeOK
  <1> QED
    BY <1>4, <1>5 DEF IInv

\* Nothing but next changes when create refuses what append computed.
LEMMA EndAppendKeeps ==
  ASSUME IInv, NEW w \in Clones, EndAppend(w) PROVE IInv'
  <1>1. /\ w \in writers /\ next[w] \in Nat
        /\ next' = [next EXCEPT ![w] = Idle]
        /\ UNCHANGED <<writers, objects, reads>>
    BY DEF EndAppend, IInv, Appending, TypeOK
  <1>2. CASE NewGroup(next[w]) /\ UNCHANGED closed
    BY <1>1, <1>2, NewGroupKeeps
  <1>3. CASE UNCHANGED <<stream, group>>
    <2>1. next' \in [Clones -> Nat \cup {Idle}]
      BY <1>1 DEF IInv, TypeOK
    <2>2. TypeOK' /\ Order' /\ Reading'
      BY <1>1, <1>3, <2>1 DEF IInv, TypeOK, Order, Reading, ReadingOf, stream, reads
    <2>3. Appending'
      BY <1>1 DEF IInv, Appending, TypeOK
    <2> QED
      BY <2>2, <2>3 DEF IInv
  <1> QED
    BY <1>2, <1>3 DEF EndAppend

LEMMA DropCloneKeeps ==
  ASSUME IInv, NEW w \in Clones, NEW err \in BOOLEAN, DropClone(w, err) PROVE IInv'
  <1>1. /\ next[w] = Idle /\ writers' = writers \ {w}
        /\ closed' = (closed \/ (err /\ readers # {}))
        /\ UNCHANGED <<ids, latest, epoch, next, content, reads>>
    BY DEF DropClone
  <1>2. TypeOK'
    BY <1>1 DEF IInv, TypeOK, content, reads
  <1>3. Order' /\ Appending'
    BY <1>1 DEF IInv, Order, Appending
  <1>4. Reading'
    BY <1>1 DEF IInv, Reading, ReadingOf, reads
  <1> QED
    BY <1>2, <1>3, <1>4 DEF IInv

(***************************************************************************)
(* StreamGroupWriter and StreamObjectWriter: the stream and its readers    *)
(* stay as they are.                                                       *)
(***************************************************************************)
LEMMA GroupStepKeeps ==
  ASSUME IInv, NEW g \in Groups, GroupStep(g) PROVE IInv'
  <1>1. objects \in [Groups -> Seq(Object)] /\ group \in [Groups -> Status]
    BY DEF IInv, TypeOK
  <1>2. UNCHANGED <<stream, writers, next, reads>>
    BY DEF GroupStep, CreateObject, EndGroup, WriteChunk, EndObject
  <1>3. group' \in [Groups -> Status] /\ objects' \in [Groups -> Seq(Object)]
    <2>1. ASSUME NEW size \in Sizes, CreateObject(g, size)
          PROVE  group' \in [Groups -> Status] /\ objects' \in [Groups -> Seq(Object)]
      <3>1. Append(objects[g], NewObject(0, size)) \in Seq(Object)
        BY <1>1, ObjectType, AppendFacts
      <3> QED
        BY <2>1, <3>1, <1>1 DEF CreateObject
    <2>2. ASSUME NEW err \in BOOLEAN, EndGroup(g, err)
          PROVE  group' \in [Groups -> Status] /\ objects' \in [Groups -> Seq(Object)]
      BY <2>2, <1>1 DEF EndGroup, Status
    <2>3. ASSUME NEW i \in DOMAIN objects[g], NEW o \in Object,
                 objects' = [objects EXCEPT ![g] = [objects[g] EXCEPT ![i] = o]]
          PROVE  objects' \in [Groups -> Seq(Object)]
      <3>1. [objects[g] EXCEPT ![i] = o] \in Seq(Object)
        BY <1>1, ExceptType
      <3> QED
        BY <2>3, <3>1, <1>1
    <2>4. ASSUME NEW i \in DOMAIN objects[g], WriteChunk(g, i)
          PROVE  group' \in [Groups -> Status] /\ objects' \in [Groups -> Seq(Object)]
      <3>1. Written(objects[g][i]) \in Object
        BY <1>1, ElementType, ObjectType
      <3> QED
        BY <2>4, <3>1, <2>3, <1>1 DEF WriteChunk
    <2>5. ASSUME NEW i \in DOMAIN objects[g], NEW err \in BOOLEAN, EndObject(g, i, err)
          PROVE  group' \in [Groups -> Status] /\ objects' \in [Groups -> Seq(Object)]
      <3>1. Ended(objects[g][i], err) \in Object
        BY <1>1, ElementType, ObjectType
      <3> QED
        BY <2>5, <3>1, <2>3, <1>1 DEF EndObject
    <2> QED
      BY <2>1, <2>2, <2>4, <2>5 DEF GroupStep
  <1> QED
    BY <1>2, <1>3 DEF IInv, TypeOK, Order, Appending, Reading, ReadingOf, stream, reads

(***************************************************************************)
(* StreamReader and StreamGroupReader.                                     *)
(***************************************************************************)
LEMMA NextGroupKeeps ==
  ASSUME IInv, NEW r \in Readers, NextGroup(r) PROVE IInv'
  <1> USE ServeStreamAssumption
  <1>1. /\ r \in readers /\ seen[r] # epoch
        /\ seen' = [seen EXCEPT ![r] = epoch] /\ cur' = [cur EXCEPT ![r] = latest]
        /\ following' = [following EXCEPT ![r] = @ \cup {latest}]
        /\ pos' = [pos EXCEPT ![r] = [pos[r] EXCEPT ![latest] = 0]]
        /\ UNCHANGED <<stream, writers, next, content, readers, ended>>
    BY DEF NextGroup, NextOf, IInv, TypeOK
  <1>2. /\ Len(ids) \in Nat /\ latest = Len(ids) /\ epoch = Len(ids) /\ Len(ids) <= MaxGroups
        /\ seen \in [Readers -> 0..epoch] /\ cur \in [Readers -> 0..latest]
        /\ following \in [Readers -> SUBSET Groups] /\ pos \in [Readers -> [Groups -> Nat]]
    BY LenType DEF IInv, TypeOK
  <1>3. latest \in Groups
    BY <1>1, <1>2 DEF Groups
  <1>4. TypeOK'
    <2>1. seen' \in [Readers -> 0..epoch] /\ cur' \in [Readers -> 0..latest]
      BY <1>1, <1>2
    <2>2. following' \in [Readers -> SUBSET Groups]
      BY <1>1, <1>2, <1>3
    <2>3. pos' \in [Readers -> [Groups -> Nat]]
      BY <1>1, <1>2, <1>3
    <2> QED
      BY <1>1, <2>1, <2>2, <2>3 DEF IInv, TypeOK, stream, content
  <1>5. Order' /\ Appending'
    BY <1>1 DEF IInv, Order, Appending, stream
  <1>6. Reading'
    <2> SUFFICES ASSUME NEW q \in Readers PROVE ReadingOf(q)'
      BY DEF Reading
    <2>1. ReadingOf(q)
      BY DEF IInv, Reading
    <2>2. CASE q = r
      BY <2>1, <2>2, <1>1, <1>2 DEF ReadingOf
    <2>3. CASE q # r
      BY <2>1, <2>3, <1>1, <1>2 DEF ReadingOf, stream
    <2> QED
      BY <2>2, <2>3
  <1> QED
    BY <1>4, <1>5, <1>6 DEF IInv

LEMMA LeavingKeeps ==
  ASSUME IInv, NEW r \in Readers, StreamEnds(r) \/ Leave(r) PROVE IInv'
  <1>1. /\ readers' = readers \ {r}
        /\ UNCHANGED <<stream, writers, next, content, seen, cur, following, pos>>
        /\ \/ ended' = ended
           \/ /\ ended' = [ended EXCEPT ![r] = IF closed THEN "failed" ELSE "done"]
              /\ seen[r] = epoch /\ (closed \/ writers = {})
    BY DEF StreamEnds, Leave, StreamOver
  <1>2. ended \in [Readers -> Status] /\ seen[r] = cur[r] /\ epoch = latest
    BY DEF IInv, TypeOK, Reading, ReadingOf
  <1>3. TypeOK'
    BY <1>1, <1>2 DEF IInv, TypeOK, stream, content, Status
  <1>4. Order' /\ Appending'
    BY <1>1 DEF IInv, Order, Appending, stream
  <1>5. Reading'
    <2> SUFFICES ASSUME NEW q \in Readers PROVE ReadingOf(q)'
      BY DEF Reading
    <2>1. ReadingOf(q)
      BY DEF IInv, Reading
    <2>2. CASE q = r
      BY <2>1, <2>2, <1>1, <1>2 DEF ReadingOf, stream
    <2>3. CASE q # r
      BY <2>1, <2>3, <1>1, <1>2 DEF ReadingOf, stream
    <2> QED
      BY <2>2, <2>3
  <1> QED
    BY <1>3, <1>4, <1>5 DEF IInv

LEMMA ReadKeeps ==
  ASSUME IInv, NEW r \in Readers, NEW g \in Groups, Read(r, g) PROVE IInv'
  <1>1. following \in [Readers -> SUBSET Groups] /\ pos \in [Readers -> [Groups -> Nat]]
    BY DEF IInv, TypeOK
  <1>2. UNCHANGED <<stream, writers, next, content, readers, seen, cur, ended>>
    BY DEF Read, ReadObject, GroupEnds
  <1>3. following' = following \/ following' = [following EXCEPT ![r] = @ \ {g}]
    BY DEF Read, ReadObject, GroupEnds, Stop
  <1>4. \/ pos' = pos
        \/ pos' = [pos EXCEPT ![r] = [pos[r] EXCEPT ![g] = pos[r][g] + 1]]
    BY <1>1 DEF Read, ReadObject, GroupEnds
  <1>5. following' \in [Readers -> SUBSET Groups]
    BY <1>1, <1>3
  <1>6. pos' \in [Readers -> [Groups -> Nat]]
    BY <1>1, <1>4
  <1> QED
    BY <1>2, <1>5, <1>6
    DEF IInv, TypeOK, Order, Appending, Reading, ReadingOf, stream, content

-----------------------------------------------------------------------------
LEMMA NextIInv == IInv /\ [Next]_vars => IInv'
  <1> SUFFICES ASSUME IInv, [Next]_vars PROVE IInv'
    OBVIOUS
  <1>1. ASSUME Writer PROVE IInv'
    BY <1>1, CreateKeeps, LookAppendKeeps, EndAppendKeeps, DropCloneKeeps, GroupStepKeeps
    DEF Writer
  <1>2. ASSUME NEW r \in Readers, Reader(r) PROVE IInv'
    BY <1>2, NextGroupKeeps, LeavingKeeps, ReadKeeps DEF Reader
  <1>3. ASSUME UNCHANGED vars PROVE IInv'
    BY <1>3
    DEF vars, IInv, TypeOK, Order, Appending, Reading, ReadingOf, stream, content, reads
  <1> QED
    BY <1>1, <1>2, <1>3 DEF Next

(***************************************************************************)
(* Every state variable keeps its type: in particular the epoch counts the *)
(* groups created, those that replace one with the same id included.       *)
(***************************************************************************)
THEOREM TypeCorrect == Spec => []TypeOK
  <1>1. IInv => TypeOK
    BY DEF IInv
  <1> QED
    BY <1>1, InitIInv, NextIInv, PTL DEF Spec

(***************************************************************************)
(* A reader told that the track ended cleanly was given the last group,    *)
(* although a clone may be between the two locks of append when the others *)
(* go.                                                                     *)
(***************************************************************************)
THEOREM CleanEnd == Spec => []EndIsLast
  <1>1. IInv => EndIsLast
    BY DEF IInv, Reading, ReadingOf, EndIsLast
  <1> QED
    BY <1>1, InitIInv, NextIInv, PTL DEF Spec

-----------------------------------------------------------------------------
\* What a step does to what the readers were given.
LEMMA StepShape ==
  ASSUME IInv, [Next]_vars
  PROVE  \/ UNCHANGED <<ids, latest, cur, ended>> /\ (writers = {} => writers' = {})
         \/ UNCHANGED <<cur, ended, writers>> /\ writers # {} /\ \E n \in Nat : NewGroup(n)
         \/ \E r \in Readers : NextGroup(r)
         \/ \E r \in Readers : StreamEnds(r)
  <1> DEFINE Quiet == UNCHANGED <<ids, latest, cur, ended>> /\ (writers = {} => writers' = {})
             Grows == /\ UNCHANGED <<cur, ended, writers>> /\ writers # {}
                      /\ \E n \in Nat : NewGroup(n)
  <1>1. ASSUME NEW w \in Clones, NEW n \in 0..MaxId, Create(w, n) PROVE Grows
    BY <1>1, ServeStreamAssumption DEF Create, reads
  <1>2. ASSUME NEW w \in Clones, EndAppend(w) PROVE Quiet \/ Grows
    <2>1. w \in writers /\ next[w] \in Nat
      BY <1>2 DEF EndAppend, IInv, Appending, TypeOK
    <2> QED
      BY <1>2, <2>1 DEF EndAppend, reads, stream
  <1>3. ASSUME NEW w \in Clones, LookAppend(w) \/ \E err \in BOOLEAN : DropClone(w, err)
        PROVE  Quiet
    BY <1>3 DEF LookAppend, DropClone, stream, reads
  <1>4. ASSUME NEW g \in Groups, GroupStep(g) PROVE Quiet
    BY <1>4 DEF GroupStep, CreateObject, EndGroup, WriteChunk, EndObject, stream, reads
  <1>5. ASSUME NEW r \in Readers, Leave(r) \/ \E g \in Groups : Read(r, g) PROVE Quiet
    BY <1>5 DEF Leave, Read, ReadObject, GroupEnds, stream
  <1>6. ASSUME UNCHANGED vars PROVE Quiet
    BY <1>6 DEF vars, stream, reads
  <1> QED
    BY <1>1, <1>2, <1>3, <1>4, <1>5, <1>6 DEF Next, Writer, Reader

(***************************************************************************)
(* Whatever the clones do at the same time, a reader is never given a      *)
(* group older than one it already had.                                    *)
(***************************************************************************)
THEOREM NoStepBack == Spec => NeverOlder
  <1>1. IInv /\ [Next]_vars =>
          [\A r \in Readers :
             cur'[r] # cur[r] /\ cur[r] # None => ids'[cur'[r]] >= ids[cur[r]]]_vars
    <2> SUFFICES ASSUME IInv, [Next]_vars, NEW q \in Readers,
                        cur'[q] # cur[q], cur[q] # None
                 PROVE  ids'[cur'[q]] >= ids[cur[q]]
      OBVIOUS
    <2>1. PICK r \in Readers : NextGroup(r)
      BY StepShape DEF StreamEnds
    <2>2. /\ ids \in Seq(Nat) /\ Len(ids) \in Nat /\ latest = Len(ids)
          /\ cur \in [Readers -> 0..latest]
      BY LenType DEF IInv, TypeOK
    <2>3. ids' = ids /\ cur'[q] = latest
      BY <2>1, <2>2 DEF NextGroup, NextOf, stream
    <2>4. cur[q] \in 1..Len(ids) /\ latest \in 1..Len(ids)
      BY <2>2 DEF None
    <2>5. ids[cur[q]] <= ids[latest] /\ ids[cur[q]] \in Nat /\ ids[latest] \in Nat
      BY <2>2, <2>4, ElementType DEF IInv, Order
    <2> QED
      BY <2>3, <2>5
  <1> QED
    BY <1>1, InitIInv, NextIInv, PTL DEF Spec, NeverOlder

(***************************************************************************)
(* To its readers a track in stream mode, too, is a cell with the latest   *)
(* group: one is given to a reader once, and the clean end after the last. *)
(***************************************************************************)
CleanlyEnded == {r \in Readers : ended[r] = "done"}

LEMMA NewGroupWrites ==
  ASSUME IInv, UNCHANGED <<cur, ended, writers>>, writers # {}, NEW n \in Nat, NewGroup(n)
  PROVE  Cell!Write
  <1>1. Len(ids) \in Nat /\ latest = Len(ids) /\ latest' = Len(ids) + 1
    BY LenType DEF IInv, TypeOK, NewGroup
  <1> QED
    BY <1>1 DEF Cell!Write

LEMMA NextGroupReads ==
  ASSUME IInv, NEW r \in Readers, NextGroup(r) PROVE Cell!Read(r)
  <1>1. /\ r \in readers /\ seen[r] # epoch /\ cur' = [cur EXCEPT ![r] = latest]
        /\ UNCHANGED <<latest, writers, ended>>
    BY DEF NextGroup, NextOf, stream
  <1>2. r \notin CleanlyEnded /\ cur[r] # latest
    BY <1>1 DEF IInv, TypeOK, Reading, ReadingOf, CleanlyEnded
  <1> QED
    BY <1>1, <1>2 DEF Cell!Read, CleanlyEnded

\* An end with an error is no end of the cell.
LEMMA StreamEndsEnds ==
  ASSUME IInv, NEW r \in Readers, StreamEnds(r)
  PROVE  Cell!End(r) \/ UNCHANGED Cell!vars
  <1>1. /\ r \in readers /\ seen[r] = epoch
        /\ closed \/ writers = {}
        /\ ended' = [ended EXCEPT ![r] = IF closed THEN "failed" ELSE "done"]
        /\ UNCHANGED <<latest, writers, cur>>
    BY DEF StreamEnds, StreamOver, stream
  <1>2. /\ ended[r] = "open" /\ cur[r] = latest /\ ended \in [Readers -> Status]
    BY <1>1 DEF IInv, TypeOK, Reading, ReadingOf
  <1>3. CASE closed
    <2>1. {q \in Readers : ended'[q] = "done"} = CleanlyEnded
      BY <1>1, <1>2, <1>3 DEF CleanlyEnded
    <2> QED
      BY <1>1, <2>1 DEF Cell!vars, CleanlyEnded
  <1>4. CASE ~closed
    <2>1. {q \in Readers : ended'[q] = "done"} = CleanlyEnded \cup {r}
      BY <1>1, <1>2, <1>4 DEF CleanlyEnded
    <2>2. r \notin CleanlyEnded
      BY <1>2 DEF CleanlyEnded
    <2> QED
      BY <1>1, <1>2, <1>4, <2>1, <2>2 DEF Cell!End, CleanlyEnded
  <1> QED
    BY <1>3, <1>4

THEOREM Refinement == Spec => ImplementsLatestValue
  <1>1. Init => Cell!Init
    BY ServeStreamAssumption DEF Init, Cell!Init, None
  <1>2. IInv /\ [Next]_vars => [Cell!Next]_Cell!vars
    <2> SUFFICES ASSUME IInv, [Next]_vars PROVE [Cell!Next]_Cell!vars
      OBVIOUS
    <2>1. CASE UNCHANGED <<ids, latest, cur, ended>> /\ (writers = {} => writers' = {})
      BY <2>1 DEF Cell!Next, Cell!Close, Cell!vars
    <2> QED
      BY <2>1, StepShape, NewGroupWrites, NextGroupReads, StreamEndsEnds DEF Cell!Next
  <1> QED
    BY <1>1, <1>2, InitIInv, NextIInv, PTL DEF Spec, ImplementsLatestValue, Cell!Spec
=============================================================================
