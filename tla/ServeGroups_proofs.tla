-------------------------- MODULE ServeGroups_proofs --------------------------
(***************************************************************************)
(* Proofs about ServeGroups: its types, its safety invariants, that        *)
(* readers only move forward, and that it implements LatestValue, for any  *)
(* number of readers, groups and objects of any size.                      *)
(***************************************************************************)
EXTENDS ServeGroups, TLAPS

(***************************************************************************)
(* The inductive invariant.  Track: the next id is one past the latest     *)
(* group, which is the newest.  Reading: a reader is behind in groups just *)
(* when it is behind in the epoch, and was told the end only when it was   *)
(* not.  Content: while anyone can come to a group, as many of its object  *)
(* ids are used up as it has objects.  Whole: the objects a reader went    *)
(* past are done, and done objects are complete.                           *)
(***************************************************************************)
Track ==
  /\ latest = None => next = 0 /\ epoch = 0 /\ made = 0
  /\ latest # None => next = id[latest] + 1 /\ epoch > 0
  /\ \A g \in 1..made : id[g] < next

ReadingOf(r) ==
  /\ seen[r] <= epoch
  /\ seen[r] = epoch => cur[r] = latest
  /\ seen[r] # epoch /\ cur[r] # None => id[cur[r]] < id[latest]
  /\ ended[r] # "open" => r \notin readers /\ writer # "open" /\ seen[r] = epoch

Reading == \A r \in Readers : ReadingOf(r)

ContentOf(g) ==
  /\ g > made => group[g] = "none" /\ objects[g] = <<>> /\ nextObject[g] = 0
  /\ Readable(g) => nextObject[g] = Len(objects[g])

Content == \A g \in Groups : ContentOf(g)

Done(o) == o.status = "done" => Complete(o)

Whole ==
  /\ \A g \in Groups : \A i \in 1..Len(objects[g]) : Done(objects[g][i])
  /\ \A r \in Readers, g \in Groups :
       /\ pos[r][g] <= Len(objects[g])
       /\ \A i \in 1..pos[r][g] : objects[g][i].status = "done"

IInv == TypeOK /\ Track /\ Reading /\ Content /\ ObjectIdsContiguous /\ Whole

-----------------------------------------------------------------------------
(***************************************************************************)
(* Sequences and objects.                                                  *)
(***************************************************************************)
LEMMA EmptyIsSeq == ASSUME NEW S PROVE <<>> \in Seq(S) /\ Len(<<>>) = 0
  OBVIOUS

LEMMA AppendFacts ==
  ASSUME NEW S, NEW s \in Seq(S), NEW x \in S
  PROVE  /\ Append(s, x) \in Seq(S)
         /\ Len(Append(s, x)) = Len(s) + 1
         /\ \A k \in 1..Len(s) : Append(s, x)[k] = s[k]
         /\ Append(s, x)[Len(s) + 1] = x
  OBVIOUS

LEMMA ExceptFacts ==
  ASSUME NEW S, NEW s \in Seq(S), NEW i \in 1..Len(s), NEW x \in S
  PROVE  /\ [s EXCEPT ![i] = x] \in Seq(S)
         /\ Len([s EXCEPT ![i] = x]) = Len(s)
         /\ [s EXCEPT ![i] = x][i] = x
         /\ \A k \in 1..Len(s) : k # i => [s EXCEPT ![i] = x][k] = s[k]
  OBVIOUS

LEMMA LenType == ASSUME NEW S, NEW s \in Seq(S) PROVE Len(s) \in Nat /\ DOMAIN s = 1..Len(s)
  OBVIOUS

LEMMA NewObjectFacts ==
  ASSUME NEW n \in Nat, NEW size \in Sizes
  PROVE  /\ NewObject(n, size) \in Object
         /\ NewObject(n, size).id = n
         /\ NewObject(n, size).status = "open"
  BY DEF NewObject, Object

LEMMA WrittenFacts ==
  ASSUME NEW o \in Object, CanWrite(o)
  PROVE  Written(o) \in Object /\ Written(o).id = o.id /\ Written(o).status = "open"
  BY DEF Written, CanWrite, Object

LEMMA EndedFacts ==
  ASSUME NEW o \in Object, NEW err \in BOOLEAN
  PROVE  Ended(o, err) \in Object /\ Ended(o, err).id = o.id /\ Done(Ended(o, err))
  BY DEF Ended, Object, Done, Complete

-----------------------------------------------------------------------------
LEMMA InitIInv == Init => IInv
  <1> SUFFICES ASSUME Init PROVE IInv
    OBVIOUS
  <1> USE ServeGroupsAssumption DEF Init, Groups, None, Writers
  <1>1. objects \in [Groups -> Seq(Object)] /\ \A g \in Groups : Len(objects[g]) = 0
    BY EmptyIsSeq
  <1>2. TypeOK
    BY <1>1 DEF TypeOK
  <1>3. Track
    BY DEF Track
  <1>4. Reading
    BY DEF Reading, ReadingOf
  <1>5. Content
    BY <1>1 DEF Content, ContentOf
  <1>6. ObjectIdsContiguous
    BY <1>1 DEF ObjectIdsContiguous
  <1>7. Whole
    BY <1>1 DEF Whole
  <1> QED
    BY <1>2, <1>3, <1>4, <1>5, <1>6, <1>7 DEF IInv

(***************************************************************************)
(* GroupsWriter.                                                           *)
(***************************************************************************)
LEMMA CreateKeeps == ASSUME IInv, NEW n \in 0..MaxId, Create(n) PROVE IInv'
  <1> USE ServeGroupsAssumption DEF None
  <1>1. /\ made \in 0..MaxGroups /\ made + 1 \in Groups /\ made' = made + 1
        /\ latest \in 0..made /\ next \in Nat /\ epoch \in Nat
        /\ id \in [Groups -> 0..MaxId] /\ id' = [id EXCEPT ![made + 1] = n]
        /\ UNCHANGED <<writer, objects, nextObject, reads>>
        /\ writer = "open" /\ readers # {}
    <2>1. /\ made \in 0..MaxGroups /\ latest \in 0..made /\ next \in Nat /\ epoch \in Nat
          /\ id \in [Groups -> 0..MaxId]
      BY DEF IInv, TypeOK
    <2>2. /\ made < MaxGroups /\ made' = made + 1 /\ id' = [id EXCEPT ![made + 1] = n]
          /\ UNCHANGED <<writer, objects, nextObject, reads>>
          /\ writer = "open" /\ readers # {}
      BY DEF Create
    <2>3. made + 1 \in Groups
      BY <2>1, <2>2 DEF Groups
    <2> QED
      BY <2>1, <2>2, <2>3
  <1>2. /\ \A g \in 1..made : id'[g] = id[g]
        /\ id'[made + 1] = n /\ 1..made' = (1..made) \cup {made + 1}
    BY <1>1 DEF Groups
  <1>3. \/ Newer(n) /\ latest' = made + 1 /\ next' = n + 1 /\ epoch' = epoch + 1
        \/ Older(n) /\ UNCHANGED <<latest, next, epoch>>
    BY DEF Create, SetLatest
  <1>4. Track
    BY DEF IInv
  <1>5. TypeOK'
    <2>1. group' \in [Groups -> Writers]
      BY DEF Create, IInv, TypeOK, Writers
    <2>2. id' \in [Groups -> 0..MaxId] /\ made' \in 0..MaxGroups
      BY <1>1 DEF Create
    <2>3. latest' \in 0..made' /\ epoch' \in Nat /\ next' \in Nat
      BY <1>1, <1>3
    <2>4. /\ cur' \in [Readers -> 0..made'] /\ following' \in [Readers -> SUBSET (1..made')]
      BY <1>1, <1>2 DEF IInv, TypeOK, reads
    <2> QED
      BY <2>1, <2>2, <2>3, <2>4, <1>1 DEF IInv, TypeOK, reads
  <1>6. Track'
    <2>1. CASE Newer(n) /\ latest' = made + 1 /\ next' = n + 1 /\ epoch' = epoch + 1
      <3>1. \A g \in 1..made : id[g] < n + 1
        BY <2>1, <1>1, <1>4 DEF Newer, Track, Groups
      <3> QED
        BY <2>1, <3>1, <1>1, <1>2 DEF Track
    <2>2. CASE Older(n) /\ UNCHANGED <<latest, next, epoch>>
      <3>1. n < next /\ latest \in 1..made
        BY <2>2, <1>1, <1>4 DEF Older, Track, Groups
      <3> QED
        BY <2>2, <3>1, <1>1, <1>2, <1>4 DEF Track
    <2> QED
      BY <1>3, <2>1, <2>2
  <1>7. Reading'
    <2> SUFFICES ASSUME NEW r \in Readers PROVE ReadingOf(r)'
      BY DEF Reading
    <2>1. ReadingOf(r) /\ cur[r] \in 0..made /\ seen[r] \in Nat
      BY DEF IInv, Reading, TypeOK
    <2>2. cur'[r] = cur[r] /\ seen'[r] = seen[r] /\ ended'[r] = ended[r] /\ ended[r] = "open"
      BY <2>1, <1>1 DEF reads, ReadingOf
    <2>3. CASE Newer(n) /\ latest' = made + 1 /\ next' = n + 1 /\ epoch' = epoch + 1
      <3>1. cur[r] # None => cur[r] \in 1..made /\ id[cur[r]] < n
        <4>1. CASE latest = None
          BY <4>1, <2>1, <1>1, <1>4 DEF Track
        <4>2. CASE latest # None
          <5>1. latest \in 1..made /\ id[latest] \in Nat /\ id[latest] < n
            BY <4>2, <2>3, <1>1 DEF Newer, Groups
          <5>2. cur[r] # None => cur[r] \in 1..made /\ id[cur[r]] \in Nat
            BY <2>1, <1>1 DEF Groups
          <5>3. cur[r] # None => cur[r] = latest \/ id[cur[r]] < id[latest]
            BY <2>1 DEF ReadingOf
          <5> QED
            BY <1>1, <5>1, <5>2, <5>3
        <4> QED
          BY <4>1, <4>2
      <3> QED
        BY <3>1, <2>1, <2>2, <2>3, <1>1, <1>2 DEF ReadingOf
    <2>4. CASE Older(n) /\ UNCHANGED <<latest, next, epoch>>
      <3>1. latest \in 1..made
        BY <2>4, <1>1 DEF Older
      <3> QED
        BY <3>1, <2>1, <2>2, <2>4, <1>1, <1>2 DEF ReadingOf
    <2> QED
      BY <1>3, <2>3, <2>4
  <1>8. Content'
    <2> SUFFICES ASSUME NEW g \in Groups PROVE ContentOf(g)'
      BY DEF Content, Groups
    <2>1. ContentOf(g) /\ g \in Nat
      BY DEF IInv, Content, Groups
    <2>2. /\ objects'[g] = objects[g] /\ nextObject'[g] = nextObject[g]
          /\ g # made + 1 => group'[g] = group[g]
      BY <1>1 DEF Create, IInv, TypeOK
    <2>3. Readable(g)' => Readable(g) \/ g = made + 1
      BY <1>1, <1>3 DEF Readable, reads
    <2> QED
      BY <2>1, <2>2, <2>3, <1>1, EmptyIsSeq DEF ContentOf
  <1>9. ObjectIdsContiguous' /\ Whole'
    BY <1>1 DEF IInv, ObjectIdsContiguous, Whole, reads, Done, Complete, Groups
  <1> QED
    BY <1>5, <1>6, <1>7, <1>8, <1>9 DEF IInv

LEMMA EndTrackKeeps == ASSUME IInv, NEW err \in BOOLEAN, EndTrack(err) PROVE IInv'
  <1>1. /\ writer = "open" /\ writer' \in Writers \ {"none", "open"}
        /\ UNCHANGED <<made, id, latest, epoch, next, content, reads>>
    BY DEF EndTrack, Outcome, Writers
  <1>2. TypeOK'
    BY <1>1 DEF IInv, TypeOK, content, reads
  <1>3. Track'
    BY <1>1 DEF IInv, Track
  <1>4. Reading'
    BY <1>1 DEF IInv, Reading, ReadingOf, reads
  <1>5. Content'
    <2>1. \A g \in Groups : Readable(g)' => Readable(g)
      BY <1>1 DEF Readable, reads
    <2> QED
      BY <2>1, <1>1 DEF IInv, Content, ContentOf, content, Groups
  <1>6. ObjectIdsContiguous' /\ Whole'
    BY <1>1 DEF IInv, ObjectIdsContiguous, Whole, reads, content, Done, Complete, Groups
  <1> QED
    BY <1>2, <1>3, <1>4, <1>5, <1>6 DEF IInv

(***************************************************************************)
(* GroupWriter and GroupObjectWriter: the track and its readers stay.      *)
(***************************************************************************)
LEMMA SameTrack ==
  ASSUME IInv, UNCHANGED <<track, reads>>
  PROVE  /\ Track' /\ Reading'
         /\ \A g \in Groups : Readable(g)' <=> Readable(g)
         /\ group' \in [Groups -> Writers] /\ objects' \in [Groups -> Seq(Object)]
            /\ nextObject' \in [Groups -> Nat] => TypeOK'
  <1>1. Track'
    BY DEF IInv, Track, track
  <1>2. Reading'
    BY DEF IInv, Reading, ReadingOf, track, reads
  <1>3. \A g \in Groups : Readable(g)' <=> Readable(g)
    BY DEF Readable, track, reads
  <1>4. ASSUME group' \in [Groups -> Writers], objects' \in [Groups -> Seq(Object)],
               nextObject' \in [Groups -> Nat]
        PROVE  TypeOK'
    BY <1>4 DEF IInv, TypeOK, track, reads
  <1> QED
    BY <1>1, <1>2, <1>3, <1>4

LEMMA CreateObjectKeeps ==
  ASSUME IInv, NEW g \in Groups, NEW size \in Sizes, CreateObject(g, size)
  PROVE  IInv'
  <1> USE ServeGroupsAssumption
  <1>1. /\ UNCHANGED <<track, group, reads>>
        /\ nextObject' = [nextObject EXCEPT ![g] = @ + 1]
        /\ objects' = Pushed(g, size)
        /\ objects \in [Groups -> Seq(Object)] /\ nextObject \in [Groups -> Nat]
        /\ group \in [Groups -> Writers]
    BY DEF CreateObject, IInv, TypeOK
  <1>0. ~(g > made)
    BY DEF CreateObject, IInv, Content, ContentOf
  <1> DEFINE s == objects[g]
  <1> DEFINE o == NewObject(nextObject[g], size)
  <1>2. o \in Object /\ o.id = nextObject[g] /\ Done(o)
    BY <1>1, NewObjectFacts DEF Done
  <1>3. /\ Append(s, o) \in Seq(Object) /\ Len(Append(s, o)) = Len(s) + 1 /\ Len(s) \in Nat
        /\ \A k \in 1..Len(s) : Append(s, o)[k] = s[k]
        /\ Append(s, o)[Len(s) + 1] = o
        /\ 1..(Len(s) + 1) = (1..Len(s)) \cup {Len(s) + 1}
    BY <1>1, <1>2, AppendFacts, LenType
  <1> HIDE DEF o
  <1>4. CASE ~Readable(g)
    <2>1. objects' = objects
      BY <1>1, <1>4 DEF Pushed
    <2>2. Content'
      <3> SUFFICES ASSUME NEW h \in Groups PROVE ContentOf(h)'
        BY <1>1 DEF Content, Groups, track
      <3>1. ContentOf(h) /\ (Readable(h)' <=> Readable(h)) /\ made' = made
        BY <1>1, SameTrack DEF IInv, Content, track
      <3>2. CASE h = g
        BY <3>1, <3>2, <1>0, <1>4 DEF ContentOf
      <3>3. CASE h # g
        BY <3>1, <3>3, <2>1, <1>1 DEF ContentOf
      <3> QED
        BY <3>2, <3>3
    <2>3. ObjectIdsContiguous' /\ Whole'
      BY <2>1, <1>1 DEF IInv, ObjectIdsContiguous, Whole, reads, Done, Complete
    <2>4. TypeOK' /\ Track' /\ Reading'
      BY <2>1, <1>1, SameTrack
    <2> QED
      BY <2>2, <2>3, <2>4 DEF IInv
  <1>5. CASE Readable(g)
    <2>1. objects' = [objects EXCEPT ![g] = Append(s, o)]
      BY <1>1, <1>5 DEF Pushed, o
    <2>2. nextObject[g] = Len(s)
      BY <1>5 DEF IInv, Content, ContentOf
    <2>3. objects'[g] = Append(s, o) /\ \A h \in Groups \ {g} : objects'[h] = objects[h]
      BY <2>1, <1>1
    <2>4. Content'
      <3> SUFFICES ASSUME NEW h \in Groups PROVE ContentOf(h)'
        BY <1>1 DEF Content, Groups, track
      <3>1. ContentOf(h) /\ (Readable(h)' <=> Readable(h)) /\ made' = made
        BY <1>1, SameTrack DEF IInv, Content, track
      <3>2. CASE h = g
        BY <3>1, <3>2, <1>0, <2>2, <2>3, <1>1, <1>3 DEF ContentOf
      <3>3. CASE h # g
        BY <3>1, <3>3, <2>3, <1>1 DEF ContentOf
      <3> QED
        BY <3>2, <3>3
    <2>5. ObjectIdsContiguous'
      <3> SUFFICES ASSUME NEW h \in Groups, NEW i \in DOMAIN objects'[h]
                   PROVE  objects'[h][i].id = i - 1
        BY DEF ObjectIdsContiguous, Groups
      <3>1. CASE h = g
        <4>1. i \in (1..Len(s)) \cup {Len(s) + 1}
          BY <3>1, <2>3, <1>3, LenType
        <4>2. \A k \in 1..Len(s) : s[k].id = k - 1
          BY <1>1, LenType DEF IInv, ObjectIdsContiguous
        <4> QED
          BY <3>1, <4>1, <4>2, <2>2, <2>3, <1>2, <1>3
      <3>2. CASE h # g
        BY <3>2, <2>3 DEF IInv, ObjectIdsContiguous
      <3> QED
        BY <3>1, <3>2
    <2>6. Whole'
      <3>1. \A h \in Groups : \A i \in 1..Len(objects[h]) : objects'[h][i] = objects[h][i]
        BY <2>3, <1>3
      <3>2. ASSUME NEW h \in Groups
            PROVE  /\ Len(objects[h]) \in Nat /\ Len(objects'[h]) \in Nat
                   /\ Len(objects[h]) <= Len(objects'[h])
        <4>1. CASE h = g
          BY <4>1, <2>3, <1>3
        <4>2. CASE h # g
          BY <4>2, <2>3, <1>1, LenType
        <4> QED
          BY <4>1, <4>2
      <3>3. \A h \in Groups : \A i \in 1..Len(objects'[h]) : Done(objects'[h][i])
        <4> SUFFICES ASSUME NEW h \in Groups, NEW i \in 1..Len(objects'[h])
                     PROVE  Done(objects'[h][i])
          OBVIOUS
        <4>1. CASE h = g /\ i = Len(s) + 1
          BY <4>1, <2>3, <1>2, <1>3
        <4>2. CASE ~(h = g /\ i = Len(s) + 1)
          <5>1. i \in 1..Len(objects[h])
            BY <4>2, <2>3, <1>3
          <5> QED
            BY <5>1, <3>1 DEF IInv, Whole
        <4> QED
          BY <4>1, <4>2
      <3>4. \A r \in Readers, h \in Groups :
              /\ pos[r][h] <= Len(objects'[h])
              /\ \A i \in 1..pos[r][h] : objects'[h][i].status = "done"
        <4> SUFFICES ASSUME NEW r \in Readers, NEW h \in Groups
                     PROVE  /\ pos[r][h] <= Len(objects'[h])
                            /\ \A i \in 1..pos[r][h] : objects'[h][i].status = "done"
          OBVIOUS
        <4>1. /\ pos[r][h] \in Nat /\ pos[r][h] <= Len(objects[h])
              /\ \A i \in 1..pos[r][h] : objects[h][i].status = "done"
          BY DEF IInv, Whole, TypeOK
        <4>2. \A i \in 1..pos[r][h] : i \in 1..Len(objects[h])
          BY <4>1, <3>2
        <4> QED
          BY <4>1, <4>2, <3>1, <3>2
      <3> QED
        BY <3>3, <3>4, <1>1 DEF Whole, reads, Groups, Done, Complete
    <2>7. objects' \in [Groups -> Seq(Object)] /\ nextObject' \in [Groups -> Nat]
      BY <2>1, <1>1, <1>3
    <2>8. TypeOK' /\ Track' /\ Reading'
      BY <2>7, <1>1, SameTrack
    <2> QED
      BY <2>4, <2>5, <2>6, <2>8 DEF IInv
  <1> QED
    BY <1>4, <1>5

LEMMA ReplaceObject ==
  ASSUME IInv, NEW g \in Groups, NEW i \in 1..Len(objects[g]), NEW o \in Object,
         objects[g][i].status = "open", o.id = objects[g][i].id, Done(o),
         objects' = [objects EXCEPT ![g] = [objects[g] EXCEPT ![i] = o]],
         UNCHANGED <<track, group, nextObject, reads>>
  PROVE  IInv'
  <1> DEFINE s == [objects[g] EXCEPT ![i] = o]
  <1>1. /\ objects \in [Groups -> Seq(Object)] /\ nextObject \in [Groups -> Nat]
        /\ group \in [Groups -> Writers]
    BY DEF IInv, TypeOK
  <1>2. /\ s \in Seq(Object) /\ Len(s) = Len(objects[g]) /\ s[i] = o
        /\ \A k \in 1..Len(objects[g]) : k # i => s[k] = objects[g][k]
    BY <1>1, ExceptFacts
  <1> HIDE DEF s
  <1>3. objects' = [objects EXCEPT ![g] = s]
    BY DEF s
  <1>4. objects'[g] = s /\ \A h \in Groups \ {g} : objects'[h] = objects[h]
    BY <1>1, <1>3
  <1>5. /\ \A h \in Groups : objects'[h] \in Seq(Object) /\ Len(objects'[h]) = Len(objects[h])
        /\ objects' \in [Groups -> Seq(Object)]
    BY <1>1, <1>2, <1>3, <1>4
  <1>6. \A h \in Groups : \A k \in 1..Len(objects[h]) :
          /\ objects'[h][k].id = objects[h][k].id
          /\ Done(objects[h][k]) => Done(objects'[h][k])
          /\ objects[h][k].status = "done" => objects'[h][k].status = "done"
    <2> SUFFICES ASSUME NEW h \in Groups, NEW k \in 1..Len(objects[h])
                 PROVE  /\ objects'[h][k].id = objects[h][k].id
                        /\ Done(objects[h][k]) => Done(objects'[h][k])
                        /\ objects[h][k].status = "done" => objects'[h][k].status = "done"
      OBVIOUS
    <2>1. CASE h = g /\ k = i
      BY <2>1, <1>2, <1>4
    <2>2. CASE ~(h = g /\ k = i)
      <3>1. objects'[h][k] = objects[h][k]
        BY <2>2, <1>2, <1>4
      <3> QED
        BY <3>1
    <2> QED
      BY <2>1, <2>2
  <1>7. TypeOK' /\ Track' /\ Reading'
    BY <1>1, <1>5, SameTrack
  <1>8. Content'
    <2> SUFFICES ASSUME NEW h \in Groups PROVE ContentOf(h)'
      BY DEF Content, Groups
    <2>1. ContentOf(h) /\ (Readable(h)' <=> Readable(h)) /\ made' = made
      BY SameTrack DEF IInv, Content, track
    <2>2. h > made => h # g
      <3>1. Len(objects[g]) # 0
        BY <1>1, LenType
      <3>2. ContentOf(g)
        BY DEF IInv, Content
      <3> QED
        BY <3>1, <3>2, EmptyIsSeq DEF ContentOf
    <2> QED
      BY <2>1, <2>2, <1>4, <1>5 DEF ContentOf
  <1>9. ObjectIdsContiguous'
    <2> SUFFICES ASSUME NEW h \in Groups, NEW k \in DOMAIN objects'[h]
                 PROVE  objects'[h][k].id = k - 1
      BY DEF ObjectIdsContiguous, Groups
    <2>1. k \in 1..Len(objects[h]) /\ DOMAIN objects[h] = 1..Len(objects[h])
      BY <1>1, <1>5, LenType
    <2> QED
      BY <2>1, <1>6 DEF IInv, ObjectIdsContiguous
  <1>10. Whole'
    <2>1. \A h \in Groups : \A k \in 1..Len(objects'[h]) : Done(objects'[h][k])
      BY <1>5, <1>6 DEF IInv, Whole
    <2>2. ASSUME NEW r \in Readers, NEW h \in Groups
          PROVE  /\ pos[r][h] <= Len(objects'[h])
                 /\ \A k \in 1..pos[r][h] : objects'[h][k].status = "done"
      <3>1. /\ pos[r][h] \in Nat /\ pos[r][h] <= Len(objects[h]) /\ Len(objects[h]) \in Nat
            /\ \A k \in 1..pos[r][h] : objects[h][k].status = "done"
        BY <1>1, LenType DEF IInv, Whole, TypeOK
      <3>2. \A k \in 1..pos[r][h] : k \in 1..Len(objects[h])
        BY <3>1
      <3> QED
        BY <3>1, <3>2, <1>5, <1>6
    <2> QED
      BY <2>1, <2>2 DEF Whole, reads, Groups, Done, Complete
  <1> QED
    BY <1>7, <1>8, <1>9, <1>10 DEF IInv

LEMMA WriteChunkKeeps ==
  ASSUME IInv, NEW g \in Groups, NEW i \in DOMAIN objects[g], WriteChunk(g, i)
  PROVE  IInv'
  <1> DEFINE o == objects[g][i]
  <1>1. objects \in [Groups -> Seq(Object)] /\ i \in 1..Len(objects[g]) /\ o \in Object
    BY LenType DEF IInv, TypeOK
  <1>2. /\ CanWrite(o) /\ UNCHANGED <<track, group, nextObject, reads>>
        /\ objects' = [objects EXCEPT ![g] = [objects[g] EXCEPT ![i] = Written(o)]]
    BY <1>1 DEF WriteChunk
  <1>3. /\ Written(o) \in Object /\ Written(o).id = o.id /\ Written(o).status = "open"
        /\ o.status = "open"
    BY <1>1, <1>2, WrittenFacts DEF CanWrite
  <1>4. Done(Written(o))
    BY <1>3 DEF Done
  <1> QED
    BY <1>1, <1>2, <1>3, <1>4, ReplaceObject

LEMMA EndObjectKeeps ==
  ASSUME IInv, NEW g \in Groups, NEW i \in DOMAIN objects[g], NEW err \in BOOLEAN,
         EndObject(g, i, err)
  PROVE  IInv'
  <1> DEFINE o == objects[g][i]
  <1>1. objects \in [Groups -> Seq(Object)] /\ i \in 1..Len(objects[g]) /\ o \in Object
    BY LenType DEF IInv, TypeOK
  <1>2. /\ o.status = "open" /\ UNCHANGED <<track, group, nextObject, reads>>
        /\ objects' = [objects EXCEPT ![g] = [objects[g] EXCEPT ![i] = Ended(o, err)]]
    BY <1>1 DEF EndObject
  <1> QED
    BY <1>1, <1>2, EndedFacts, ReplaceObject

LEMMA EndGroupKeeps ==
  ASSUME IInv, NEW g \in Groups, NEW err \in BOOLEAN, EndGroup(g, err) PROVE IInv'
  <1>1. /\ group[g] = "open" /\ UNCHANGED <<track, objects, nextObject, reads>>
        /\ group' = [group EXCEPT ![g] = Outcome(err)]
    BY DEF EndGroup
  <1>2. group' \in [Groups -> Writers] /\ \A h \in Groups \ {g} : group'[h] = group[h]
    BY <1>1 DEF IInv, TypeOK, Outcome, Writers
  <1>3. TypeOK' /\ Track' /\ Reading'
    BY <1>1, <1>2, SameTrack DEF IInv, TypeOK
  <1>4. Content'
    <2> SUFFICES ASSUME NEW h \in Groups PROVE ContentOf(h)'
      BY DEF Content, Groups
    <2>1. ContentOf(h) /\ ContentOf(g) /\ (Readable(h)' <=> Readable(h)) /\ made' = made
      BY <1>1, SameTrack DEF IInv, Content, track
    <2> QED
      BY <2>1, <1>1, <1>2 DEF ContentOf
  <1>5. ObjectIdsContiguous' /\ Whole'
    BY <1>1 DEF IInv, ObjectIdsContiguous, Whole, reads, Done, Complete, Groups
  <1> QED
    BY <1>3, <1>4, <1>5 DEF IInv

(***************************************************************************)
(* The readers.                                                            *)
(***************************************************************************)
LEMMA NextGroupKeeps == ASSUME IInv, NEW r \in Readers, NextGroup(r) PROVE IInv'
  <1> USE ServeGroupsAssumption DEF None
  <1>1. /\ r \in readers /\ seen[r] # epoch
        /\ seen' = [seen EXCEPT ![r] = epoch] /\ cur' = [cur EXCEPT ![r] = latest]
        /\ following' = [following EXCEPT ![r] = @ \cup {latest}]
        /\ pos' = [pos EXCEPT ![r] = [pos[r] EXCEPT ![latest] = 0]]
        /\ UNCHANGED <<track, content, readers, ended>>
    BY DEF NextGroup, Follow, IInv, TypeOK
  <1>2. /\ seen \in [Readers -> Nat] /\ epoch \in Nat /\ made \in 0..MaxGroups
        /\ latest \in 0..made /\ pos \in [Readers -> [Groups -> Nat]]
        /\ following \in [Readers -> SUBSET (1..made)] /\ cur \in [Readers -> 0..made]
        /\ UNCHANGED <<made, id, latest, epoch, next, writer, group, objects, nextObject>>
    BY <1>1 DEF IInv, TypeOK, track, content
  <1>3. latest \in 1..made /\ latest \in Groups
    BY <1>1, <1>2 DEF IInv, Track, Reading, ReadingOf, Groups
  <1>4. TypeOK'
    <2>1. seen' \in [Readers -> Nat] /\ cur' \in [Readers -> 0..made']
      BY <1>1, <1>2
    <2>2. following' \in [Readers -> SUBSET (1..made')]
      BY <1>1, <1>2, <1>3
    <2>3. pos' \in [Readers -> [Groups -> Nat]]
      BY <1>1, <1>2
    <2> QED
      BY <2>1, <2>2, <2>3, <1>1, <1>2 DEF IInv, TypeOK
  <1>5. Track'
    BY <1>2 DEF IInv, Track
  <1>6. Reading'
    <2> SUFFICES ASSUME NEW q \in Readers PROVE ReadingOf(q)'
      BY DEF Reading
    <2>1. ReadingOf(q) /\ ReadingOf(r)
      BY DEF IInv, Reading
    <2>2. CASE q = r
      <3>1. seen'[r] = epoch /\ cur'[r] = latest /\ ended'[r] = ended[r] /\ ended[r] = "open"
        BY <2>1, <1>1, <1>2 DEF ReadingOf
      <3> QED
        BY <2>2, <3>1, <1>2 DEF ReadingOf
    <2>3. CASE q # r
      <3>1. seen'[q] = seen[q] /\ cur'[q] = cur[q] /\ ended'[q] = ended[q]
        BY <2>3, <1>1, <1>2
      <3> QED
        BY <2>1, <3>1, <1>1, <1>2 DEF ReadingOf
    <2> QED
      BY <2>2, <2>3
  <1>7. Content'
    <2> SUFFICES ASSUME NEW g \in Groups PROVE ContentOf(g)'
      BY <1>1 DEF Content, Groups
    <2>1. ContentOf(g)
      BY DEF IInv, Content
    <2>2. Readable(g)' => Readable(g)
      <3>1. \A q \in Readers : g \in following'[q] => g \in following[q] \/ g = latest
        BY <1>1, <1>2
      <3>2. readers # {} /\ readers' = readers
        BY <1>1
      <3> QED
        BY <3>1, <3>2, <1>2 DEF Readable
    <2> QED
      BY <2>1, <2>2, <1>2 DEF ContentOf
  <1>8. ObjectIdsContiguous'
    BY <1>2 DEF IInv, ObjectIdsContiguous
  <1>9. Whole'
    <2>1. ASSUME NEW q \in Readers, NEW g \in Groups
          PROVE  pos'[q][g] = 0 \/ pos'[q][g] = pos[q][g]
      BY <1>1, <1>2
    <2>2. \A g \in Groups : Len(objects[g]) \in Nat
      BY LenType DEF IInv, TypeOK
    <2>3. ASSUME NEW q \in Readers, NEW g \in Groups
          PROVE  /\ pos'[q][g] <= Len(objects[g])
                 /\ \A i \in 1..pos'[q][g] : objects[g][i].status = "done"
      BY <2>1, <2>2 DEF IInv, Whole
    <2> QED
      BY <2>3, <1>2 DEF IInv, Whole, Done, Complete, Groups
  <1> QED
    BY <1>4, <1>5, <1>6, <1>7, <1>8, <1>9 DEF IInv

LEMMA LeavingKeeps ==
  ASSUME IInv, NEW r \in Readers, TrackEnds(r) \/ Leave(r) PROVE IInv'
  <1>1. /\ readers' = readers \ {r} /\ r \in readers
        /\ UNCHANGED <<track, content, seen, cur, following, pos>>
        /\ \/ ended' = ended
           \/ ended' = [ended EXCEPT ![r] = writer] /\ seen[r] = epoch /\ writer # "open"
    BY DEF TrackEnds, Leave
  <1>2. UNCHANGED <<made, id, latest, epoch, next, writer, group, objects, nextObject>>
    BY <1>1 DEF track, content
  <1>3. ended \in [Readers -> Writers \ {"none"}] /\ writer \in Writers \ {"none"}
    BY DEF IInv, TypeOK
  <1>4. TypeOK'
    BY <1>1, <1>2, <1>3 DEF IInv, TypeOK
  <1>5. Track'
    BY <1>2 DEF IInv, Track
  <1>6. Reading'
    <2> SUFFICES ASSUME NEW q \in Readers PROVE ReadingOf(q)'
      BY DEF Reading
    <2>1. ReadingOf(q)
      BY DEF IInv, Reading
    <2>2. ended'[q] # "open" =>
            ended[q] # "open" \/ (q = r /\ seen[r] = epoch /\ writer # "open")
      BY <1>1, <1>3
    <2> QED
      BY <2>1, <2>2, <1>1, <1>2 DEF ReadingOf
  <1>7. Content'
    <2>1. \A g \in Groups : Readable(g)' => Readable(g)
      BY <1>1, <1>2 DEF Readable
    <2> QED
      BY <2>1, <1>2 DEF IInv, Content, ContentOf, Groups
  <1>8. ObjectIdsContiguous' /\ Whole'
    BY <1>1, <1>2 DEF IInv, ObjectIdsContiguous, Whole, Done, Complete, Groups
  <1> QED
    BY <1>4, <1>5, <1>6, <1>7, <1>8 DEF IInv

LEMMA ReadKeeps ==
  ASSUME IInv, NEW r \in Readers, NEW g \in Groups, Read(r, g) \/ StopReading(r, g)
  PROVE  IInv'
  <1>1. /\ following \in [Readers -> SUBSET (1..made)]
        /\ pos \in [Readers -> [Groups -> Nat]]
        /\ objects \in [Groups -> Seq(Object)] /\ Len(objects[g]) \in Nat
    BY LenType DEF IInv, TypeOK
  <1>2. UNCHANGED <<track, content, readers, seen, cur, ended>>
    BY DEF Read, NextObject, GroupEnds, StopReading
  <1>3. \/ pos' = pos
        \/ /\ pos' = [pos EXCEPT ![r] = [pos[r] EXCEPT ![g] = pos[r][g] + 1]]
           /\ pos[r][g] < Len(objects[g])
           /\ objects[g][pos[r][g] + 1].status = "done"
    BY <1>1 DEF Read, NextObject, GroupEnds, StopReading
  <1>4. following' = following \/ following' = [following EXCEPT ![r] = @ \ {g}]
    BY DEF Read, NextObject, GroupEnds, StopReading, Stop
  <1>5. /\ following' \in [Readers -> SUBSET (1..made)]
        /\ \A q \in Readers : following'[q] \subseteq following[q]
    BY <1>1, <1>4
  <1>6. UNCHANGED <<made, id, latest, epoch, next, writer, group, objects, nextObject>>
    BY <1>2 DEF track, content
  <1>7. pos' \in [Readers -> [Groups -> Nat]]
    <2>1. pos[r] \in [Groups -> Nat] /\ pos[r][g] + 1 \in Nat
      BY <1>1
    <2>2. [pos[r] EXCEPT ![g] = pos[r][g] + 1] \in [Groups -> Nat]
      BY <2>1
    <2> QED
      BY <2>2, <1>1, <1>3
  <1>8. TypeOK'
    BY <1>2, <1>5, <1>6, <1>7 DEF IInv, TypeOK
  <1>9. Track' /\ Reading'
    BY <1>2, <1>6 DEF IInv, Track, Reading, ReadingOf
  <1>10. Content'
    <2>1. \A h \in Groups : Readable(h)' => Readable(h)
      BY <1>2, <1>5, <1>6 DEF Readable
    <2> QED
      BY <2>1, <1>6 DEF IInv, Content, ContentOf, Groups
  <1>11. ObjectIdsContiguous'
    BY <1>6 DEF IInv, ObjectIdsContiguous
  <1>12. Whole'
    <2>1. ASSUME NEW q \in Readers, NEW h \in Groups
          PROVE  /\ pos'[q][h] <= Len(objects[h])
                 /\ \A i \in 1..pos'[q][h] : objects[h][i].status = "done"
      <3>1. /\ pos[q][h] \in Nat /\ pos[q][h] <= Len(objects[h])
            /\ \A i \in 1..pos[q][h] : objects[h][i].status = "done"
        BY <1>1 DEF IInv, Whole
      <3>2. \/ pos'[q][h] = pos[q][h]
            \/ /\ q = r /\ h = g /\ pos'[q][h] = pos[q][h] + 1
               /\ pos[q][h] < Len(objects[h])
               /\ objects[h][pos[q][h] + 1].status = "done"
        BY <1>1, <1>3
      <3>3. \A i \in 1..(pos[q][h] + 1) : i \in 1..pos[q][h] \/ i = pos[q][h] + 1
        BY <3>1
      <3> QED
        BY <3>1, <3>2, <3>3, <1>1
    <2> QED
      BY <2>1, <1>6 DEF IInv, Whole, Done, Complete, Groups
  <1> QED
    BY <1>8, <1>9, <1>10, <1>11, <1>12 DEF IInv

-----------------------------------------------------------------------------
LEMMA NextIInv == IInv /\ [Next]_vars => IInv'
  <1> SUFFICES ASSUME IInv, [Next]_vars PROVE IInv'
    OBVIOUS
  <1>1. ASSUME NEW n \in 0..MaxId, Create(n) PROVE IInv'
    BY <1>1, CreateKeeps
  <1>2. ASSUME AppendGroup PROVE IInv'
    <2>1. next \in 0..MaxId /\ Create(next)
      BY <1>2, ServeGroupsAssumption DEF AppendGroup, IInv, TypeOK
    <2> QED
      BY <2>1, CreateKeeps
  <1>3. ASSUME NEW err \in BOOLEAN, EndTrack(err) PROVE IInv'
    BY <1>3, EndTrackKeeps
  <1>4. ASSUME NEW g \in Groups, GroupStep(g) PROVE IInv'
    BY <1>4, CreateObjectKeeps, EndGroupKeeps, WriteChunkKeeps, EndObjectKeeps DEF GroupStep
  <1>5. ASSUME NEW r \in Readers, Reader(r) PROVE IInv'
    BY <1>5, NextGroupKeeps, LeavingKeeps, ReadKeeps DEF Reader
  <1>6. ASSUME UNCHANGED vars PROVE IInv'
    <2>1. UNCHANGED <<track, content, reads>>
      BY <1>6 DEF vars
    <2>2. TypeOK' /\ Track' /\ Reading'
      BY <2>1, SameTrack DEF IInv, TypeOK, content
    <2>3. Content'
      BY <2>1, SameTrack DEF IInv, Content, ContentOf, track, content, Groups
    <2>4. ObjectIdsContiguous' /\ Whole'
      BY <2>1 DEF IInv, ObjectIdsContiguous, Whole, reads, content, Done, Complete, Groups
    <2> QED
      BY <2>2, <2>3, <2>4 DEF IInv
  <1> QED
    BY <1>1, <1>2, <1>3, <1>4, <1>5, <1>6 DEF Next, Writer

-----------------------------------------------------------------------------
(***************************************************************************)
(* Every state variable keeps its type.                                    *)
(***************************************************************************)
THEOREM TypeCorrect == Spec => []TypeOK
  <1>1. IInv => TypeOK
    BY DEF IInv
  <1> QED
    BY <1>1, InitIInv, NextIInv, PTL DEF Spec

(***************************************************************************)
(* append always makes a new latest group, whatever ids create was called  *)
(* with before.                                                            *)
(***************************************************************************)
THEOREM AppendFresh == Spec => []AppendIsFresh
  <1>1. IInv => AppendIsFresh
    BY DEF IInv, Track, AppendIsFresh
  <1> QED
    BY <1>1, InitIInv, NextIInv, PTL DEF Spec

(***************************************************************************)
(* The object ids of a group have no gap, though a create that failed      *)
(* uses up an id.                                                          *)
(***************************************************************************)
THEOREM Contiguous == Spec => []ObjectIdsContiguous
  <1>1. IInv => ObjectIdsContiguous
    BY DEF IInv
  <1> QED
    BY <1>1, InitIInv, NextIInv, PTL DEF Spec

(***************************************************************************)
(* A reader that went past an object had all of it.                        *)
(***************************************************************************)
THEOREM WholeObjects == Spec => []NoTruncation
  <1>1. IInv => NoTruncation
    <2> SUFFICES ASSUME IInv, NEW r \in Readers, NEW g \in Groups, NEW i \in 1..pos[r][g]
                 PROVE  Complete(objects[g][i])
      BY DEF NoTruncation
    <2>1. /\ pos[r][g] \in Nat /\ pos[r][g] <= Len(objects[g])
          /\ objects[g][i].status = "done"
      BY DEF IInv, TypeOK, Whole
    <2>2. Len(objects[g]) \in Nat
      BY LenType DEF IInv, TypeOK
    <2>3. i \in 1..Len(objects[g])
      BY <2>1, <2>2
    <2> QED
      BY <2>1, <2>3 DEF IInv, Whole, Done
  <1> QED
    BY <1>1, InitIInv, NextIInv, PTL DEF Spec

-----------------------------------------------------------------------------
(***************************************************************************)
(* What each step does to the cell of LatestValue.                         *)
(***************************************************************************)
EndedReaders == {r \in Readers : ended[r] # "open"}

LEMMA StepShape ==
  ASSUME IInv, [Next]_vars
  PROVE  /\ \A g \in 1..made : id'[g] = id[g]
         /\ \/ UNCHANGED <<latest, cur, writer, ended>>
            \/ Cell!Write
            \/ Cell!Close
            \/ \E r \in Readers : NextGroup(r)
            \/ \E r \in Readers : TrackEnds(r)
  <1>1. made \in 0..MaxGroups /\ MaxGroups \in Nat /\ latest \in 0..made
    BY ServeGroupsAssumption DEF IInv, TypeOK
  <1>2. ASSUME NEW n \in 0..MaxId, Create(n)
        PROVE  /\ \A g \in 1..made : id'[g] = id[g]
               /\ \/ UNCHANGED <<latest, cur, writer, ended>>
                  \/ Cell!Write
    <2>1. id' = [id EXCEPT ![made + 1] = n] /\ id \in [Groups -> 0..MaxId]
      BY <1>2 DEF Create, IInv, TypeOK
    <2>2. \A g \in 1..made : id'[g] = id[g]
      BY <1>1, <2>1 DEF Groups
    <2>3. UNCHANGED <<writer, cur, ended>> /\ writer = "open"
      BY <1>2 DEF Create, reads
    <2>4. CASE Older(n) /\ latest' = latest
      BY <2>2, <2>3, <2>4
    <2>5. CASE latest' = made + 1
      <3>1. latest' \in Nat /\ latest' > latest
        BY <1>1, <2>5
      <3>2. Cell!Write
        BY <3>1, <2>3 DEF Cell!Write
      <3> QED
        BY <3>2, <2>2
    <2> QED
      BY <1>2, <2>4, <2>5 DEF Create, SetLatest
  <1>3. ASSUME AppendGroup
        PROVE  /\ \A g \in 1..made : id'[g] = id[g]
               /\ \/ UNCHANGED <<latest, cur, writer, ended>>
                  \/ Cell!Write
    <2>1. next \in 0..MaxId /\ Create(next)
      BY <1>3, ServeGroupsAssumption DEF AppendGroup, IInv, TypeOK
    <2> QED
      BY <2>1, <1>2
  <1>4. ASSUME NEW err \in BOOLEAN, EndTrack(err)
        PROVE  id' = id /\ Cell!Close
    BY <1>4 DEF EndTrack, Outcome, reads, Cell!Close
  <1>5. ASSUME NEW g \in Groups, GroupStep(g)
        PROVE  id' = id /\ UNCHANGED <<latest, cur, writer, ended>>
    BY <1>5 DEF GroupStep, CreateObject, EndGroup, WriteChunk, EndObject, track, reads
  <1>6. ASSUME NEW r \in Readers, Reader(r)
        PROVE  /\ id' = id
               /\ \/ UNCHANGED <<latest, cur, writer, ended>>
                  \/ NextGroup(r)
                  \/ TrackEnds(r)
    BY <1>6 DEF Reader, NextGroup, TrackEnds, Leave, Read, NextObject, GroupEnds,
                StopReading, track
  <1>7. ASSUME UNCHANGED vars
        PROVE  id' = id /\ UNCHANGED <<latest, cur, writer, ended>>
    BY <1>7 DEF vars, track, reads
  <1> QED
    BY <1>2, <1>3, <1>4, <1>5, <1>6, <1>7 DEF Next, Writer

(***************************************************************************)
(* A reader is only ever given a newer group than the one before.          *)
(***************************************************************************)
THEOREM Forward == Spec => NeverBack
  <1>1. IInv /\ [Next]_vars =>
          [\A r \in Readers :
             cur'[r] # cur[r] /\ cur[r] # None => id[cur'[r]] > id[cur[r]]]_vars
    <2> SUFFICES ASSUME IInv, [Next]_vars, NEW q \in Readers,
                        cur'[q] # cur[q], cur[q] # None
                 PROVE  id[cur'[q]] > id[cur[q]]
      OBVIOUS
    <2>1. PICK r \in Readers : NextGroup(r)
      BY StepShape DEF Cell!Write, Cell!Close, TrackEnds
    <2>2. cur' = [cur EXCEPT ![r] = latest] /\ seen[r] # epoch
      BY <2>1 DEF NextGroup, Follow
    <2>3. cur \in [Readers -> 0..made] /\ id \in [Groups -> 0..MaxId]
          /\ made \in 0..MaxGroups /\ latest \in 0..made
      BY DEF IInv, TypeOK
    <2>4. q = r /\ cur'[q] = latest
      BY <2>2, <2>3
    <2>5. id[cur[q]] < id[latest]
      BY <2>2, <2>4 DEF IInv, Reading, ReadingOf
    <2>6. latest # None
      BY <2>2, <2>4 DEF IInv, Track, Reading, ReadingOf, TypeOK, None
    <2>7. id[cur[q]] \in 0..MaxId /\ id[latest] \in 0..MaxId
      BY <2>3, <2>6, ServeGroupsAssumption DEF Groups, None
    <2> QED
      BY <2>4, <2>5, <2>7, ServeGroupsAssumption
  <1> QED
    BY <1>1, InitIInv, NextIInv, PTL DEF Spec, NeverBack

(***************************************************************************)
(* To its readers a track in group mode is a cell with the latest group.   *)
(***************************************************************************)
LEMMA NextGroupReads ==
  ASSUME IInv, NEW r \in Readers, NextGroup(r) PROVE Cell!Read(r)
  <1>1. /\ seen[r] # epoch /\ cur' = [cur EXCEPT ![r] = latest] /\ r \in readers
        /\ UNCHANGED <<latest, writer, ended>>
    BY DEF NextGroup, Follow, track
  <1>2. ReadingOf(r)
    BY DEF IInv, Reading
  <1>3. r \notin EndedReaders
    BY <1>1, <1>2 DEF ReadingOf, EndedReaders
  <1>4. cur[r] # latest
    <2>1. CASE cur[r] = None
      BY <1>1, <1>2, <2>1 DEF IInv, Track, ReadingOf, TypeOK, None
    <2>2. CASE cur[r] # None
      <3>1. id[cur[r]] \in 0..MaxId
        BY <2>2, ServeGroupsAssumption DEF IInv, TypeOK, Groups, None
      <3> QED
        BY <1>1, <1>2, <2>2, <3>1, ServeGroupsAssumption DEF ReadingOf
    <2> QED
      BY <2>1, <2>2
  <1> QED
    BY <1>1, <1>3, <1>4 DEF Cell!Read, EndedReaders

LEMMA TrackEndsEnds ==
  ASSUME IInv, NEW r \in Readers, TrackEnds(r) PROVE Cell!End(r)
  <1>1. /\ seen[r] = epoch /\ writer # "open" /\ r \in readers
        /\ ended' = [ended EXCEPT ![r] = writer]
        /\ UNCHANGED <<latest, writer, cur>>
    BY DEF TrackEnds, track
  <1>2. ReadingOf(r)
    BY DEF IInv, Reading
  <1>3. r \notin EndedReaders /\ cur[r] = latest
    BY <1>1, <1>2 DEF ReadingOf, EndedReaders
  <1>4. {q \in Readers : ended'[q] # "open"} = EndedReaders \cup {r}
    BY <1>1 DEF EndedReaders, IInv, TypeOK
  <1> QED
    BY <1>1, <1>3, <1>4 DEF Cell!End, EndedReaders

THEOREM Refinement == Spec => ImplementsLatestValue
  <1>1. Init => Cell!Init
    BY DEF Init, Cell!Init, None
  <1>2. IInv /\ [Next]_vars => [Cell!Next]_Cell!vars
    BY StepShape, NextGroupReads, TrackEndsEnds DEF Cell!Next, Cell!vars
  <1> QED
    BY <1>1, <1>2, InitIInv, NextIInv, PTL DEF Spec, ImplementsLatestValue, Cell!Spec
=============================================================================
