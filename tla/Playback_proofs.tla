--------------------------- MODULE Playback_proofs ---------------------------
(***************************************************************************)
(* Proofs about Playback.tla, for any recording and any table of seconds.  *)
(***************************************************************************)
EXTENDS Playback, TLAPS

\* What is open ends where the loop is, once it has sent anything since the last
\* seek; and a seek, like a new start, leads to a keyframe.
Ends(last) ==
  \E k \in Keyframes :
    /\ k <= last
    /\ \A j \in Keyframes : j <= k \/ last < j
    /\ group = Stretch(k, last)

Placed ==
  /\ from \in Keyframes
  /\ totalFrames % 2 = 0 /\ totalFrames <= Len - from
  /\ totalFrames > 0 => Ends(from + totalFrames - 2)
  /\ pc # "start" => tracks = Tracks

\* A batch follows a message, or the loop was playing when it began.
Quiet ==
  /\ ~play => overrun <= IF pc \in {"look", "obey", "send"} THEN 0 ELSE 1
  /\ pc \in {"paused", "resume"} => ~play

IInv == TypeOK /\ Placed /\ Decodable /\ Quiet

LEMMA EvenSum ==
  ASSUME NEW a \in Nat, NEW b \in Nat, a % 2 = 0, b % 2 = 0
  PROVE  (a + b) % 2 = 0 /\ (a + b - 2) % 2 = 0
  OBVIOUS

LEMMA EvenNext ==
  ASSUME NEW a \in Nat, NEW b \in Nat, a % 2 = 0, b % 2 = 0, a < b
  PROVE  a + 1 < b /\ a + 2 <= b /\ a <= b - 2
  OBVIOUS

LEMMA RoomLeft ==
  ASSUME NEW a \in Nat, NEW b \in Nat, a < b
  PROVE  0 <= b - a
  OBVIOUS

USE PlaybackAssumption

\* Where a seek leads, and where an atom is.
LEMMA KeyframePlaced ==
  ASSUME NEW s, HasKeyframe(s)
  PROVE  KeyframeOf(s) \in Keyframes
  BY DEF HasKeyframe, KeyframeOf

LEMMA MoofsAre ==
  \A p : p \in Moofs <=> p \in Nat /\ p < Len /\ p % 2 = 0
  BY DEF Moofs

(***************************************************************************)
(* A fragment published where the last one ended, or at a keyframe, leaves *)
(* one stretch open, which ends with it.                                   *)
(***************************************************************************)
LEMMA PublishEnds ==
  ASSUME NEW p \in Moofs, Publish(p), group \in [Tracks -> SUBSET Moofs],
         p \in Keyframes \/ Ends(p - 2)
  PROVE  \E k \in Keyframes :
           /\ k <= p
           /\ \A j \in Keyframes : j <= k \/ p < j
           /\ group' = Stretch(k, p)
<1>1. p \in Nat
  BY MoofsAre
<1>2. CASE p \in Keyframes
  <2>1. group' = Stretch(p, p)
    <3>1. ASSUME NEW t \in Tracks
          PROVE  (IF t = TrackOf[p] THEN {p} ELSE {})
                   = {q \in Moofs : TrackOf[q] = t /\ p <= q /\ q <= p}
      BY <1>1, MoofsAre
    <3> QED BY <1>2, <3>1 DEF Publish, EndGroups, Header, Stretch
  <2>2. \A j \in Keyframes : j <= p \/ p < j
    BY <1>1, MoofsAre
  <2> QED BY <1>1, <1>2, <2>1, <2>2
<1>3. CASE p \notin Keyframes
  <2>1. PICK k \in Keyframes :
          /\ k <= p - 2
          /\ \A j \in Keyframes : j <= k \/ p - 2 < j
          /\ group = Stretch(k, p - 2)
    BY <1>3 DEF Ends
  <2>2. k \in Nat /\ k <= p
    BY <1>1, <2>1, MoofsAre
  <2>3. ASSUME NEW j \in Keyframes
        PROVE  j <= k \/ p < j
    <3>1. j \in Nat /\ j % 2 = 0 /\ p % 2 = 0 /\ j # p
      BY <1>3, MoofsAre
    <3>2. CASE p - 2 < j
      BY <1>1, <3>1, <3>2
    <3> QED BY <2>1, <3>2
  <2>4. group' = Stretch(k, p)
    <3>1. ASSUME NEW t \in Tracks
          PROVE  group[t] \cup (IF t = TrackOf[p] THEN {p} ELSE {})
                   = {q \in Moofs : TrackOf[q] = t /\ k <= q /\ q <= p}
      <4>1. group[t] = {q \in Moofs : TrackOf[q] = t /\ k <= q /\ q <= p - 2}
        BY <2>1 DEF Stretch
      <4>2. ASSUME NEW q \in Moofs
            PROVE  q <= p <=> q = p \/ q <= p - 2
        <5>1. q \in Nat /\ q % 2 = 0 /\ p % 2 = 0
          BY MoofsAre
        <5> QED BY <1>1, <5>1
      <4> QED BY <2>2, <4>1, <4>2
    <3> QED BY <1>3, <3>1 DEF Publish, EndGroups, Header, Stretch
  <2> QED BY <2>2, <2>3, <2>4
<1> QED BY <1>2, <1>3

\* The pair the loop is about to send is a moof and its mdat.
LEMMA PairFits ==
  ASSUME TypeOK, Placed, pc = "send", More
  PROVE  /\ Pair(from + totalFrames)
         /\ totalFrames + 2 <= Len - from
         /\ (totalFrames + 2) % 2 = 0
<1>1. /\ from \in Nat /\ totalFrames \in Nat
      /\ from % 2 = 0 /\ totalFrames % 2 = 0
      /\ from + totalFrames < Len
  BY MoofsAre DEF TypeOK, Placed, More
<1>2. (from + totalFrames) % 2 = 0
  BY <1>1, EvenSum
<1>3. from + totalFrames + 1 < Len /\ from + totalFrames + 2 <= Len
  <2> DEFINE p == from + totalFrames
  <2>1. p \in Nat /\ Len \in Nat /\ p % 2 = 0 /\ Len % 2 = 0 /\ p < Len
    BY <1>1, <1>2
  <2> HIDE DEF p
  <2>2. p + 1 < Len /\ p + 2 <= Len
    BY <2>1, EvenNext
  <2> QED BY <2>2 DEF p
<1>4. from + totalFrames \in Moofs
  BY <1>1, <1>2, MoofsAre
<1>5. TrackOf[from + totalFrames] \in tracks
  BY <1>4 DEF Placed
<1>6. (totalFrames + 2) % 2 = 0
  BY <1>1
<1> QED BY <1>1, <1>3, <1>4, <1>5, <1>6 DEF Pair

-----------------------------------------------------------------------------
LEMMA InitInv == Init => IInv
<1> SUFFICES ASSUME Init PROVE IInv
  OBVIOUS
<1>1. 0 \in Moofs
  BY MoofsAre
<1>2. Say("chat") \in Messages
  BY DEF Messages
<1>3. TypeOK
  <2>1. totalFrames \in 0..Len /\ burst \in 0..MaxBurst
    BY DEF Init
  <2>2. group \in [Tracks -> SUBSET Moofs] /\ tracks \in {{}, Tracks}
    BY DEF Init
  <2>3. frameIndex \in Moofs /\ from \in Moofs /\ value \in Messages
    BY <1>1, <1>2 DEF Init
  <2>4. /\ pc = "start" /\ batch \in 0..2 /\ overrun \in Nat
    BY DEF Init
  <2>5. play \in BOOLEAN /\ changed \in BOOLEAN
    BY Zenon DEF Init
  <2> QED BY <2>1, <2>2, <2>3, <2>4, <2>5 DEF TypeOK
<1>4. Placed
  BY DEF Init, Placed
<1>5. Decodable
  BY DEF Init, Decodable
<1>6. Quiet
  BY DEF Init, Quiet
<1> QED BY <1>3, <1>4, <1>5, <1>6 DEF IInv

\* A seek, to a keyframe or not, starts the count again from one.
LEMMA SeekPlaced ==
  ASSUME TypeOK, Placed, NEW s, Seek(s), UNCHANGED group, pc # "start", UNCHANGED tracks
  PROVE  Placed' /\ frameIndex' \in Moofs /\ totalFrames' \in 0..Len /\ from' \in Moofs
<1>1. from' \in Keyframes /\ totalFrames' = 0
  BY KeyframePlaced DEF Seek, Placed
<1>2. frameIndex' \in Moofs
  BY KeyframePlaced, MoofsAre DEF Seek
<1>3. from' \in Nat /\ from' < Len
  BY <1>1, MoofsAre
<1>4. tracks' = Tracks
  BY DEF Placed
<1>5. /\ ~(totalFrames' > 0)
      /\ totalFrames' % 2 = 0
      /\ totalFrames' <= Len - from'
  <2>1. ~(totalFrames' > 0) /\ totalFrames' % 2 = 0
    BY <1>1
  <2>2. totalFrames' <= Len - from'
    <3>1. Len \in Nat
      OBVIOUS
    <3>2. 0 <= Len - from'
      BY <1>3, <3>1, RoomLeft
    <3> QED BY <1>1, <3>2
  <2> QED BY <2>1, <2>2
<1>6. Placed'
  BY <1>1, <1>4, <1>5 DEF Placed
<1>7. from' \in Moofs /\ totalFrames' \in 0..Len
  BY <1>1
<1> QED BY <1>2, <1>6, <1>7

LEMMA StepInv == IInv /\ [Next]_vars => IInv'
<1> SUFFICES ASSUME IInv, [Next]_vars PROVE IInv'
  OBVIOUS
<1> USE DEF IInv
<1>1. CASE Start
  <2>1. 0 \in Moofs
    BY MoofsAre
  <2>2. TypeOK'
    BY <1>1, <2>1 DEF Start, Setup, channel, TypeOK
  <2>3. Placed'
    BY <1>1 DEF Start, Setup, Placed
  <2>4. Decodable'
    BY <1>1 DEF Start, Setup, Decodable, Stretch
  <2>5. Quiet'
    BY <1>1 DEF Start, Quiet
  <2> QED BY <2>2, <2>3, <2>4, <2>5
<1>2. CASE Finish
  <2>1. TypeOK'
    BY <1>2 DEF Finish, position, media, channel, TypeOK
  <2>2. Placed'
    BY <1>2 DEF Finish, position, media, Placed, Ends
  <2>3. Decodable'
    BY <1>2 DEF Finish, media, Decodable
  <2>4. Quiet'
    BY <1>2 DEF Finish, Quiet
  <2> QED BY <2>1, <2>2, <2>3, <2>4
<1>3. CASE Top
  <2>1. 0 \in Moofs
    BY MoofsAre
  <2>2. TypeOK'
    BY <1>3, <2>1 DEF Top, position, media, channel, TypeOK
  <2>3. Placed'
    <3>1. CASE AtEnd
      BY <1>3, <3>1 DEF Top, position, media, Placed
    <3>2. CASE ~AtEnd
      BY <1>3, <3>2 DEF Top, position, media, Placed, Ends
    <3> QED BY <3>1, <3>2
  <2>4. Decodable'
    BY <1>3 DEF Top, media, Decodable
  <2>5. Quiet'
    BY <1>3 DEF Top, Quiet
  <2> QED BY <2>2, <2>3, <2>4, <2>5
<1>4. CASE See
  <2>1. TypeOK'
    BY <1>4 DEF See, position, media, TypeOK
  <2>2. Placed'
    BY <1>4 DEF See, position, media, Placed, Ends
  <2>3. Decodable'
    BY <1>4 DEF See, media, Decodable
  <2>4. Quiet'
    BY <1>4 DEF See, Quiet
  <2> QED BY <2>1, <2>2, <2>3, <2>4
<1>5. CASE Resume
  <2>1. Placed' /\ frameIndex' \in Moofs /\ totalFrames' \in 0..Len /\ from' \in Moofs
    <3>1. CASE value.second >= 0
      BY <1>5, <3>1, SeekPlaced DEF Resume, media
    <3>2. CASE ~(value.second >= 0)
      BY <1>5, <3>2 DEF Resume, position, media, Placed, Ends, TypeOK
    <3> QED BY <3>1, <3>2
  <2>2. TypeOK'
    BY <1>5, <2>1 DEF Resume, media, channel, TypeOK
  <2>3. Decodable'
    BY <1>5 DEF Resume, media, Decodable
  <2>4. Quiet'
    BY <1>5 DEF Resume, Quiet
  <2> QED BY <2>1, <2>2, <2>3, <2>4
<1>6. CASE Obey
  <2>1. Placed' /\ frameIndex' \in Moofs /\ totalFrames' \in 0..Len /\ from' \in Moofs
    <3>1. CASE value.second >= 0
      BY <1>6, <3>1, SeekPlaced DEF Obey, media
    <3>2. CASE ~(value.second >= 0)
      BY <1>6, <3>2 DEF Obey, position, media, Placed, Ends, TypeOK
    <3> QED BY <3>1, <3>2
  <2>2. TypeOK'
    BY <1>6, <2>1 DEF Obey, media, channel, TypeOK
  <2>3. Decodable'
    BY <1>6 DEF Obey, media, Decodable
  <2>4. Quiet'
    BY <1>6 DEF Obey, Quiet
  <2> QED BY <2>1, <2>2, <2>3, <2>4
<1>7. CASE Look
  <2>1. TypeOK'
    BY <1>7 DEF Look, position, media, channel, TypeOK
  <2>2. Placed'
    BY <1>7 DEF Look, position, media, Placed, Ends
  <2>3. Decodable'
    BY <1>7 DEF Look, media, Decodable
  <2>4. Quiet'
    BY <1>7 DEF Look, Quiet
  <2> QED BY <2>1, <2>2, <2>3, <2>4
<1>8. CASE SendPair
  <2> DEFINE p == from + totalFrames
  <2>1. /\ Pair(p)
        /\ totalFrames + 2 <= Len - from
        /\ (totalFrames + 2) % 2 = 0
    BY <1>8, PairFits DEF SendPair
  <2>2. p \in Moofs /\ Publish(p)
    BY <1>8, <2>1 DEF SendPair, Pair
  <2>3. p \in Keyframes \/ Ends(p - 2)
    <3>1. CASE totalFrames = 0
      <4>1. from \in Nat /\ from \in Keyframes
        BY MoofsAre DEF Placed
      <4>2. p = from
        BY <3>1, <4>1
      <4> QED BY <4>1, <4>2
    <3>2. CASE totalFrames # 0
      <4>1. totalFrames > 0
        BY <3>2 DEF TypeOK
      <4>2. Ends(from + totalFrames - 2)
        BY <4>1 DEF Placed
      <4>3. from \in Nat /\ totalFrames \in Nat
        BY MoofsAre DEF TypeOK
      <4>4. from + totalFrames - 2 = p - 2
        BY <4>3
      <4> QED BY <4>2, <4>4
    <3> QED BY <3>1, <3>2
  <2>4. PICK k \in Keyframes :
          /\ k <= p
          /\ \A j \in Keyframes : j <= k \/ p < j
          /\ group' = Stretch(k, p)
    <3> HIDE DEF p
    <3>1. group \in [Tracks -> SUBSET Moofs]
      BY DEF TypeOK
    <3> QED BY <2>2, <2>3, <3>1, PublishEnds
  <2>5. /\ from' = from /\ totalFrames' = totalFrames + 2
        /\ totalFrames \in Nat /\ from \in Nat
        /\ from' + totalFrames' - 2 = p
    BY <1>8, MoofsAre DEF SendPair, TypeOK
  <2>6. Placed'
    <3>1. \E x \in Keyframes :
            /\ x <= from' + totalFrames' - 2
            /\ \A j \in Keyframes : j <= x \/ from' + totalFrames' - 2 < j
            /\ group' = Stretch(x, from' + totalFrames' - 2)
      <4> HIDE DEF p
      <4> QED BY <2>4, <2>5
    <3>2. Ends(from + totalFrames - 2)'
      BY <3>1 DEF Ends, Stretch
    <3>3. from' \in Keyframes /\ tracks' = Tracks
      BY <1>8 DEF SendPair, Placed
    <3> QED BY <2>1, <2>5, <3>2, <3>3 DEF Placed
  <2>7. group' \in [Tracks -> SUBSET Moofs]
    BY <2>4 DEF Stretch
  <2>8. TypeOK'
    <3>1. batch' \in 0..2
      BY <1>8 DEF SendPair, More, TypeOK
    <3>2. totalFrames' \in 0..Len
      BY <2>1, <2>5
    <3> QED BY <1>8, <2>7, <3>1, <3>2 DEF SendPair, channel, TypeOK
  <2>9. Decodable'
    <3> HIDE DEF p
    <3> QED BY <2>2, <2>4 DEF Decodable, Stretch
  <2>10. Quiet'
    BY <1>8 DEF SendPair, Quiet
  <2> QED BY <2>6, <2>8, <2>9, <2>10
<1>9. CASE EndBatch
  <2>1. TypeOK'
    BY <1>9 DEF EndBatch, position, media, TypeOK
  <2>2. Placed'
    BY <1>9 DEF EndBatch, position, media, Placed, Ends
  <2>3. Decodable'
    BY <1>9 DEF EndBatch, media, Decodable
  <2>4. Quiet'
    BY <1>9 DEF EndBatch, Quiet, TypeOK
  <2> QED BY <2>1, <2>2, <2>3, <2>4
<1>10. CASE \E m \in Messages : Send(m)
  <2>1. TypeOK'
    BY <1>10 DEF Send, position, media, TypeOK
  <2>2. Placed'
    BY <1>10 DEF Send, position, media, Placed, Ends
  <2>3. Decodable'
    BY <1>10 DEF Send, media, Decodable
  <2>4. Quiet'
    BY <1>10 DEF Send, Quiet
  <2> QED BY <2>1, <2>2, <2>3, <2>4
<1>11. CASE UNCHANGED vars
  <2>1. TypeOK' /\ Quiet'
    BY <1>11 DEF vars, position, media, channel, TypeOK, Quiet
  <2>2. Placed'
    BY <1>11 DEF vars, position, media, Placed, Ends
  <2>3. Decodable'
    BY <1>11 DEF vars, media, Decodable
  <2> QED BY <2>1, <2>2, <2>3
<1> QED BY <1>1, <1>2, <1>3, <1>4, <1>5, <1>6, <1>7, <1>8, <1>9, <1>10, <1>11 DEF Next, Play

LEMMA Invariant == Spec => []IInv
  BY InitInv, StepInv, PTL DEF Spec

-----------------------------------------------------------------------------
(***************************************************************************)
(* The variables of the player keep their types.                           *)
(***************************************************************************)
THEOREM TypeCorrect == Spec => []TypeOK
<1>1. IInv => TypeOK
  BY DEF IInv
<1> QED BY <1>1, Invariant, PTL

(***************************************************************************)
(* Whatever the leader asks for and wherever the recording starts over,    *)
(* the open groups of all tracks are one stretch of the recording from a   *)
(* keyframe on (main.rs with the groups of media.rs).                      *)
(***************************************************************************)
THEOREM PlaysDecodable == Spec => []Decodable
<1>1. IInv => Decodable
  BY DEF IInv
<1> QED BY <1>1, Invariant, PTL

(***************************************************************************)
(* parse_atom_directly never refuses a pair, so the program does not end   *)
(* with "missing moof", "multiple moof atoms" or "failed to find track".   *)
(***************************************************************************)
THEOREM NeverRefused == Spec => []Playable
<1>1. IInv => Playable
  BY PairFits DEF IInv, Playable
<1> QED BY <1>1, Invariant, PTL

(***************************************************************************)
(* A paused player sends at most one batch after each message it hears.    *)
(***************************************************************************)
THEOREM PausedIsQuiet == Spec => []QuietWhenPaused
<1>1. IInv => QuietWhenPaused
  BY DEF IInv, Quiet, QuietWhenPaused, TypeOK
<1> QED BY <1>1, Invariant, PTL
=============================================================================
