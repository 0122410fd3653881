------------------------------ MODULE Playback ------------------------------
(***************************************************************************)
(* How moq-pub shows a recording to a room: the loop of main.rs that reads *)
(* the atoms of the recording and publishes them through media.rs, and the *)
(* messages of the leader on the sync track (subtosync.rs) that pause it,  *)
(* resume it and move it.  They come through a channel that holds only the *)
(* last one (a watch of tokio).                                            *)
(*                                                                         *)
(* A recording is a list of atoms, a moof and its mdat in turn.  Positions *)
(* count atoms, as the code does; the file of atom p is numbered p + 2,    *)
(* after ftyp and moov.                                                    *)
(***************************************************************************)
EXTENDS Integers

CONSTANTS
  Len,              \* the number of moof and mdat atoms
  Tracks,           \* the tracks of the recording
  TrackOf,          \* the track of the moof at each even position
  Keyframes,        \* the positions of the video's keyframes
  Table,            \* keyframes.bin: second -> file number of its keyframe, or -1
  Seconds,          \* the seconds the leader may ask for
  MaxBurst          \* messages that may come while one batch is sent

Moofs == {p \in 0..Len-1 : p % 2 = 0}

ASSUME PlaybackAssumption ==
  /\ Len \in Nat \ {0} /\ Len % 2 = 0
  /\ TrackOf \in [Moofs -> Tracks]
  /\ Keyframes \subseteq Moofs /\ 0 \in Keyframes
  /\ Seconds \subseteq Nat /\ DOMAIN Table \subseteq Seconds
  /\ \A s \in DOMAIN Table : Table[s] = -1 \/ Table[s] - 2 \in Keyframes
  /\ MaxBurst \in Nat

VARIABLES
  pc,               \* where the loop is
  frameIndex,       \* frame_index: the position last sought, to tell the end by
  totalFrames,      \* total_frames: the atoms played since
  from,             \* where frame_atoms_for_playback starts
  play,
  batch,            \* the pairs of the current batch already sent
  tracks,           \* Media.tracks: those set up
  group,            \* the moofs in the open group of each track, {} if none is open
  value, changed,   \* the channel: its last message, and whether the loop has not seen it
  burst,            \* messages since the last batch ended
  overrun           \* history: batches sent since the last message although not playing

position == <<frameIndex, totalFrames, from>>
media == <<tracks, group>>
channel == <<value, changed, burst>>
vars == <<pc, position, play, batch, media, channel, overrun>>

Say(text) == [text |-> text, second |-> -1]
GoTo(s) == [text |-> "number", second |-> s]
Messages == {Say(t) : t \in {"play", "pause", "chat"}} \cup {GoTo(s) : s \in Seconds}

Init ==
  /\ pc = "start"
  /\ frameIndex = 0 /\ totalFrames = 0 /\ from = 0
  /\ play = TRUE
  /\ batch = 0
  /\ tracks = {} /\ group = [t \in Tracks |-> {}]
  /\ value = Say("chat") /\ changed = FALSE
  /\ burst = 0
  /\ overrun = 0

\* The syncer forwards whatever the leader writes to the sync track.
Send(m) ==
  /\ pc = "paused" \/ burst < MaxBurst
  /\ value' = m
  /\ changed' = TRUE
  /\ burst' = IF pc = "paused" THEN burst ELSE burst + 1
  /\ UNCHANGED <<pc, position, play, batch, media, overrun>>

(***************************************************************************)
(* media.rs.                                                               *)
(***************************************************************************)
\* The first moov makes the tracks; it is skipped when the loop reads it again.
Setup ==
  /\ tracks' = Tracks
  /\ UNCHANGED group

\* A keyframe of the video ends the group of every track.
EndGroups(p) == [t \in Tracks |-> IF p \in Keyframes THEN {} ELSE group[t]]

\* Mutant: it ends only the group of its own track.
MPublish(p) ==
  group' = [group EXCEPT ![TrackOf[p]] = (IF p \in Keyframes THEN {} ELSE @) \cup {p}]

\* A moof and its mdat go to the group of their track, which is a new one if none is
\* open.
Header(open, p) == open \cup {p}

Publish(p) ==
  group' = [t \in Tracks |-> IF t = TrackOf[p] THEN Header(EndGroups(p)[t], p)
                             ELSE EndGroups(p)[t]]

(***************************************************************************)
(* The loop of run_media_from_group_with_a_channel.                        *)
(***************************************************************************)
\* The outer loop: from the beginning, and playing.
Start ==
  /\ pc = "start"
  /\ frameIndex' = 0 /\ totalFrames' = 0 /\ from' = 0
  /\ play' = TRUE
  /\ pc' = "top"
  /\ Setup
  /\ UNCHANGED <<batch, channel, overrun>>

Finish ==
  /\ pc = "top"
  /\ totalFrames >= Len
  /\ pc' = "start"
  /\ UNCHANGED <<position, play, batch, media, channel, overrun>>

\* Mutant: the position sought is forgotten.
MAtEnd == totalFrames + 2 >= Len

AtEnd == frameIndex + totalFrames + 2 >= Len

\* Mutant: a pause is noted, and not waited for.
MTop ==
  /\ pc = "top"
  /\ totalFrames < Len
  /\ \/ AtEnd /\ frameIndex' = 0 /\ totalFrames' = 0 /\ from' = 0
     \/ ~AtEnd /\ UNCHANGED position
  /\ pc' = "look"
  /\ UNCHANGED <<play, batch, media, channel, overrun>>

\* Back to the beginning if too little is left; wait there if paused.
Top ==
  /\ pc = "top"
  /\ totalFrames < Len
  /\ \/ AtEnd /\ frameIndex' = 0 /\ totalFrames' = 0 /\ from' = 0
     \/ ~AtEnd /\ UNCHANGED position
  /\ pc' = IF play THEN "look" ELSE "paused"
  /\ UNCHANGED <<play, batch, media, channel, overrun>>

HasKeyframe(s) == s \in DOMAIN Table /\ Table[s] >= 0
KeyframeOf(s) == Table[s] - 2

\* Mutant: total_frames goes on counting.
MSeek(s) ==
  /\ IF HasKeyframe(s)
     THEN frameIndex' = KeyframeOf(s) /\ from' = KeyframeOf(s)
     ELSE frameIndex' = 0 /\ UNCHANGED from
  /\ UNCHANGED totalFrames

\* A second without a keyframe resets the counters and leaves the list as it is.
Seek(s) ==
  /\ IF HasKeyframe(s)
     THEN frameIndex' = KeyframeOf(s) /\ from' = KeyframeOf(s)
     ELSE frameIndex' = 0 /\ UNCHANGED from
  /\ totalFrames' = 0

\* changed().await: the message is seen, and read in the next step, by which time
\* there may be another.
See ==
  /\ changed
  /\ changed' = FALSE
  /\ \/ pc = "paused" /\ pc' = "resume"
     \/ pc = "look" /\ pc' = "obey"
  /\ UNCHANGED <<position, play, batch, media, value, burst, overrun>>

\* While paused: only a seek keeps waiting.
Resume ==
  /\ pc = "resume"
  /\ IF value.second >= 0
     THEN Seek(value.second) /\ pc' = "paused" /\ UNCHANGED play
     ELSE play' = (value.text = "play") /\ pc' = "look" /\ UNCHANGED position
  /\ overrun' = 0
  /\ UNCHANGED <<batch, media, channel>>

\* While playing: seeks are taken until no message is new.
Obey ==
  /\ pc = "obey"
  /\ IF value.second >= 0
     THEN Seek(value.second) /\ pc' = "look" /\ UNCHANGED play
     ELSE play' = (play /\ value.text # "pause") /\ pc' = "send" /\ UNCHANGED position
  /\ overrun' = 0
  /\ UNCHANGED <<batch, media, channel>>

Look ==
  /\ pc = "look"
  /\ ~changed
  /\ pc' = "send"
  /\ UNCHANGED <<position, play, batch, media, channel, overrun>>

(***************************************************************************)
(* A batch is two pairs of atoms, fewer at the end.  Media refuses, and    *)
(* the program ends with an error, if a pair is not a moof and its mdat or *)
(* the track is unknown: the guard is never false (Playable).              *)
(***************************************************************************)
\* Mutant: a batch is two pairs, wherever the list ends.
MMore == batch < 2

More == batch < 2 /\ totalFrames < Len - from

Pair(p) == p \in Moofs /\ p + 1 < Len /\ TrackOf[p] \in tracks

SendPair ==
  /\ pc = "send"
  /\ More
  /\ Pair(from + totalFrames)
  /\ Publish(from + totalFrames)
  /\ totalFrames' = totalFrames + 2
  /\ batch' = batch + 1
  /\ UNCHANGED <<pc, frameIndex, from, play, tracks, channel, overrun>>

\* The sleep after a batch.
EndBatch ==
  /\ pc = "send"
  /\ ~More
  /\ batch' = 0
  /\ burst' = 0
  /\ overrun' = IF play THEN 0 ELSE overrun + 1
  /\ pc' = "top"
  /\ UNCHANGED <<position, play, media, value, changed>>

Play == Start \/ Finish \/ Top \/ See \/ Resume \/ Obey \/ Look \/ SendPair \/ EndBatch

Next == Play \/ \E m \in Messages : Send(m)

Spec == Init /\ [][Next]_vars /\ WF_vars(Play)
-----------------------------------------------------------------------------
TypeOK ==
  /\ pc \in {"start", "top", "paused", "resume", "look", "obey", "send"}
  /\ frameIndex \in Moofs /\ totalFrames \in 0..Len /\ from \in Moofs
  /\ play \in BOOLEAN
  /\ batch \in 0..2
  /\ tracks \in {{}, Tracks}
  /\ group \in [Tracks -> SUBSET Moofs]
  /\ value \in Messages /\ changed \in BOOLEAN
  /\ burst \in 0..MaxBurst
  /\ overrun \in Nat

(***************************************************************************)
(* What is published can be decoded, however the leader seeks and wherever *)
(* the recording starts over: the open groups of all tracks together are   *)
(* one stretch of the recording without a gap, which starts at the latest  *)
(* keyframe of the video.                                                  *)
(***************************************************************************)
Stretch(k, last) == [t \in Tracks |-> {p \in Moofs : TrackOf[p] = t /\ k <= p /\ p <= last}]

Decodable ==
  \/ \A t \in Tracks : group[t] = {}
  \/ \E k \in Keyframes, last \in Moofs :
       /\ k <= last
       /\ \A j \in Keyframes : j <= k \/ last < j
       /\ group = Stretch(k, last)

(***************************************************************************)
(* The loop never offers Media a pair it would refuse, so the program does *)
(* not end in the middle of a film.                                        *)
(***************************************************************************)
Playable == pc = "send" /\ More => Pair(from + totalFrames)

(***************************************************************************)
(* While paused, at most one batch is sent per message of the leader (a    *)
(* chat message, which the loop cannot tell from a command, sends one).    *)
(***************************************************************************)
QuietWhenPaused == ~play => overrun <= 1

(***************************************************************************)
(* A command takes effect unless the next message overwrites it: a pause   *)
(* stops the film (or meets its very end, where the outer loop forgets     *)
(* it), a play that finds the loop waiting resumes it (one that comes      *)
(* right after a chat message ended the wait is taken for nothing), and a  *)
(* seek to a second with a keyframe shows that keyframe, if not paused.    *)
(***************************************************************************)
Shown(s) == \E t \in Tracks : KeyframeOf(s) \in group[t]

Obeys ==
  /\ value.text = "pause" ~> pc \in {"paused", "start"} \/ value.text # "pause"
  /\ pc = "paused" /\ changed /\ value.text = "play" ~> play \/ value.text # "play"
  /\ \A s \in {x \in DOMAIN Table : Table[x] >= 0} :
       value.second = s ~> Shown(s) \/ pc = "paused" \/ value.second # s

(***************************************************************************)
(* The film goes on for ever, starting over at its end, as long as it is   *)
(* not paused and the counters agree with the list they count in; after a  *)
(* seek to a second without a keyframe they do not, and the end of the     *)
(* film is the end of the show.                                            *)
(***************************************************************************)
KeepsPlaying ==
  <>[](pc # "paused" /\ frameIndex = from) => []<><<SendPair>>_vars
=============================================================================
