----------------------------- MODULE MCPlayback -----------------------------
EXTENDS Playback

\* Six fragments of video and audio; a keyframe at the first and at the fourth.
MCTrackOf == [p \in Moofs |-> IF p \in {2, 8} THEN "audio" ELSE "video"]
MCTable == [s \in 0..2 |-> <<2, -1, 8>>[s + 1]]
=============================================================================
