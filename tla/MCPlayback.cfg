SPECIFICATION Spec
CONSTANTS
  Len = 12
  Tracks = {"video", "audio"}
  TrackOf <- MCTrackOf
  Keyframes = {0, 6}
  Table <- MCTable
  Seconds = {0, 1, 2, 3}
  MaxBurst = 2
INVARIANTS Decodable Playable QuietWhenPaused
PROPERTIES Obeys KeepsPlaying
