CONSTANTS
  Last = 3
  s1 = s1
  s2 = s2
  Senders = {s1, s2}
  Parts = 2
  MaxSends = 2
  Streams <- MCStreams
  MaxPayload = 1
  Media = {"resumable", "permanent"}
SPECIFICATION MCSpec
CHECK_DEADLOCK FALSE
INVARIANTS WholeFrames Reachable StreamIsParsed
