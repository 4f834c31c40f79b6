CONSTANTS
  Last = 1
  s1 = s1
  s2 = s2
  Senders = {s1}
  Parts = 2
  MaxSends = 1
  Streams <- MCStreams
  MaxPayload = 1
  Media = {"permanent"}
SPECIFICATION StallSpec
PROPERTIES SendEnds
CHECK_DEADLOCK FALSE
