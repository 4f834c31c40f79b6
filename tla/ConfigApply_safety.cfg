CONSTANTS
  Workers = {w1, w2}
  Manifests = {m1, m2}
  Empty = Empty
  Partial = Partial
  Levels = {0, 1}
  Initial = 0
  PromptAck = TRUE
  w1 = w1
  w2 = w2
  m1 = m1
  m2 = m2
SPECIFICATION Spec
INVARIANTS ConfirmedRuns NoLostCommand
PROPERTIES RebuiltAlone WorkersResume
