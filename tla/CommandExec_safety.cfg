CONSTANTS
  c1 = c1  c2 = c2  p1 = p1  uart1 = uart1  gpio = gpio
  d1 = d1  d2 = d2  h1 = h1  h2 = h2  boot1 = boot1  boot2 = boot2
  confirmed = confirmed  denied = denied
  NoCmd = NoCmd  NoBoot = NoBoot  NoEvent = NoEvent  NoOutcome = NoOutcome
  ChannelOf <- MCChannelOf
  Cmds = {c1, c2, p1}
  PeriphCmds = {p1}
  ConfigCmds = {c1}
  Channels = {uart1, gpio}
  Dispatchers = {d1, d2}
  Handlers = {h1, h2}
  Boots = {boot1, boot2}
  EventTypes <- MCReports
  EventSeqs = {1}
  Outcomes = {confirmed}
  MaxFaults = 1
SYMMETRY ReplicaSymmetry
SPECIFICATION ScenarioSpec
INVARIANTS ChannelMutex PublicationEvidence FencedCommit SuccessIsEvidenced ConfigFollowsSuccess
PROPERTIES VerdictIsFinal
