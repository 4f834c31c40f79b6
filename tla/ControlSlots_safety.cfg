CONSTANTS
  c1 = c1  c2 = c2  c3 = c3  c4 = c4  id1 = id1  id2 = id2  id3 = id3
  uart0 = uart0  uart1 = uart1  r1 = r1  r2 = r2  NoCmd = NoCmd
  Ids = {id1, id2, id3}
  BusOf <- MCBusOf
  IdOf <- CollidingIdOf
  Cmds = {c1, c2, c3, c4}
  Buses = {uart0, uart1}
  Reads = {c1}
  Plans = {c2}
  Receivers = {r1, r2}
  SlotCount = 2
  QueueDepth = 2
  FinalDepth = 2
  MaxDeliveries = 3
  MaxConfigs = 1
SYMMETRY ReceiverSymmetry
CHECK_DEADLOCK FALSE
SPECIFICATION Spec
INVARIANTS SlotHeld NoneForgotten UniqueCommand StoredFinalIsOwn OncePerSlot
