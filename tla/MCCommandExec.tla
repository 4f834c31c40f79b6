--------------------------- MODULE MCCommandExec ---------------------------
(* Instances of CommandExec for TLC.                                        *)
EXTENDS CommandExec, TLC

CONSTANTS c1, c2, p1, uart1, gpio, d1, d2, h1, h2, boot1, boot2, confirmed, denied

\* c1 and c2 drive devices on the same UART, p1 is a GPIO write of the node.
MCChannelOf == [c \in Cmds |-> IF c \in PeriphCmds THEN gpio ELSE uart1]

MCReports == {"accepted", "final_succeeded", "final_failed"}
MCFinals  == {"final_succeeded"}

ReplicaSymmetry == Permutations(Dispatchers)
============================================================================
