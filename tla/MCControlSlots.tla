--------------------------- MODULE MCControlSlots ---------------------------
(* Instances of ControlSlots for TLC.                                       *)
EXTENDS ControlSlots, TLC

CONSTANTS c1, c2, c3, c4, id1, id2, id3, uart0, uart1, r1, r2

\* Every command has an id of its own, and c1 and c2 are on the same bus ...
MCIdOf  == [c \in Cmds |-> CASE c = c1 -> id1 [] c = c2 -> id2 [] OTHER -> id3]
MCBusOf == [c \in Cmds |-> IF c \in {c3, c4} THEN uart1 ELSE uart0]
\* ... or c1 and c3 share an id.
CollidingIdOf == [c \in Cmds |-> CASE c = c2 -> id2 [] c = c4 -> id3 [] OTHER -> id1]

ReceiverSymmetry == Permutations(Receivers)
============================================================================
