------------------------- MODULE MCCommandScenarios -------------------------
(***************************************************************************)
(* Instances of CommandExec that differ in what is commanded and who       *)
(* answers.                                                                *)
(***************************************************************************)
EXTENDS MCCommandExec

VARIABLE scenario

\* The commands of a scenario; the others are never accepted.
Given == [channel |-> {c1, c2}, reports |-> {c1}, peripherals |-> {c1, p1}]

OneAnswer ==
  /\ handler'[h2] = handler[h2]
  /\ \A d \in Dispatchers : tag'[d] # boot2
  /\ \A e \in (inbox' \cup {handler'[h1].ev}) \ {NoEvent} : e.type \in MCFinals

\* channel:     two commands of one UART, each answered with one Final.
\* reports:     one UART command, answered by two boots through two handlers.
\* peripherals: a UART and a peripheral command, answered with one Final each.
Within ==
  /\ \A c \in Cmds \ Given[scenario] : status'[c] = "ABSENT"
  /\ \A c \in Cmds : rowId'[c] <= Cardinality(Given[scenario])
  /\ scenario = "reports" \/ OneAnswer

ScenarioInit == Init /\ scenario \in DOMAIN Given
ScenarioNext == Next /\ UNCHANGED scenario /\ Within
ScenarioSpec == ScenarioInit /\ [][ScenarioNext]_<<vars, scenario>>
=============================================================================
