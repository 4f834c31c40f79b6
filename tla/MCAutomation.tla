----------------------------- MODULE MCAutomation -----------------------------
(***************************************************************************)
(* Small instances of Automation.                                          *)
(***************************************************************************)
EXTENDS Automation

MCDuration == [t \in {"short", "long"} |-> IF t = "short" THEN 0 ELSE 1]
MCLongDuration == [MCDuration EXCEPT !["long"] = 2]

VARIABLES
  scenario,
  since  \* "sustained": the first sample of the satisfied ones in a row

Quiet(ps) == \A p \in ps : proc'[p] = Idle
\* Reloads of an unchanged rule change nothing; the first two scenarios leave
\* them out, so that liveness is a matter of the others.
NoLoads == loader' = loader \/ cache # rule
SameState == rule'.state = "enabled" /\ rule'.confirm = rule.confirm
Satisfied == \A w \in Workers : proc'[w].pc = "frame" => proc'[w].sat
\* Neither the clock nor the ticker is held up: what starts, starts by t.
By(t) == \A p \in DOMAIN proc : proc'[p] # Idle /\ proc[p] = Idle => now <= t

\* "restarts": one worker, a duration, edits, a restart or a failed write.
\* "workers":  two workers, no duration, an edit of the actions and a fault.
\* "manual":   a worker, an operator who triggers the rule himself, and a fault.
\* "confirm":  one proposal, two operators, the sweeper, an edit and a fault.
\* "loads":    edits and reloads without reports.
\* "sustained": one worker whose rule is never edited.
Within ==
  CASE scenario = "restarts" -> SameState /\ NoLoads /\ Quiet({"w2", "o1", "o2"})
    [] scenario = "workers"  -> /\ SameState /\ NoLoads /\ Satisfied
                                /\ Quiet({"o1", "o2"}) /\ By(1)
    [] scenario = "manual"   -> /\ SameState /\ edits' = 0 /\ Satisfied
                                /\ Quiet({"w2", "o2"}) /\ By(1)
                                /\ loader'["handler"] = loader["handler"]
    [] scenario = "confirm"  -> /\ loader'["handler"] = loader["handler"] /\ Satisfied /\ Quiet({"w2"})
                                /\ Len(events') <= 1
                                /\ proc'["w1"].pc = "frame" => now = 0
                                /\ \A o \in Operators : proc'[o].src # "manual"
    [] scenario = "loads"    -> Quiet(Workers \cup Operators)
    [] scenario = "sustained" -> edits' = 0 /\ faults' = 0 /\ Quiet({"w2", "o1", "o2"})
                                 /\ loader' = loader

Since ==
  since' = IF scenario = "sustained" /\ ApplyTrigger("w1")
             THEN IF ~proc["w1"].sat THEN Never
                  ELSE IF since = Never THEN proc["w1"].at ELSE since
           ELSE since

Start(scenarios) ==
  /\ Init /\ since = Never
  /\ scenario \in scenarios
  /\ rule.confirm = (scenario = "confirm")
  /\ rule.trig = IF scenario \in {"restarts", "sustained"} THEN "long" ELSE "short"

MCInit == Start({"restarts", "workers", "manual", "confirm", "loads"})
MCNext == Next /\ UNCHANGED scenario /\ Within /\ Since
MCSpec == MCInit /\ [][MCNext]_<<vars, scenario, since>> /\ Fairness

SustainedInit == Start({"sustained"})
SustainedSpec == SustainedInit /\ [][MCNext]_<<vars, scenario, since>>

-----------------------------------------------------------------------------
(* Properties *)

(* One worker: what holds of executions that follow one another.           *)
SerialCooldown == scenario = "restarts" => CooldownKept
SerialRetries == scenario = "restarts" /\ faults = 0 => RetrySendsAgain

(* evalRule: "armed -> triggered (continuously satisfied for DurationSec)" *)
(* however densely the device reports.                                     *)
SustainedTriggers ==
  [][LET job == proc["w1"] IN
       /\ ApplyTrigger("w1") /\ ~Cooling(fired, job.at) /\ job.sat
       /\ since # Never /\ job.at - since >= Duration[job.trig]
       => proc'["w1"].pc = "limit"]_vars
=============================================================================
