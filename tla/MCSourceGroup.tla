--------------------------- MODULE MCSourceGroup ---------------------------
(***************************************************************************)
(* Small instances of SourceGroup: what the operators, the devices and the *)
(* host may do is bounded by a budget; the server itself is not, but for   *)
(* the order of its goroutines: in a calm scenario a goroutine that has    *)
(* committed publishes before another statement runs.  Calm scenarios are  *)
(* about transactions that race, the others about publications that do.    *)
(***************************************************************************)
EXTENDS SourceGroup

MCRank == [m \in Members |-> CASE m = "a" -> 3 [] m = "b" -> 2 [] m = "c" -> 1]
MCMaxFail == [m \in Members |-> IF m = "a" THEN 2 ELSE 1]

\* The members there may be and the requests that may be made, and how many requests,
\* offline reports, silences or revivals, and failing queries or restarts are left.
VARIABLE left

Busy(S, ops, offline, devices, faults) ==
  [among |-> S, calm |-> FALSE, only |-> Stages, ops |-> ops, offline |-> offline,
   devices |-> devices, faults |-> faults]
Calm(S, only, ops, offline, devices, faults) ==
  [Busy(S, ops, offline, devices, faults) EXCEPT !.calm = TRUE, !.only = only]

Spend(f) == left[f] > 0 /\ left' = [left EXCEPT ![f] = @ - 1]

\* Two requests run at once in a calm scenario only; the first free caller makes one.
Requests ==
  \E t \in Apis : /\ Api(t) /\ tx'[t].at \in left.only
                  /\ t # "api1" => left.calm /\ ~Ready("api1")

PublishesFirst == left.calm /\ \E t \in Threads : job[t] # Idle

MCNext ==
  \/ (Publishing \/ Dispatcher) /\ UNCHANGED left
  \/ /\ ~PublishesFirst
     /\ \/ (Scanner \/ Tick \/ Frames \/ applySuccess) /\ UNCHANGED left
        \/ (\E t \in Threads : Writes(t)) /\ UNCHANGED left
        \/ Offline /\ Spend("offline")
        \/ Devices /\ Spend("devices") /\ \A m \in alive \ alive' : m \in left.among
        \/ ((\E t \in Threads : Break(t)) \/ Restart) /\ Spend("faults")
        \/ Requests /\ Spend("ops") /\ \A m \in Members \ left.among : status'[m] = "absent"

MCVars == <<vars, left>>

Start(budgets) == left \in budgets /\ InitWith(left.among)

AB == {"a", "b"}
BC == {"b", "c"}
\* Publications: of two requests; of a request and a silence, in a group of one member
\* too; of a silence, or a report, and a fault; of silences and revivals.  Transactions:
\* two requests and a fault; a report, two requests of two kinds; two reports and a reset;
\* a report, a silence and a fault.
MCInit == Start({Busy(AB, 2, 0, 0, 0), Busy(AB, 1, 0, 1, 0), Busy({"a"}, 1, 0, 1, 0),
                 Busy(AB, 0, 0, 1, 1), Busy(AB, 0, 1, 0, 1), Busy(AB, 0, 0, 2, 0),
                 Calm(AB, Stages, 2, 0, 0, 1), Calm(BC, {"reset", "disable"}, 2, 1, 0, 0),
                 Calm(BC, {"reset"}, 1, 2, 0, 0), Calm(AB, {}, 0, 1, 1, 1)})
MCSpec == MCInit /\ [][MCNext]_MCVars /\ Fairness
=============================================================================
