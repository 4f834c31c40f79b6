------------------------------- MODULE MCOta -------------------------------
(***************************************************************************)
(* Small instances of Ota: what operators, the link and the node's power   *)
(* do is bounded by a budget.                                              *)
(***************************************************************************)
EXTENDS Ota

CONSTANTS api1, api2, rx

VARIABLE left

Budget(overlap, requests, cancels, breaks, reboots, refusals, restarts) ==
  [overlap |-> overlap, requests |-> requests, cancels |-> cancels, breaks |-> breaks, reboots |-> reboots,
   refusals |-> refusals, restarts |-> restarts]

\* One request, and what can befall it, automatic rollback included; or two requests
\* that may overlap.
One == {Budget(FALSE, 1, 1, 1, 0, 1, 0), Budget(FALSE, 1, 0, 0, 1, 1, 1)}
Two == Budget(TRUE, 2, 0, 0, 0, 0, 0)

Spend(f) == left[f] > 0 /\ left' = [left EXCEPT ![f] = @ - 1]

\* The callers are alike: the next request takes one that is free.
SomeFree == \E h \in Callers : Free(h)
FreeCaller == CHOOSE h \in Callers : Free(h)

\* Two requests are for the new version, with no success to go back to, and the node
\* has one message on its way.
Asked(v) == v # Factory \/ ~left.overlap
Short == left.overlap => Len(up') <= 1

MCNext ==
  \/ /\ \/ \E h \in Threads : Working(h)
        \/ \E t \in Tasks : Waiter(t) \/ Age(t)
        \/ Scanning \/ Connect
        \/ Replay \/ Busy \/ Start \/ Download \/ DownloadFails \/ SetBoot \/ Install \/ RestartNew
     /\ UNCHANGED left
  \/ RefuseMemory /\ Spend("refusals")
  \/ /\ SomeFree
     /\ \/ \E v \in Versions : Asked(v) /\ Request(FreeCaller, v) /\ Spend("requests")
        \/ \E t \in Tasks : Cancel(FreeCaller, t) /\ Spend("cancels")
  \/ Reboot /\ Spend("reboots")
  \/ ServerRestart /\ Spend("restarts")
  \/ Disconnect /\ Spend("breaks")

MCVars == <<otaVars, left>>

MCInit == OtaInit /\ (left \in One \/ (left = Two /\ stable = NoVersion))
MCSpec == MCInit /\ [][MCNext /\ Short]_MCVars /\ OtaFairness
=============================================================================
