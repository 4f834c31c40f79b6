------------------------- MODULE MCCommandAdmission -------------------------
(* Instances of CommandAdmission for TLC: four scenarios in one run, each   *)
(* with more of one thing and less of the others.                           *)
EXTENDS CommandAdmission, TLC

CONSTANTS r1, r2, r3, d1, d2, k1, k2, h1, h2, g1, g2, g3, e1, e2, e3, n1, n2, p1

VARIABLE scenario

JustQueued   == /\ \A i \in Ids : exec'[i].status \in {"ABSENT", "QUEUED"}
                /\ exec'[e3].status = "ABSENT"
                /\ req'[r3].pc = "idle"
AtMostOne(S) == Cardinality(S) <= 1
Sending      == {r \in Requests : req'[r].pc # "idle"}
Dialogues    == {d \in Issuers : iss'[d].pc # "idle"}

\* "panel": the planner's requests, verdicts, cleaning, and someone looking.
\* "issue": two dialogs, three tokens, one request at a time, and no verdicts.
\* "admit": two requests with any keys and parameters, one dialog, no verdicts.
\* "retain": one key, the planner's request as well, verdicts, an operator and
\* two replicas cleaning; one token, one request at a time, no time.
Within ==
    CASE scenario = "issue"  -> /\ AtMostOne(Sending)
                                /\ \A r \in Requests : req'[r].key = k1 /\ req'[r].hash = h1
                                /\ \A d \in Issuers : iss'[d].hash = h1
                                /\ JustQueued
      [] scenario = "admit"  -> /\ AtMostOne(Dialogues)
                                /\ grant'[g3].state = "absent"
                                /\ JustQueued
      [] scenario = "retain" -> /\ AtMostOne(Dialogues) /\ AtMostOne(Sending) /\ now' = 0
                                /\ AtMostOne({g \in Grants : grant'[g].state # "absent"})
                                /\ \A r \in Requests : req'[r].key = k1 /\ req'[r].hash = h1
                                /\ \A d \in Issuers : iss'[d].hash = h1
      [] scenario = "panel"  -> /\ \A r \in {r1, r2} : req'[r].pc = "idle"
                                /\ req'[r3].hash = h1 /\ req'[r3].grant = NoGrant
                                /\ \A d \in Issuers : iss'[d].pc = "idle"
                                /\ \A i \in Ids : exec'[i].status \in {"ABSENT", "QUEUED", "FAILED", "DELETED"}
                                /\ \A i \in Ids : exec'[i].status = "FAILED" => outbox'[i] # "NONE"
                                /\ now' = 0

Quiet == panel' = panel \/ scenario = "panel"

MCInit == Init /\ scenario \in {"issue", "admit", "retain", "panel"}
MCNext == Next /\ UNCHANGED scenario /\ Within /\ Quiet
MCSpec == MCInit /\ [][MCNext]_<<vars, scenario>>

Symmetry == Permutations({r1, r2}) \cup Permutations(Issuers) \cup Permutations({e1, e2})
            \cup Permutations(Cleaners) \cup Permutations({g1, g2})
============================================================================
