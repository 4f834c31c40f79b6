----------------------------- MODULE MCConfigSync -----------------------------
(***************************************************************************)
(* Small instances of ConfigSync: configuration a at the start, b that the *)
(* sender rewrites to c, x that no check of the sender lets through.       *)
(***************************************************************************)
EXTENDS ConfigSync

MCConfigs == {"a", "b", "c", "x"}
MCDeliverable == {"a", "c"}
MCReconciled == [v \in MCConfigs |-> IF v = "b" THEN "c" ELSE v]

VARIABLE scenario

Idling == \A i \in DOMAIN up' : up'[i].kind = "status" => up'[i].idle
NoEvents == \A e \in Events : outbox'[e].state = "none"

AllDurable == \E e \in Events : edits' > 0 => outbox'[e].state # "none"
Once == edits' <= 1
\* Only a node without a configuration asks for one on its own.
Unasked == RequestSync => device.active = NoManifest
Silent == up = <<>> /\ \A r \in Readers : proc[r] = Idle

\* "changes":  any change, durable or not; nothing is lost and nothing fails.
\* "overflow": changes faster than the bus takes them.
\* "faults":   one loss and one fault around the first configuration.
\* "sessions": one change, and one loss while it is being delivered.
\* "outbox":   one durable change, and the session lost under its push.
\* "slow":     one change, and a window that elapses at any time.
Within ==
  CASE scenario = "changes"  -> losses' = 0 /\ faults' = 0 /\ prompt /\ Once
    [] scenario = "overflow" -> losses' = 0 /\ faults' = 0 /\ prompt /\ NoEvents /\ Idling /\ Unasked
                                /\ config' \in {"a", "c"}
    [] scenario = "faults"   -> edits' = 0
    [] scenario = "sessions" -> /\ faults' = 0 /\ Unasked /\ NoEvents /\ Idling /\ prompt
                                /\ config' \in {"a", "c"} /\ Once
                                /\ losses' # losses => node.state = "syncing"
    [] scenario = "outbox"   -> /\ faults' = 0 /\ Unasked /\ AllDurable /\ Idling /\ prompt /\ Once
                                /\ config' \in {"a", "c"}
                                /\ proc'["startup"] = Idle /\ device'.active # NoManifest
                                /\ edits' # edits => Silent
                                /\ losses' # losses => /\ Silent /\ proc["gate"].pc = "publish"
                                                       /\ replaying = {} /\ bus = <<>>
    [] scenario = "slow"     -> /\ losses' = 0 /\ NoEvents /\ Idling /\ ~prompt
                                /\ config' \in {"a", "c"} /\ Once

MCInit == Init /\ scenario \in {"changes", "overflow", "faults", "sessions", "outbox", "slow"}
MCNext == Next /\ UNCHANGED scenario /\ Within
MCSpec == MCInit /\ [][MCNext]_<<vars, scenario>> /\ Fairness
=============================================================================
