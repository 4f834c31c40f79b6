-------------------------- MODULE CommandLifecycle --------------------------
(***************************************************************************)
(* What the command engine promises to those who submit commands, without  *)
(* outbox, leases, attempts or inbox: a command moves forward through the   *)
(* statuses of commandexec/state.go, gets exactly one verdict, and never a  *)
(* second one.  Stored configuration is rewritten by the step that reports  *)
(* success.  CommandExec implements this specification.                     *)
(***************************************************************************)
CONSTANTS Cmds, ConfigCmds, Outcomes, NoOutcome

VARIABLES
    status,      \* the status a client reads
    configured,  \* commands whose configuration side effect is stored
    resolution   \* the operator's word on an UNKNOWN command

vars == <<status, configured, resolution>>

Waiting  == {"QUEUED"}
InFlight == {"DISPATCHED", "DEVICE_ACCEPTED", "VERIFYING"}
Verdicts == {"SUCCEEDED", "FAILED", "UNKNOWN", "CANCELLED"}

\* How far along its way a command in each status is.
Later(s) ==
    CASE s = "DISPATCHED"      -> {"DEVICE_ACCEPTED", "VERIFYING"}
      [] s = "DEVICE_ACCEPTED" -> {"VERIFYING"}
      [] OTHER                 -> {}

Init ==
    /\ status = [c \in Cmds |-> "ABSENT"]
    /\ configured = {}
    /\ resolution = [c \in Cmds |-> NoOutcome]

\* A client submits a command, a dispatcher hands it to the device, the device
\* reports progress.
Submit(c) ==
    /\ status[c] = "ABSENT"
    /\ status' = [status EXCEPT ![c] = "QUEUED"]
    /\ UNCHANGED <<configured, resolution>>

Dispatch(c) ==
    /\ status[c] \in Waiting
    /\ status' = [status EXCEPT ![c] = "DISPATCHED"]
    /\ UNCHANGED <<configured, resolution>>

Progress(c) ==
    /\ status[c] \in InFlight
    /\ \E s \in Later(status[c]) : status' = [status EXCEPT ![c] = s]
    /\ UNCHANGED <<configured, resolution>>

\* The device's Final, or the loss of it, decides a command in flight.
Decide(c) ==
    /\ status[c] \in InFlight
    /\ \E v \in {"SUCCEEDED", "FAILED", "UNKNOWN"} :
          /\ status' = [status EXCEPT ![c] = v]
          /\ configured' = IF v = "SUCCEEDED" /\ c \in ConfigCmds
                             THEN configured \cup {c} ELSE configured
    /\ UNCHANGED resolution

Withdraw(c) ==
    /\ status[c] \in Waiting
    /\ status' = [status EXCEPT ![c] = "CANCELLED"]
    /\ UNCHANGED <<configured, resolution>>

\* Commands out of time: one that was never dispatched has failed, of one that
\* was dispatched nothing is known.
Expire(late) ==
    /\ \A c \in late : status[c] \in Waiting \cup InFlight
    /\ status' = [c \in Cmds |-> IF c \notin late THEN status[c]
                                 ELSE IF status[c] \in Waiting THEN "FAILED" ELSE "UNKNOWN"]
    /\ UNCHANGED <<configured, resolution>>

Resolve(c) ==
    /\ status[c] = "UNKNOWN"
    /\ resolution[c] = NoOutcome
    /\ \E o \in Outcomes : resolution' = [resolution EXCEPT ![c] = o]
    /\ UNCHANGED <<status, configured>>

Next ==
    \/ \E c \in Cmds : Submit(c) \/ Dispatch(c) \/ Progress(c) \/ Decide(c) \/ Withdraw(c) \/ Resolve(c)
    \/ \E late \in SUBSET Cmds : Expire(late)

Spec == Init /\ [][Next]_vars

\* Every submitted command is decided in the end.
FairSpec ==
    /\ Spec
    /\ \A c \in Cmds : WF_vars(Expire({c}))
============================================================================
