---------------------------- MODULE CommandExec ----------------------------
(***************************************************************************)
(* The durable command engine of the backend (backend/internal/commandexec):*)
(* executions, outbox rows, attempts and inbox events in one relational     *)
(* database, served by any number of dispatcher replicas, by the handlers   *)
(* of device responses and by the operators' API.                           *)
(*                                                                          *)
(* The database is PostgreSQL at READ COMMITTED: a statement sees what is   *)
(* committed when it starts, and an UPDATE waits for the row locks of open  *)
(* transactions.  A transaction that reads before it writes is therefore    *)
(* several actions; what it wrote becomes visible at its last one, and the  *)
(* rows it wrote are locked in between (ExecLocked, OutboxLocked).          *)
(*                                                                          *)
(* Time is abstract: LeaseExpires and DeadlinePasses may happen at any      *)
(* moment; leases and deadlines are only ever compared with "now".          *)
(***************************************************************************)
EXTENDS Integers, FiniteSets

CONSTANTS
    Cmds,          \* command ids (new commands take a fresh random UUID)
    PeriphCmds,    \* the commands whose action is a node-level GPIO/PWM action
    ConfigCmds,    \* the commands whose success rewrites stored configuration
    Channels,      \* the scheduling boundaries: a (node, channel) pair
    ChannelOf,     \* the boundary each command belongs to
    Dispatchers,   \* replicas of the backend, each with one dispatcher loop
    Handlers,      \* goroutines that process device responses
    Boots,         \* boot identities a device may report
    EventTypes,    \* the inbox event types that occur
    EventSeqs,     \* device event sequence numbers
    Outcomes,      \* outcomes an operator may give to an UNKNOWN command
    NoCmd, NoBoot, NoEvent, NoOutcome,
    MaxFaults      \* bound on crashes, refusals, stalls and failed side effects

AllEventTypes == {"accepted", "verifying", "final_succeeded", "final_failed", "unknown"}

ASSUME CmdsAssumption ==
    /\ IsFiniteSet(Cmds)
    /\ PeriphCmds \subseteq Cmds
    /\ ConfigCmds \subseteq Cmds \ PeriphCmds
    /\ ChannelOf \in [Cmds -> Channels]
    /\ NoCmd \notin Cmds
ASSUME EnvironmentAssumption ==
    /\ NoBoot \notin Boots /\ Boots \cap Nat = {}
    /\ NoOutcome \notin Outcomes
    /\ EventTypes \subseteq AllEventTypes
    /\ MaxFaults \in Nat
ASSUME EventAssumption ==
    NoEvent \notin [cmd: Cmds, type: AllEventTypes, boot: Boots, seq: EventSeqs]

Terminal    == {"SUCCEEDED", "FAILED", "UNKNOWN", "CANCELLED"}
InFlight    == {"DISPATCHED", "DEVICE_ACCEPTED", "VERIFYING"}
Statuses    == Terminal \cup InFlight \cup {"ABSENT", "QUEUED"}
OutboxStates == {"ABSENT", "PENDING", "LEASED", "PROCESSED", "CANCELLED"}
Reasons     == {"none", "rejected", "cancelled", "final", "no evidence",
                "deadline", "rejected; deadline"}
Tags        == Boots \cup {NoBoot} \cup Nat
Events      == [cmd: Cmds, type: AllEventTypes, boot: Boots, seq: EventSeqs]
Steps       == {"idle", "selected", "locked", "claimed", "attempting", "published",
                "refused", "rejected", "recover", "failing", "closing"}

VARIABLES
    \* command_executions
    status, finalReason, overdue, resolution,
    \* command_outboxes: state, fencing_token, primary key, leases that ran out
    outbox, fencing, rowId, lapsed,
    \* command_attempts (attempt_no is always 1), command_inboxes
    attempt, inbox,
    \* configuration side effects committed, envelopes published, last request id
    configured, wire, requestId,
    \* last terminal status RecoverExpired handed to the websocket, per command
    broadcast,
    \* dispatcher loops: step, command, fencing token read, tag published,
    \* outbox rows updated by the open transaction, executions selected by it and
    \* those of them selected with a recorded rejection
    step, cur, token, tag, held, queued, causes, failed, active,
    \* response handlers
    handler,
    faults

workVars == <<step, cur, token, tag, held, queued, causes, failed, active>>
vars == <<status, finalReason, overdue, resolution, outbox, fencing, rowId, lapsed,
          attempt, inbox, configured, wire, requestId, broadcast,
          step, cur, token, tag, held, queued, causes, failed, active, handler, faults>>

Attempts  == [status: Statuses, tag: Tags, token: Nat, rejected: BOOLEAN]
NoAttempt == [status |-> "ABSENT", tag |-> NoBoot, token |-> 0, rejected |-> FALSE]
Work      == [ev: Events \cup {NoEvent}, seen: Statuses]
NoWork    == [ev |-> NoEvent, seen |-> "ABSENT"]

IsTerminal(s) == s \in Terminal

\* Bug: a Final that outruns its ACK is refused.
validTransitionAckFirst(from, to) ==
    \/ from = "DISPATCHED" /\ to \in {"DEVICE_ACCEPTED", "UNKNOWN"}
    \/ from \in {"DEVICE_ACCEPTED", "VERIFYING"} /\ to \in {"VERIFYING", "SUCCEEDED", "FAILED", "UNKNOWN"}

\* Bug: a late Final corrects an UNKNOWN verdict.
validTransitionReopens(from, to) ==
    \/ from \in {"DISPATCHED", "DEVICE_ACCEPTED", "VERIFYING", "UNKNOWN"} /\ to \in {"SUCCEEDED", "FAILED"}
    \/ from = "DISPATCHED" /\ to = "DEVICE_ACCEPTED"

\* state.go: the transitions validateTransition allows.
validTransition(from, to) ==
    \/ from = "QUEUED" /\ to \in {"DISPATCHED", "CANCELLED", "UNKNOWN", "FAILED"}
    \/ from = "DISPATCHED" /\ to \in {"DEVICE_ACCEPTED", "VERIFYING", "SUCCEEDED", "FAILED", "UNKNOWN"}
    \/ from = "DEVICE_ACCEPTED" /\ to \in {"VERIFYING", "SUCCEEDED", "FAILED", "UNKNOWN"}
    \/ from = "VERIFYING" /\ to \in {"SUCCEEDED", "FAILED", "UNKNOWN"}

Init ==
    /\ status = [c \in Cmds |-> "ABSENT"]
    /\ finalReason = [c \in Cmds |-> "none"]
    /\ overdue = {}
    /\ resolution = [c \in Cmds |-> NoOutcome]
    /\ outbox = [c \in Cmds |-> "ABSENT"]
    /\ fencing = [c \in Cmds |-> 0]
    /\ rowId = [c \in Cmds |-> 0]
    /\ lapsed = {}
    /\ attempt = [c \in Cmds |-> NoAttempt]
    /\ inbox = {}
    /\ configured = {}
    /\ wire = {}
    /\ requestId = 0
    /\ broadcast = [c \in Cmds |-> "ABSENT"]
    /\ step = [d \in Dispatchers |-> "idle"]
    /\ cur = [d \in Dispatchers |-> NoCmd]
    /\ token = [d \in Dispatchers |-> 0]
    /\ tag = [d \in Dispatchers |-> NoBoot]
    /\ held = [d \in Dispatchers |-> {}]
    /\ queued = [d \in Dispatchers |-> {}]
    /\ causes = [d \in Dispatchers |-> {}]
    /\ failed = [d \in Dispatchers |-> {}]
    /\ active = [d \in Dispatchers |-> {}]
    /\ handler = [h \in Handlers |-> NoWork]
    /\ faults = 0

----------------------------------------------------------------------------
(* Row locks of open transactions.                                          *)

\* The dispatch transaction holds its execution row (SELECT ... FOR UPDATE);
\* RecoverExpired holds the rows it has already failed.
HoldsExec(d, c) ==
    \/ step[d] \in {"attempting", "published"} /\ cur[d] = c
    \/ c \in failed[d]

\* Rows whose lease this transaction has returned, and the outbox rows of the
\* executions RecoverExpired fails.
HoldsOutbox(d, c) ==
    \/ c \in held[d]
    \/ step[d] = "closing" /\ c \in queued[d]

\* Claiming a command holds its Channel row; peripheral actions take no lock.
HoldsChannel(d, ch) ==
    step[d] = "locked" /\ cur[d] \in Cmds \ PeriphCmds /\ ChannelOf[cur[d]] = ch

ExecFree(d, c)   == \A e \in Dispatchers \ {d} : ~HoldsExec(e, c)
OutboxFree(d, c) == \A e \in Dispatchers \ {d} : ~HoldsOutbox(e, c)
Unlocked(c)      == \A e \in Dispatchers : ~HoldsExec(e, c)

\* What dispatcher d's own statements see of an outbox row: its uncommitted
\* lease recoveries included.
OutboxSeenBy(d, c) == IF c \in held[d] THEN "PENDING" ELSE outbox[c]

----------------------------------------------------------------------------
(* The API: Create, Cancel, ResolveUnknown.                                 *)

\* One transaction inserts the execution and its outbox row.  The row's primary
\* key comes from a sequence that is read before the commit, so keys are unique
\* but need not follow the order of the commits.
Create(c) ==
    /\ status[c] = "ABSENT"
    /\ \E id \in 1..Cardinality(Cmds) :
          /\ \A other \in Cmds : rowId[other] # id
          /\ rowId' = [rowId EXCEPT ![c] = id]
    /\ status' = [status EXCEPT ![c] = "QUEUED"]
    /\ outbox' = [outbox EXCEPT ![c] = "PENDING"]
    /\ UNCHANGED <<finalReason, overdue, resolution, fencing, lapsed, attempt, inbox,
                   configured, wire, requestId, broadcast, handler, faults>>
    /\ UNCHANGED workVars

\* Only the execution's own actor gets past the guard; another actor's request
\* changes nothing.  A LEASED outbox row is left to the dispatcher.
Cancel(c) ==
    /\ Unlocked(c)
    /\ status[c] = "QUEUED"
    /\ status' = [status EXCEPT ![c] = "CANCELLED"]
    /\ finalReason' = [finalReason EXCEPT ![c] = "cancelled"]
    /\ outbox' = [outbox EXCEPT ![c] = IF @ = "PENDING" THEN "CANCELLED" ELSE @]
    /\ UNCHANGED <<overdue, resolution, fencing, rowId, lapsed, attempt, inbox, configured,
                   wire, requestId, broadcast, handler, faults>>
    /\ UNCHANGED workVars

ResolveUnknown(c, outcome) ==
    /\ Unlocked(c)
    /\ status[c] = "UNKNOWN"
    /\ resolution[c] = NoOutcome
    /\ resolution' = [resolution EXCEPT ![c] = outcome]
    /\ UNCHANGED <<status, finalReason, overdue, outbox, fencing, rowId, lapsed, attempt, inbox,
                   configured, wire, requestId, broadcast, handler, faults>>
    /\ UNCHANGED workVars

----------------------------------------------------------------------------
(* Dispatcher.ProcessOnce, first transaction: claim one outbox row.         *)

\* Bug: only the candidate's own row is counted, not its channel's.
LeasedAlone(c, recovered) == c \notin recovered /\ outbox[c] = "LEASED"

\* Some command of c's channel is leased, the leases just taken back excepted.
LeasedBeside(c, recovered) ==
    \E other \in Cmds \ recovered : outbox[other] = "LEASED" /\ ChannelOf[other] = ChannelOf[c]

\* Bug: rows of concluded executions are skipped instead of closed.
CandidatesStillQueued(recovered) ==
    {c \in Cmds : /\ outbox[c] = "PENDING" \/ c \in recovered
                  /\ status[c] = "QUEUED"
                  /\ ~LeasedBeside(c, recovered)}

\* The rows a claim may pick.
Candidates(recovered) ==
    {c \in Cmds : (outbox[c] = "PENDING" \/ c \in recovered) /\ ~LeasedBeside(c, recovered)}

\* Bug: a recovered row gets the execution's word for waiting, not the outbox's.
RecoveredMisnamed(d) == [c \in Cmds |-> IF c \in held[d] THEN "QUEUED" ELSE outbox[c]]

\* The outbox after d's lease recoveries are committed.
Recovered(d) == [c \in Cmds |-> IF c \in held[d] THEN "PENDING" ELSE outbox[c]]

\* Leave ProcessOnce; the loop goes on with RecoverExpired.
LeaveProcess(d) ==
    /\ step' = [step EXCEPT ![d] = "recover"]
    /\ cur' = [cur EXCEPT ![d] = NoCmd]
    /\ token' = [token EXCEPT ![d] = 0]
    /\ tag' = [tag EXCEPT ![d] = NoBoot]
    /\ held' = [held EXCEPT ![d] = {}]
    /\ UNCHANGED <<queued, causes, failed, active>>

\* Expired leases go back to PENDING, then the lowest row whose channel has no
\* lease is read.  Nothing is committed yet unless there is no candidate.
ClaimSelect(d) ==
    /\ step[d] = "idle"
    /\ \A c \in lapsed : OutboxFree(d, c)
    /\ IF Candidates(lapsed) = {}
         THEN /\ outbox' = [c \in Cmds |-> IF c \in lapsed THEN "PENDING" ELSE outbox[c]]
              /\ lapsed' = {}
              /\ LeaveProcess(d)
         ELSE /\ \E c \in Candidates(lapsed) :
                    /\ \A other \in Candidates(lapsed) : rowId[c] <= rowId[other]
                    /\ cur' = [cur EXCEPT ![d] = c]
                    /\ token' = [token EXCEPT ![d] = fencing[c]]
              /\ step' = [step EXCEPT ![d] = "selected"]
              /\ held' = [held EXCEPT ![d] = lapsed]
              /\ UNCHANGED <<outbox, lapsed, tag, queued, causes, failed, active>>
    /\ UNCHANGED <<status, finalReason, overdue, resolution, fencing, rowId, attempt, inbox,
                   configured, wire, requestId, broadcast, handler, faults>>

\* Commit a claim transaction that leases nothing.
CommitRecovered(d) ==
    /\ outbox' = Recovered(d)
    /\ lapsed' = lapsed \ held[d]
    /\ LeaveProcess(d)
    /\ UNCHANGED fencing

\* Take the Channel row (not for peripheral actions), then count the leases of
\* the channel again.
ClaimLock(d) ==
    LET c == cur[d] IN
    /\ step[d] = "selected"
    /\ c \in PeriphCmds \/ \A e \in Dispatchers : ~HoldsChannel(e, ChannelOf[c])
    /\ IF LeasedBeside(c, held[d])
         THEN CommitRecovered(d)
         ELSE /\ step' = [step EXCEPT ![d] = "locked"]
              /\ UNCHANGED <<outbox, lapsed, fencing, cur, token, tag, held, queued, causes, failed, active>>
    /\ UNCHANGED <<status, finalReason, overdue, resolution, rowId, attempt, inbox,
                   configured, wire, requestId, broadcast, handler, faults>>

\* Compare and swap on (id, PENDING, fencing_token), then commit.
ClaimCommit(d) ==
    LET c == cur[d] IN
    /\ step[d] = "locked"
    /\ OutboxFree(d, c)
    /\ IF OutboxSeenBy(d, c) = "PENDING" /\ fencing[c] = token[d]
         THEN /\ outbox' = [Recovered(d) EXCEPT ![c] = "LEASED"]
              /\ lapsed' = lapsed \ (held[d] \cup {c})
              /\ fencing' = [fencing EXCEPT ![c] = @ + 1]
              /\ token' = [token EXCEPT ![d] = fencing[c] + 1]
              /\ step' = [step EXCEPT ![d] = "claimed"]
              /\ held' = [held EXCEPT ![d] = {}]
              /\ UNCHANGED <<cur, tag, queued, causes, failed, active>>
         ELSE CommitRecovered(d)
    /\ UNCHANGED <<status, finalReason, overdue, resolution, rowId, attempt, inbox,
                   configured, wire, requestId, broadcast, handler, faults>>

----------------------------------------------------------------------------
(* Dispatcher.dispatch, second transaction: lock the execution, insert the  *)
(* attempt, publish, and commit DISPATCHED with PROCESSED.                  *)

\* Bug: the fencing token is not compared.
HasLeaseUnfenced(d) == outbox[cur[d]] = "LEASED"

\* The guard of every closing UPDATE: id, LEASED and the fencing token.
HasLease(d) == outbox[cur[d]] = "LEASED" /\ fencing[cur[d]] = token[d]

\* An execution that is no longer QUEUED closes its outbox row, fenced.
DispatchOpen(d) ==
    LET c == cur[d] IN
    /\ step[d] = "claimed"
    /\ ExecFree(d, c)
    /\ IF status[c] = "QUEUED"
         THEN /\ step' = [step EXCEPT ![d] = "attempting"]
              /\ UNCHANGED <<outbox, lapsed, cur, token, tag, held, queued, causes, failed, active>>
         ELSE /\ OutboxFree(d, c)
              /\ IF HasLease(d)
                   THEN /\ outbox' = [outbox EXCEPT ![c] = "CANCELLED"]
                        /\ lapsed' = lapsed \ {c}
                        /\ LeaveProcess(d)
                   ELSE /\ step' = [step EXCEPT ![d] = "refused"]
                        /\ UNCHANGED <<outbox, lapsed, cur, token, tag, held, queued, causes, failed, active>>
    /\ UNCHANGED <<status, finalReason, overdue, resolution, fencing, rowId, attempt, inbox,
                   configured, wire, requestId, broadcast, handler, faults>>

\* The transport sends the envelope while the transaction is still open.  A
\* channel command is bound to the boot identity of the node and refused after
\* its deadline; a peripheral command carries a fresh request id and is not.
Publish(d) ==
    LET c == cur[d] IN
    /\ step[d] = "attempting"
    /\ IF c \in PeriphCmds
         THEN /\ requestId' = requestId + 1
              /\ wire' = wire \cup {<<c, requestId + 1>>}
              /\ UNCHANGED tag
         ELSE /\ c \notin overdue
              /\ \E b \in Boots :
                    /\ wire' = wire \cup {<<c, b>>}
                    /\ tag' = [tag EXCEPT ![d] = b]
              /\ UNCHANGED requestId
    /\ step' = [step EXCEPT ![d] = "published"]
    /\ UNCHANGED <<status, finalReason, overdue, resolution, outbox, fencing, rowId, lapsed, attempt,
                   inbox, configured, broadcast, cur, token, held, queued, causes, failed, active,
                   handler, faults>>

\* The transport refuses (node offline, manifest or capability changed, no
\* session, deadline passed) or the database fails; the transaction rolls back.
Refuse(d) ==
    LET late == step[d] = "attempting" /\ cur[d] \in overdue \ PeriphCmds IN
    /\ step[d] \in {"attempting", "published"}
    /\ late \/ faults < MaxFaults
    /\ faults' = IF late THEN faults ELSE faults + 1
    /\ step' = [step EXCEPT ![d] = "refused"]
    /\ UNCHANGED <<status, finalReason, overdue, resolution, outbox, fencing, rowId, lapsed, attempt,
                   inbox, configured, wire, requestId, broadcast, cur, token, tag, held,
                   queued, causes, failed, active, handler>>

DispatchCommit(d) ==
    LET c == cur[d] IN
    /\ step[d] = "published"
    /\ OutboxFree(d, c)
    /\ IF status[c] = "QUEUED" /\ HasLease(d)
         THEN /\ attempt' = [attempt EXCEPT ![c] =
                    [status |-> "DISPATCHED", tag |-> tag[d], token |-> token[d], rejected |-> FALSE]]
              /\ status' = [status EXCEPT ![c] = "DISPATCHED"]
              /\ finalReason' = [finalReason EXCEPT ![c] = "none"]
              /\ outbox' = [outbox EXCEPT ![c] = "PROCESSED"]
              /\ lapsed' = lapsed \ {c}
              /\ LeaveProcess(d)
         ELSE /\ step' = [step EXCEPT ![d] = "refused"]
              /\ UNCHANGED <<attempt, status, finalReason, outbox, lapsed, cur, token, tag, held,
                             queued, causes, failed, active>>
    /\ UNCHANGED <<overdue, resolution, fencing, rowId, inbox, configured, wire, requestId,
                   broadcast, handler, faults>>

\* recordDispatchRejection: two statements of their own after the rollback, the
\* execution's guarded by QUEUED, the attempt's by nothing but its key.
RecordRejection(d) ==
    LET c == cur[d] IN
    /\ \/ /\ step[d] = "refused"
          /\ ExecFree(d, c)
          /\ finalReason' = [finalReason EXCEPT ![c] = IF status[c] = "QUEUED" THEN "rejected" ELSE @]
          /\ step' = [step EXCEPT ![d] = "rejected"]
          /\ UNCHANGED <<attempt, cur, token, tag, held, queued, causes, failed, active>>
       \/ /\ step[d] = "rejected"
          /\ attempt' = IF attempt[c].status # "ABSENT" THEN [attempt EXCEPT ![c].rejected = TRUE] ELSE attempt
          /\ LeaveProcess(d)
          /\ UNCHANGED finalReason
    /\ UNCHANGED <<status, overdue, resolution, outbox, fencing, rowId, lapsed, inbox,
                   configured, wire, requestId, broadcast, handler, faults>>

----------------------------------------------------------------------------
(* Service.RecoverExpired, run by the same loop after each ProcessOnce.     *)

OverdueQueued == {c \in overdue : status[c] = "QUEUED"}

\* Bug: a command the device has acknowledged is not looked at again.
OverdueDispatched == {c \in overdue : status[c] = "DISPATCHED"}

OverdueInFlight == {c \in overdue : status[c] \in InFlight}

\* Bug: the UPDATE trusts the SELECT.
SelectedQueued(d) == queued[d]
SelectedInFlight(d) == active[d]

\* The UPDATEs re-check the status of the rows that were selected.
StillQueued(d)   == {c \in queued[d] : status[c] = "QUEUED"}
StillInFlight(d) == {c \in active[d] : status[c] \in InFlight}

\* Return expired leases, read the overdue QUEUED executions.
RecoverSelect(d) ==
    /\ step[d] = "recover"
    /\ \A c \in lapsed : OutboxFree(d, c)
    /\ held' = [held EXCEPT ![d] = lapsed]
    /\ queued' = [queued EXCEPT ![d] = OverdueQueued]
    /\ causes' = [causes EXCEPT ![d] = {c \in OverdueQueued : finalReason[c] = "rejected"}]
    /\ step' = [step EXCEPT ![d] = "failing"]
    /\ UNCHANGED <<status, finalReason, overdue, resolution, outbox, fencing, rowId, lapsed, attempt,
                   inbox, configured, wire, requestId, broadcast, cur, token, tag, failed, active,
                   handler, faults>>

\* Fail those still QUEUED (the UPDATE re-checks the status), close their outbox
\* rows, then read the overdue executions in flight.
RecoverQueued(d) ==
    /\ step[d] = "failing"
    /\ \A c \in queued[d] : ExecFree(d, c) /\ OutboxFree(d, c)
    /\ failed' = [failed EXCEPT ![d] = StillQueued(d)]
    /\ active' = [active EXCEPT ![d] = OverdueInFlight]
    /\ step' = [step EXCEPT ![d] = "closing"]
    /\ UNCHANGED <<status, finalReason, overdue, resolution, outbox, fencing, rowId, lapsed, attempt,
                   inbox, configured, wire, requestId, broadcast, cur, token, tag, held, queued, causes,
                   handler, faults>>

\* Make those in flight UNKNOWN, commit, broadcast every row that was selected.
RecoverCommit(d) ==
    /\ step[d] = "closing"
    /\ \A c \in active[d] : ExecFree(d, c)
    /\ status' = [c \in Cmds |-> IF c \in failed[d] THEN "FAILED"
                                 ELSE IF c \in StillInFlight(d) THEN "UNKNOWN" ELSE status[c]]
    /\ finalReason' = [c \in Cmds |->
          IF c \in failed[d]
            THEN IF c \in causes[d] \/ attempt[c].rejected
                   THEN "rejected; deadline" ELSE "deadline"
            ELSE IF c \in StillInFlight(d) THEN "no evidence" ELSE finalReason[c]]
    /\ outbox' = [c \in Cmds |->
          IF c \in queued[d] /\ Recovered(d)[c] \in {"PENDING", "LEASED"} THEN "CANCELLED"
          ELSE Recovered(d)[c]]
    /\ lapsed' = lapsed \ (held[d] \cup queued[d])
    /\ attempt' = [c \in Cmds |->
          IF c \in active[d] /\ attempt[c].status \in InFlight
            THEN [attempt[c] EXCEPT !.status = "UNKNOWN"] ELSE attempt[c]]
    /\ broadcast' = [c \in Cmds |-> IF c \in active[d] THEN "UNKNOWN"
                                    ELSE IF c \in queued[d] THEN "FAILED" ELSE broadcast[c]]
    /\ step' = [step EXCEPT ![d] = "idle"]
    /\ held' = [held EXCEPT ![d] = {}]
    /\ queued' = [queued EXCEPT ![d] = {}]
    /\ causes' = [causes EXCEPT ![d] = {}]
    /\ failed' = [failed EXCEPT ![d] = {}]
    /\ active' = [active EXCEPT ![d] = {}]
    /\ UNCHANGED <<overdue, resolution, fencing, rowId, inbox, configured, wire, requestId,
                   cur, token, tag, handler, faults>>

----------------------------------------------------------------------------
(* Transactions and processes that do not finish.                           *)

\* The open transaction of d waits for a row lock of e.
WaitsFor(d, e) ==
    /\ d # e
    /\ \/ step[d] = "selected" /\ cur[d] \notin PeriphCmds /\ HoldsChannel(e, ChannelOf[cur[d]])
       \/ step[d] \in {"locked", "published"} /\ HoldsOutbox(e, cur[d])
       \/ step[d] = "failing" /\ \E c \in queued[d] : HoldsExec(e, c) \/ HoldsOutbox(e, c)
       \/ step[d] = "closing" /\ \E c \in active[d] : HoldsExec(e, c)

Deadlocked(d) ==
    \E S \in SUBSET Dispatchers : d \in S /\ \A x \in S : \E y \in S : WaitsFor(x, y)

\* The transaction rolls back: every uncommitted effect of d is forgotten.
ForgetWork(d) ==
    /\ held' = [held EXCEPT ![d] = {}]
    /\ queued' = [queued EXCEPT ![d] = {}]
    /\ causes' = [causes EXCEPT ![d] = {}]
    /\ failed' = [failed EXCEPT ![d] = {}]
    /\ active' = [active EXCEPT ![d] = {}]

\* The database breaks a lock cycle by aborting one of its transactions: a
\* dispatch reports the error, a claim or a recovery waits for the next tick.
DeadlockAbort(d) ==
    /\ Deadlocked(d)
    /\ IF step[d] = "published"
         THEN step' = [step EXCEPT ![d] = "refused"] /\ UNCHANGED <<cur, token, tag>>
         ELSE /\ step' = [step EXCEPT ![d] =
                    IF @ \in {"selected", "locked"} THEN "recover" ELSE "idle"]
              /\ cur' = [cur EXCEPT ![d] = NoCmd]
              /\ token' = [token EXCEPT ![d] = 0]
              /\ tag' = [tag EXCEPT ![d] = NoBoot]
    /\ ForgetWork(d)
    /\ UNCHANGED <<status, finalReason, overdue, resolution, outbox, fencing, rowId, lapsed, attempt,
                   inbox, configured, wire, requestId, broadcast, handler, faults>>

\* The replica dies and is started again.
Crash(d) ==
    /\ step[d] # "idle"
    /\ faults < MaxFaults
    /\ faults' = faults + 1
    /\ step' = [step EXCEPT ![d] = "idle"]
    /\ cur' = [cur EXCEPT ![d] = NoCmd]
    /\ token' = [token EXCEPT ![d] = 0]
    /\ tag' = [tag EXCEPT ![d] = NoBoot]
    /\ ForgetWork(d)
    /\ UNCHANGED <<status, finalReason, overdue, resolution, outbox, fencing, rowId, lapsed, attempt,
                   inbox, configured, wire, requestId, broadcast, handler>>

----------------------------------------------------------------------------
(* Device responses: nodemgr's handleChannelCmdV2Response, then recordInbox *)
(* with the configuration side effect as its finalizer.                     *)

StatusOfEvent(type) ==
    CASE type = "accepted"        -> "DEVICE_ACCEPTED"
      [] type = "verifying"       -> "VERIFYING"
      [] type = "final_succeeded" -> "SUCCEEDED"
      [] type = "final_failed"    -> "FAILED"
      [] type = "unknown"         -> "UNKNOWN"

\* Bug: the boot identity is not compared.
IdentifiedAnyBoot(e) == <<e.cmd, e.boot>> \in wire /\ attempt[e.cmd].status # "ABSENT"

\* A response answers an envelope that was sent, and passes the identity check
\* against the committed attempt; anything else is dropped.
Identified(e) ==
    /\ <<e.cmd, e.boot>> \in wire
    /\ attempt[e.cmd].status # "ABSENT"
    /\ attempt[e.cmd].tag = e.boot

\* Insert the inbox row (a known EventID is inert, one another handler is
\* inserting waits) and read the execution's status without a lock.  A
\* transition validateTransition refuses is recorded and changes nothing else.
InboxRead(h, e) ==
    /\ handler[h] = NoWork
    /\ Identified(e)
    /\ e \notin inbox
    /\ \A g \in Handlers : handler[g].ev # e
    /\ IF validTransition(status[e.cmd], StatusOfEvent(e.type))
         THEN /\ handler' = [handler EXCEPT ![h] = [ev |-> e, seen |-> status[e.cmd]]]
              /\ UNCHANGED inbox
         ELSE /\ inbox' = inbox \cup {e}
              /\ UNCHANGED handler
    /\ UNCHANGED <<status, finalReason, overdue, resolution, outbox, fencing, rowId, lapsed, attempt,
                   configured, wire, requestId, broadcast, faults>>
    /\ UNCHANGED workVars

\* Bug: every Final rewrites the stored configuration.
SideEffectOfAnyFinal(e) ==
    IF e.type \in {"final_succeeded", "final_failed"} /\ e.cmd \in ConfigCmds THEN {e.cmd} ELSE {}

\* applySN3001ControlSideEffectTx, the finalizer of a successful Final.
SideEffect(e) == IF e.type = "final_succeeded" /\ e.cmd \in ConfigCmds THEN {e.cmd} ELSE {}

\* The UPDATE ... WHERE status = <the status read>, the attempt's status and the
\* side effect, committed together.  No row updated: only the event is kept.
InboxApply(h) ==
    LET e  == handler[h].ev
        to == StatusOfEvent(e.type)
    IN
    /\ handler[h] # NoWork
    /\ Unlocked(e.cmd)
    /\ inbox' = inbox \cup {e}
    /\ IF status[e.cmd] = handler[h].seen
         THEN /\ status' = [status EXCEPT ![e.cmd] = to]
              /\ finalReason' = [finalReason EXCEPT ![e.cmd] = IF IsTerminal(to) THEN "final" ELSE @]
              /\ attempt' = [attempt EXCEPT ![e.cmd].status = to]
              /\ configured' = configured \cup SideEffect(e)
         ELSE UNCHANGED <<status, finalReason, attempt, configured>>
    /\ handler' = [handler EXCEPT ![h] = NoWork]
    /\ UNCHANGED <<overdue, resolution, outbox, fencing, rowId, lapsed, wire, requestId, broadcast, faults>>
    /\ UNCHANGED workVars

\* The transaction of a successful Final fails, in its side effect or before: all of it
\* rolls back, the inbox row included, and a second transaction records final_failed under
\* the same sequence number, of the status as it is by then.
FinalizerFails(h) ==
    LET e    == handler[h].ev
        fail == [e EXCEPT !.type = "final_failed"]
        open == fail \notin inbox /\ validTransition(status[e.cmd], "FAILED")
    IN
    /\ handler[h] # NoWork
    /\ e.type = "final_succeeded"
    /\ \A g \in Handlers : handler[g].ev # fail
    /\ faults < MaxFaults
    /\ faults' = faults + 1
    /\ inbox' = IF open THEN inbox ELSE inbox \cup {fail}
    /\ handler' = [handler EXCEPT ![h] = IF open THEN [ev |-> fail, seen |-> status[e.cmd]] ELSE NoWork]
    /\ UNCHANGED <<status, finalReason, overdue, resolution, outbox, fencing, rowId, lapsed, attempt,
                   configured, wire, requestId, broadcast>>
    /\ UNCHANGED workVars

\* The response is lost with the process, or its transaction fails.
HandlerFails(h) ==
    /\ handler[h] # NoWork
    /\ faults < MaxFaults
    /\ faults' = faults + 1
    /\ handler' = [handler EXCEPT ![h] = NoWork]
    /\ UNCHANGED <<status, finalReason, overdue, resolution, outbox, fencing, rowId, lapsed, attempt,
                   inbox, configured, wire, requestId, broadcast>>
    /\ UNCHANGED workVars

----------------------------------------------------------------------------
(* Time.                                                                    *)

\* A lease is in use while the replica that took it still works on it; only
\* then does its running out count against MaxFaults.
InUse(c) == \E d \in Dispatchers : cur[d] = c /\ token[d] = fencing[c]

LeaseExpires(c) ==
    /\ outbox[c] = "LEASED"
    /\ c \notin lapsed
    /\ InUse(c) => faults < MaxFaults
    /\ faults' = IF InUse(c) THEN faults + 1 ELSE faults
    /\ lapsed' = lapsed \cup {c}
    /\ UNCHANGED <<status, finalReason, overdue, resolution, outbox, fencing, rowId, attempt,
                   inbox, configured, wire, requestId, broadcast, handler>>
    /\ UNCHANGED workVars

DeadlinePasses(c) ==
    /\ status[c] # "ABSENT"
    /\ c \notin overdue
    /\ overdue' = overdue \cup {c}
    /\ UNCHANGED <<status, finalReason, resolution, outbox, fencing, rowId, lapsed, attempt,
                   inbox, configured, wire, requestId, broadcast, handler, faults>>
    /\ UNCHANGED workVars

----------------------------------------------------------------------------

ProcessOnce(d) ==
    \/ ClaimSelect(d) \/ ClaimLock(d) \/ ClaimCommit(d)
    \/ DispatchOpen(d) \/ Publish(d) \/ DispatchCommit(d) \/ RecordRejection(d)

RecoverExpired(d) == RecoverSelect(d) \/ RecoverQueued(d) \/ RecoverCommit(d)

\* One turn of runCommandDispatcher.  Refuse is part of the loop's progress: the
\* transport answers, one way or the other.
Loop(d) == ProcessOnce(d) \/ Refuse(d) \/ RecoverExpired(d) \/ DeadlockAbort(d)

Next ==
    \/ \E c \in Cmds : Create(c) \/ Cancel(c) \/ LeaseExpires(c) \/ DeadlinePasses(c)
    \/ \E c \in Cmds, o \in Outcomes : ResolveUnknown(c, o)
    \/ \E d \in Dispatchers : Loop(d) \/ Crash(d)
    \/ \E h \in Handlers :
          \/ \E e \in Events : e.type \in EventTypes /\ InboxRead(h, e)
          \/ InboxApply(h) \/ FinalizerFails(h) \/ HandlerFails(h)

Spec == Init /\ [][Next]_vars

\* Every replica's loop keeps ticking, a transaction that may go on does, and
\* the clock goes on.  Nothing is assumed of operators or devices.
Fairness ==
    /\ \A d \in Dispatchers : WF_vars(Loop(d))
    /\ \A h \in Handlers : WF_vars(InboxApply(h))
    /\ \A c \in Cmds : WF_vars(LeaseExpires(c)) /\ WF_vars(DeadlinePasses(c))

FairSpec == Spec /\ Fairness

----------------------------------------------------------------------------
(* Properties.                                                              *)

\* Every variable has its type: the rows of the engine, the dispatcher loops, and
\* what devices, clients and handlers see.
RowsTyped ==
    /\ status \in [Cmds -> Statuses]
    /\ finalReason \in [Cmds -> Reasons]
    /\ overdue \in SUBSET Cmds
    /\ resolution \in [Cmds -> Outcomes \cup {NoOutcome}]
    /\ outbox \in [Cmds -> OutboxStates]
    /\ fencing \in [Cmds -> Nat]
    /\ rowId \in [Cmds -> Nat]
    /\ lapsed \in SUBSET Cmds
    /\ attempt \in [Cmds -> Attempts]

LoopsTyped ==
    /\ step \in [Dispatchers -> Steps]
    /\ cur \in [Dispatchers -> Cmds \cup {NoCmd}]
    /\ token \in [Dispatchers -> Nat]
    /\ tag \in [Dispatchers -> Tags]
    /\ held \in [Dispatchers -> SUBSET Cmds]
    /\ queued \in [Dispatchers -> SUBSET Cmds]
    /\ causes \in [Dispatchers -> SUBSET Cmds]
    /\ failed \in [Dispatchers -> SUBSET Cmds]
    /\ active \in [Dispatchers -> SUBSET Cmds]

WorldTyped ==
    /\ inbox \in SUBSET Events
    /\ configured \in SUBSET ConfigCmds
    /\ wire \in SUBSET (Cmds \X Tags)
    /\ requestId \in Nat
    /\ broadcast \in [Cmds -> Statuses]
    /\ handler \in [Handlers -> Work]
    /\ faults \in 0..MaxFaults

TypeOK == RowsTyped /\ LoopsTyped /\ WorldTyped

\* Two commands for the same physical channel are never leased at once, whatever
\* replicas claim them (the Channel row lock and the second count in ProcessOnce).
ChannelMutex ==
    \A c1, c2 \in Cmds \ PeriphCmds :
        c1 # c2 /\ ChannelOf[c1] = ChannelOf[c2] =>
            ~(outbox[c1] = "LEASED" /\ outbox[c2] = "LEASED")

\* The publication evidence retention relies on (dispatcher.go, INV-9): an
\* attempt row exists exactly when the outbox row is PROCESSED, it then carries
\* the execution's own status, and without one the command never left QUEUED
\* except to FAILED or CANCELLED.
PublicationEvidence ==
    \A c \in Cmds :
        IF outbox[c] = "PROCESSED"
          THEN attempt[c].status = status[c] /\ status[c] \in InFlight \cup (Terminal \ {"CANCELLED"})
          ELSE attempt[c] = NoAttempt /\ status[c] \in {"ABSENT", "QUEUED", "FAILED", "CANCELLED"}

\* A dispatcher whose lease was taken over never commits its attempt: the attempt
\* row carries the fencing token of the last lease.
FencedCommit == \A c \in Cmds : attempt[c].status # "ABSENT" => attempt[c].token = fencing[c]

\* A command is reported SUCCEEDED only on a verified Final that came from the
\* boot the committed attempt was sent to.
SuccessIsEvidenced ==
    \A c \in Cmds : status[c] = "SUCCEEDED" =>
        /\ <<c, attempt[c].tag>> \in wire
        /\ \E e \in inbox : e.cmd = c /\ e.type = "final_succeeded" /\ e.boot = attempt[c].tag

\* The stored configuration follows the device exactly: it is rewritten in the
\* transaction that reports success, and in no other.
ConfigFollowsSuccess == configured = {c \in ConfigCmds : status[c] = "SUCCEEDED"}

\* A recorded Final settles its command.  (With two handlers at work on the
\* same command it need not: the Final's guarded UPDATE may lose to an "accepted".)
FinalSettles ==
    \A e \in inbox : e.type \in {"final_succeeded", "final_failed"} => status[e.cmd] \in Terminal

\* A terminal verdict is for ever: neither a late response, a late dispatcher, a
\* cancellation nor another recovery changes the status, the reason, the attempt's
\* status or the operator's resolution of a command that has one.
VerdictKept ==
    \A c \in Cmds : status[c] \in Terminal =>
        /\ status'[c] = status[c]
        /\ finalReason'[c] = finalReason[c]
        /\ attempt'[c].status = attempt[c].status
        /\ resolution[c] # NoOutcome => resolution'[c] = resolution[c]

VerdictIsFinal == [][VerdictKept]_vars

\* Every command that was accepted gets a verdict: the dispatcher, the device or
\* RecoverExpired gives it one, whatever crashes, refusals and lost leases occur.
Concludes == \A c \in Cmds : status[c] \notin Terminal \cup {"ABSENT"} ~> status[c] \in Terminal

\* The outbox row of a concluded command is closed, so that a lease left behind
\* by a crash or a cancellation does not block its channel.
OutboxSettles ==
    \A c \in Cmds : status[c] \in Terminal ~> outbox[c] \in {"PROCESSED", "CANCELLED"}

\* The engine implements the promise to its clients, safety and liveness.
Lifecycle == INSTANCE CommandLifecycle WITH
    Cmds <- Cmds, ConfigCmds <- ConfigCmds, Outcomes <- Outcomes, NoOutcome <- NoOutcome,
    status <- status, configured <- configured, resolution <- resolution
ImplementsLifecycle == Lifecycle!FairSpec

----------------------------------------------------------------------------
(* What comments of the code say and the code does not do; each is refuted.  *)

\* dispatcher.go: "a rejection can never be attributed to a different attempt
\* than the one that was just tried" (a rejected attempt's row is rolled back).
RejectionOnOwnAttempt == \A c \in Cmds : ~attempt[c].rejected

\* inbox.go: "deadline expired before dispatch" is the sentence that tells the
\* operator a command was never dispatched.
DeadlineMeansNeverSent ==
    \A c \in Cmds : finalReason[c] = "deadline" => \A w \in wire : w[1] # c

\* TestDeadlineNeverOverwritesDispatchRejectionReason: a cause that is recorded
\* survives the deadline.
DeadlineKeepsCause ==
    [][\A c \in Cmds : finalReason[c] = "rejected" => finalReason'[c] # "deadline"]_vars

\* inbox.go: RecoverExpired returns "the changed executions" for broadcast.
BroadcastOnlyChanged ==
    [][\A c \in Cmds : broadcast'[c] # broadcast[c] => status'[c] = broadcast'[c]]_vars
============================================================================
