# A verification project for EHome

EHome is an IoT platform: a Go backend (`backend/`), ESP32 collector nodes
(`esp32-collector/`, C on ESP-IDF/FreeRTOS) and a web frontend. Sensors and actuators hang
on the buses (UART, I2C, SPI, USB) of the nodes. The backend sends a node its configuration
and commands, the node sends back telemetry, acknowledgements and results.

This directory holds TLA+ models of that system, the TLC configurations that check them and
proofs checked by TLAPS. Paths below are relative to the repository.

1. [The system](#1-the-system)
2. [The modules](#2-the-modules)
3. [The backend's modules](#3-the-backends-modules)
4. [The node's modules](#4-the-nodes-modules)
5. [Runs and bounds](#5-runs-and-bounds)
6. [Proofs](#6-proofs)
7. [What the code does not do](#7-what-the-code-does-not-do)
8. [What is not modelled](#8-what-is-not-modelled)

## 1. The system

### How the parts interact

A command takes this way:

    operator -> api -> commandexec.Service.Create   (execution + outbox row, one transaction)
    dispatcher loop -> lease on the row -> ChannelCmdV2 envelope -> downlink -> transport session
    node: session -> msg_handler -> slot -> bus_manager -> control queue -> bus_worker -> device
    device -> bus_worker -> queue of finals -> report task -> Final (0x17) -> transport
    nodemgr handler -> commandexec inbox -> verdict, attempt, configuration side effect

Telemetry takes the opposite way (`bus_worker` -> report task -> transport -> nodemgr worker
pool -> data bus -> ingest, alerts, automation, websocket); configuration is a manifest the
backend derives from its tables, pushed when the hashes differ (`nodemgr/sync_gate.go`) and
applied by the node as a transaction (`main/config_apply_transaction.c`).

### Components

| Component | State it keeps | Operations | What is hard | What makes it correct |
|---|---|---|---|---|
| Command engine (`commandexec/dispatcher.go`, `inbox.go`, `state.go`, transports; `nodemgr/handler_channel_cmd_v2.go`) | executions, outbox rows with leases and fencing tokens, attempts, inbox events | claim, publish, commit, reject, recover, record an ACK or Final | several replicas and handlers over one READ COMMITTED database, publication inside a transaction, crashes, expired leases, events in any order | one lease per channel, no commit under a lost lease, every publication leaves evidence, one verdict for ever, a verdict for everyone |
| Admission (`service.go`, `confirmation.go`) | executions by idempotency key, confirmation tokens | create, confirm, cancel, resolve | concurrent requests under one key, tokens used twice, rate limit | one execution per key, a token is used once |
| Node control slots (`msg_handler/handler_channel_cmd_v2.c`, `bus_worker`, `bus_manager`) | RAM slots, queues, pending responses | reserve, replay, admit, execute, answer, finish, publish, suspend, discard | seven tasks, atomics without locks, eviction, full queues, reconfiguration | a slot belongs to its command while anything of it is on its way, nothing is forgotten, one execution per slot |
| Configuration synchronisation (`sync_gate.go`, `handler_config.go`; `sync_manager`, `config_mgr`) | hash, manifest id, sync id, sync state per node; timeouts on the node | decide, push, acknowledge, fail, retry | results of earlier generations, both sides waiting for each other, restarts | a stale result changes nothing; node and backend agree in the end |
| Configuration apply (`config_apply_transaction.c`, `app_callbacks.c`) | staged and active manifest, buses, scheduler | suspend, apply, roll back, restart | failure of any step and of its rollback | the node runs the old or the new configuration, or restarts |
| Transport (`transport/`, `downlink/`; `session`, `link_tcp`) | one session per device, write lock, MTU | accept, supersede, send, close | a new session while the old one sends, partial writes | no frame is duplicated or cut, one live session |
| Hello handshake (`hello_handshake_state.c`, `nodemgr`) | generation, retries | hello, ack, time-out | late answers of an earlier connection | an earlier generation's answer is ignored |
| Pending writes (`pendingwrite/`) | map of request ids, persisted rows | send, answer, time out, recover, shut down | answer against time-out, ids after restart | each caller gets one outcome |
| Device operations (`nodemgr/device_op_tracker.go`) | one pending operation per node | begin, complete, expire, abort | late acknowledgements | an acknowledgement completes its own request |
| Offline detector, OTA, notifications, alerts | per-node or per-rule state | tick, report, enqueue, evaluate | restarts, bounded queues, hysteresis | eventual delivery, no flapping |
| Node manager worker pool (`nodemgr/worker_pool.go`) | job channel | enqueue, process | reports of one device in two workers | newest state wins |
| Data bus, ingest, data lifecycle | subscriber queues, batches, archives | publish, flush, archive, purge | full queues, retention against writers | nothing unarchived is purged |
| Automation, data sources | rules, clocks, active source | evaluate, fail over | time windows, dependency on commands | one action per trigger |
| Node scheduler, DMA pool, peripheral ownership, boot guard | sampling times, leases, owners, boot counters | tick, lease, claim, confirm | reconfiguration, restart loops | exclusive leases, no restart loop |
| Drivers, codecs, API, auth, frontend, deployment | none of their own, or plain rows | | | |

`PROJECT.json` lists every component with its status and every hazard with its line and the
properties that cover it.

## 2. The modules

| Module | Models | Checked by | Proved in |
|---|---|---|---|
| `CommandLifecycle` | what the command engine promises its clients (abstract) | | |
| `CommandExec` | the command engine; implements `CommandLifecycle` | `safety`, `live` | `CommandExecProofs` |
| `AdmissionPromise` | what admission promises who presses a button (abstract) | | |
| `CommandAdmission` | idempotency, confirmations, retention, the panel; implements `AdmissionPromise` | `admission_safety` | `CommandAdmissionProofs` |
| `ConfigSync` | configuration changes, the sync gate, the push, the node's answers | `config_delivery` | `ConfigSyncProofs` |
| `Automation` | one rule: evaluator, planner, confirmation, editor | `automation_safety` | `AutomationProofs` |
| `SourceGroup` | primary/backup data sources and the snapshots readers see | `source_safety` | `SourceGroupProofs` |
| `Transport` | connections, sessions, frames, shutdown of the TLS listener | `transport_safety`, `transport_stall` | `TransportProofs` |
| `Ota` | firmware updates, server and node | `ota_safety` | `NodeUpdateProofs` |
| `ControlSlots` | the node's slots and the way of a command through the node | `slots_safety`, `slots_live` | `ControlSlotsProofs` |
| `ConfigApply` | the node's configuration transaction | `apply_safety` | `NodeUpdateProofs` |

`MC...` modules give the constants values and, where one instance cannot have everything at
once, name the scenarios a run is made of.

How the modules meet. `CommandAdmission` ends where `CommandExec` begins, at an execution with
its outbox row (`Create` is in both; the engine's progress is one step in `CommandAdmission`).
`CommandExec` publishes to a device that answers anything; `ControlSlots` is what the device
does between an envelope and its Final. `ConfigSync` is the negotiation about a manifest;
what the node does with it, one step with four outcomes there (applied, refused, applied without
its metadata, restarted), is `ConfigApply`, whose `Persist` and `Restart` are those outcomes.
`ControlSlots` has the same suspension as `ConfigApply`, with the queues instead of the
transaction. The bounded event bus, the session that breaks under a message and the reader that
outlives it are abstracted in `ConfigSync` from what `Transport` has in detail.

## 3. The backend's modules

### 3.1 CommandExec: the command engine

State:

| Variables | Code |
|---|---|
| `status`, `finalReason`, `overdue`, `resolution` | `models.CommandExecution`: status, final_reason, deadline < now, unknown_resolution |
| `outbox`, `fencing`, `rowId`, `lapsed` | `models.CommandOutbox`: state, fencing_token, primary key (order of candidates), lease_until < now |
| `attempt` | `models.CommandAttempt` (attempt_no is always 1): status, boot id or request id it was sent under, the token of the lease, whether a rejection was written to it |
| `inbox` | `models.CommandInbox`, one row per (execution, boot, sequence, type) |
| `configured` | rows rewritten by `applySN3001ControlSideEffectTx` |
| `wire`, `requestId` | envelopes handed to the downlink; `nextPeriphRequestID` |
| `broadcast` | what `runCommandDispatcher` hands to the websocket |
| `step`, `cur`, `token`, `tag`, `held`, `queued`, `causes`, `failed`, `active` | program counter and local variables of a dispatcher loop, and the rows its open transaction has locked or selected |
| `handler` | a response handler between its read of the status and its guarded UPDATE |
| `faults` | a bound on faults |

Actions:

A transaction at READ COMMITTED that reads before it writes is several actions, because other
transactions may commit in between; what it has written becomes visible at its last action and
the rows are locked until then (`HoldsExec`, `HoldsOutbox`, `HoldsChannel`).

| Actions | Code |
|---|---|
| `Create`, `Cancel`, `ResolveUnknown` | `Service.Create` 481, `Cancel` 690, `ResolveUnknown` 632 |
| `ClaimSelect`, `ClaimLock`, `ClaimCommit` | `Dispatcher.ProcessOnce`: the candidate query, the Channel lock with its second count, the lease |
| `DispatchOpen`, `Publish`, `DispatchCommit` | `Dispatcher.dispatch`: the fenced transaction with the publication in its middle |
| `Refuse`, `RecordRejection` | the transport refuses (no session, too large, expired); `recordDispatchRejection`, whose UPDATE of the attempt and UPDATE of the execution are two steps |
| `RecoverSelect`, `RecoverQueued`, `RecoverCommit` | `Service.RecoverExpired`: three selections and their guarded UPDATEs |
| `InboxRead`, `InboxApply`, `FinalizerFails`, `HandlerFails` | `handleChannelCmdV2Response` and `recordInbox`; the finalizer runs after any error of the first transaction of a Final that succeeded, of whatever command |
| `LeaseExpires`, `DeadlinePasses`, `Crash`, `DeadlockAbort` | time, the death of a replica, PostgreSQL aborting one of two transactions that wait for each other |

`Loop(d)` is `runCommandDispatcher` (`cmd/server/main.go`), which calls the recovery and the
dispatcher in turn. `SKIP LOCKED`, row locks and unique keys are modelled from how the code uses
PostgreSQL.

Fairness: `FairSpec` assumes that every replica's loop ticks (a `time.Ticker` in
`runCommandDispatcher`, restarted with the process), that a handler's transaction ends, and that
clocks go on. Nothing is assumed of operators, of the device or of the transport's success, so
`Concludes` shows that the recovery alone gives every command a verdict.

### 3.2 CommandAdmission: keys, confirmations, retention

A request is `Create` (`service.go:481`): look up the key, evaluate the gates, decide whether a
confirmation is needed, read the clock and the user's login (`Authenticate`), consume the
confirmation by a conditional UPDATE that compares with the clock as it was read (`Consume`),
insert under the unique index, commit. Between any two of these another request, a confirmation
dialog, the cleaners of two replicas or the operator who resolves an UNKNOWN may commit; a row or
a key that a transaction has written makes others wait (`Waits`), and `NoDeadlock` is about the
cycles of such waiting. `IssueCount`/`IssueCommit` are the count and the insertion of
`issueConfirmation`; `RateBounded` is an invariant because the user's row is locked around both.
`CleanSelect` and `CleanDelete` are the selection and the deletion of `CommandExecutionCleaner`,
`PanelBaseline` and `PanelCount` the two reads of the metrics panel.

`ImplementsPromise` maps the executions on record and the consumed confirmations to
`AdmissionPromise`: one execution per key as long as it is on record, one per confirmation.
The gates' answer is nondeterministic (a gate reads tables this module does not have).

### 3.3 ConfigSync: who has which configuration

`node` is the pair of columns `config_status` and `config_sync_state` with the manifest id and
the sync id of the last push, `outbox` the durable changes, `bus` the bounded channel that drops
when it is full. `TakeChange`, `BeginReplay` and `Replay` are the gate's loop, `Send` the push
with its steps (snapshot, row written as syncing, publication, failure), `Handle` the three
messages a node sends. A manifest id is a hash of the content, so it *is* the configuration;
`Reconciled` is what `reconcileDriverTemplates` rewrites while it pushes, `Deliverable` what the
sender's checks let through. A session that was superseded finishes the message it handles:
two readers.

`InSyncIsApplied` relates the row to what the node committed, `ProcessedWasPushed` the outbox to
what was published, `Converges` says that the node gets the configuration once edits, losses and
faults have ended. Fairness: the gate's loop, the goroutines of pushes and the reader run; the
node reports every second, applies what it gets and reconnects; strong fairness where a message
of the node competes with the window or with the link. With a node that answers after the
deduplication window (`prompt = FALSE`) only safety is checked.

`RequestSync` is a Hello of any node at any time (`sync_manager` sends one periodically and on
doubt); only that of a node without configuration is fair, as that is what the periodic task
guarantees within its interval. Three of the six scenarios leave out the others (`Unasked` in
`MCConfigSync`), three have them. Two branches of `sync_gate.go` are left out: `no_server_config`
(the backend always has a configuration here) and `force_push:hash_match_but_zero_channels`, which
answers a node that reports the identity of a configuration it did not load; here a node that
restarts has loaded what it reports.

### 3.4 Automation: one rule

`ApplyTrigger` is the locked part of `evalRule` (window, duration, cooldown), the planner's steps
are the daily limit, the number of the trigger with the actions, each action's `Create` by its
idempotency key, the event and the anchor (`last_triggered_at`), every write a step of its own.
The queries a plan rests on are one step, and each of them may fail (`Fails`), whereupon the
planner goes on without it, as in the code: a COUNT that fails gives number 1 again (`Numbers`), a
limit whose query fails does not hold (`Limited`), an anchor that cannot be read is none, and
`ruleActions` without the rows of `automation_rule_actions` takes the rule's mirror columns, which
hold the first action only (`Loads`). So a plan has `n` actions, which may be fewer than the rule
has (`NumActions`); `n` is in jobs, and in an event it stands for the part of `action_hash` that
says how many actions the operator was shown. `ExecutedIsWhole` is about the plan: "executed"
means that each of its `n` actions was sent, in one version. That an executed event stands for
every action of the *rule* is `ExecutedIsComplete`, which the fallback breaks (section 7).
`Rebuilt` is what a reload or a restart makes of the anchor. Proposals go from pending to
confirmed or expired by conditional UPDATEs that two operators and the sweeper race for; `Edit`
gives the rule a new version of its actions, which `ConfirmedAsSeen` compares with the one the
operator saw; a confirmation whose query fails where the proposal's did not, or the other way
round, is refused by the hash. `LoadRead`/`LoadSwap` are `LoadRules`, whose query is outside the
lock.

Fairness: sweeper, ticker and clock run; a loader that has read gets its lock. No report, no
operator is assumed.

### 3.5 SourceGroup: one authority

The database is READ COMMITTED, nothing in `datasource/` locks a row when it reads it, and the
updates are `WHERE id` only. A transaction that reads and then writes is therefore a step that
reads and a later one that writes by id, whatever the row has become: `tx[t]` is what goroutine
`t` has read (the member, the candidate, the count). What it writes last, it commits in the same
step.

| Actions | Code |
|---|---|
| `MarkSuccess`, `applySuccess` | a frame: the status is read (`group_state.go:66`), then `standby` or only the count is written (77-79) |
| `MarkFailure`, `countFailure`, `JustCount`, `maybeGroupFailover` | the offline detector: the count is read, then the count or `error` is written; after `error` the group, its active member, the cooldown and the candidate are read |
| `LoseAuthority`, `SwitchTo` | what the failover does with what it read: no successor, or an election |
| `scanGroup`, `failStaleGroupMember`, `selfHealGroup` | the scanner: what is read before the transaction, in it, and the count of active members (`group_scan.go:183`) before the promotion |
| `ActivateGroupMember`, `DeactivateGroupMember`, `ResetGroupMember`, `DeleteGroup` | the API reads ... |
| `Activate`, `DisableMember`, `Handover`, `Reset`, `Delete` | ... and writes |
| `UpdateMembers`, `SetEnabled` | `UpdateGroup` |
| `IndexRefuses` | an UPDATE to `active` runs into `ux_sgm_one_active` and its transaction is rolled back |
| `Break` | any other statement fails: connection, deadlock victim |
| `ReadRow`, `ReadMembers`, `Put`, `Emit`, `Hook`, `ReloadStart`, `ReloadDone` | the publication after a commit, the hook, the reloader |

Two elections can both have counted no active member. What keeps them apart is the partial unique
index (`Refused`, `models/source_group.go`) and that a transaction which replaces the authority
makes the old one step down first. A failover writes `error` before it reads on, so its row is locked
until it commits (`Held`): who writes it waits, and so does who would add a second active row next to
it. A row that was deleted after it was read is `Gone`, and an UPDATE by its id changes nothing.

Nothing orders two publications. Time is ages in scan intervals, saturating where the code compares
them (staleness 5 min, residency 2 min, cooldown 5 min against a scan of 60 s are 1 each in the
instance; only their order matters).

`OneAuthority`: of two elections one is refused. `RevisionNamesOne` is the promise readers rely
on: no two members are the authority under one revision, even where the write of a transaction
passes over a change it has not seen. (That the authority is not *lost* without a new revision is
something else and false: `LossMovesRevision`, section 7.) `CurrentIsTrue`: a reader who finds the
snapshot's revision current has the authority, if there is one. `AuthorityReturns`: an enabled
group with a member that reports gets an authority. Fairness: a transaction that has begun goes
on, a goroutine that has committed publishes, scanner and reloader run, time passes; a live device
reports again and again (strong, since it competes with the scan).

Abstracted: reads that follow each other in a transaction without a write between them are one
step (the scanner's, the count and the members of an election); `UpdateMembers` is one step
because its first UPDATE locks the group's row and the next ones every member's before it counts;
publications whose query fails are left out: the old snapshot stays until the next publication, on
which `SwitchIsFollowed` depends and no property of the run; composite groups, rule anchors and
degraded readings are left out.

### 3.6 Transport: sessions and frames

One node's connections, one after the other, each with its handler (`handleConn`: accepted,
handshake, registration, reading, removal, closing), the registry's entry and the goroutines
that send. `Write` takes any number of a frame's parts, times out with or without progress, or
fails; what is received is a stream of symbols cut anywhere, with a header of three symbols that
stands for the twelve bytes (magic, checksum flag, length), and small payloads.

`medium` separates what `Session` is written and tested against (a `net.Conn` on which a timed-out
write can be resumed) from what the server serves (`crypto/tls`, on which it cannot): the safety
run has both, `transport_stall` the second. `OnConnect` and `OnDisconnect` are not set in
production and `CloseAll` is not used, so they are not modelled. `Send` of a frame that is empty
or longer than the MTU (`session.go:183`) answers before it takes the lock or writes; it is left
out.

### 3.7 Ota: firmware updates

One node. A task's row is written by the request that supersedes others, by the waiter that sends
again and gives up, by the scanner, by a cancellation and by the node's frames and Hello, each a
read and a later guarded or unguarded write. The node remembers the last command in flash
(`ota_classify_cmd`), refuses when busy or short of memory, downloads, reporting at the start of
each attempt (`Download`), sets the boot partition (`SetBoot`), reports (`Install`) and restarts;
a restart between any two of these boots what the partition says by then. A success reaches the
server as the Hello of the new firmware. Rollback counts failures and creates a task of its own.

The deferred deletion of the pending entry is taken with the UPDATE before it, and so is the
read of the newest task with the write of the node's firmware version; creating a task and
publishing it are separate steps of one caller, and so are the row and the waiter's channel of a
cancellation (`ConfirmCancel`, then `Ack`).

## 4. The node's modules

### 4.1 ControlSlots: the node's slots

`state`, `cmd`, `result`, `order` are the fields of `s_slots`, `sequence` is
`s_completed_sequence`. `receiver` is the progress of a task inside
`handler_channel_cmd_v2_process`. A command that was admitted is a *descriptor* in `descs`; its
`place` says whether it is in a bus's control queue, in the worker's hands, in the queue of
pending responses, in the queue of finals or in the report task. Only its slot's index travels,
as in the code since the batch plan is borrowed. `config`, `parked`, `rxParked`, `drained` and
`live` are a configuration change.

| Actions | Code |
|---|---|
| `Deliver`, `Reserve`, `Claim` | parsing, boot and deadline checks; `reserve_slot` under its spin lock, which only other receivers respect: the report task finishes slots meanwhile. `Reserve` is the scan and `prepare_slot`, `Claim` the store of QUEUED |
| `Admit`, `Replay`, `Resend` | admission by `bus_manager_on_channel_cmd_v2`, or the replay branch with its check and its later read |
| `Take`, `GiveUp`, `Execute` | `uart_cmd_loop`: next command, no bus or suspension, transmission or batch plan |
| `Answer` | `rx_task`: response, overflow, time-out |
| `Complete`, `Store`, `PublishFinal` | `report_task` and `handler_channel_cmd_v2_complete`: the compare-and-swap, the stores up to FINAL, the transmission |
| `Suspend`, `Park`, `ParkRx`, `BeginDrain`, `Discard`, `Drained`, `Apply`, `Resume` | `bus_worker_suspend`, `wait_if_suspended`, `bus_worker_discard_queued`, `bus_manager_cleanup_all`, `bus_worker_resume` as `handle_config_applied` calls them |

`Park` is one step here: a worker reads the flag and sets its bit at once (`bus_worker.c:342-346`).
The worker that is preempted between the two and sets its bit in the next suspension is in
`ConfigApply` (`Look`, `SetBit`, `PromptAck`), where the two are separate; of `ControlSlots`,
`SlotHeld` and `NoneForgotten` say nothing about it.

Queues are sets: no property depends on their order, and a set allows every order. `seen` is
the part of the scan that matters: a slot finished before the scan began is seen as finished,
one that finishes during it may or may not be.

The reservation is atomic between scan and preparation because the code holds
`s_reservation_lock` there; the lock itself is modelled (`LockFree`) and without it a finished
slot gets the result of another command (the mutant `LockIgnored`).

Fairness: every FreeRTOS task runs; a worker that is parked and resumed again and again takes
its next command in the end, and responses time out even when rx_task parks now and then
(strong fairness of `Take` and `Answer`: a configuration change is a request from the backend,
which sends one at a time and rarely).

### 4.2 ConfigApply: the configuration transaction

`pc` is the progress of `handle_config_applied` (`main/app_callbacks.c:392`) through the
suspension, the staging, `config_apply_transaction_execute` and its rollback, to the resumption
or the restart.

| Actions | Code |
|---|---|
| `Deliver` | the message; Phase A may refuse; `old` is the active slot if it is applied |
| `Look`, `SetBit`, `Unpark`, `EndWork` | `wait_if_suspended` and the rest of a worker's loop: reading the flag and setting the bit are two steps |
| `ClearBits`, `RequestSuspension`, `Suspended`, `SuspendTimesOut` | `bus_worker_suspend` |
| `Stage`, `Preinstall`, `Discard`, `DiscardStaged` | `config_mgr.c`: two slots, one active, one staged |
| `Begin`, `Snapshot`, `StopScheduler`, `Prepared`, `StopTimesOut` | the gate, the snapshot, `scheduler_stop` with its one second |
| `ApplyDma`, `ApplyPeripherals`, `ApplyBuses`, `ApplyScheduler`, `Commit` | the steps; each may be refused by the memory gate or break off |
| `RollbackBuses`, `RestoreParts`, `RestoreBuses`, `RestoreScheduler`, `NothingToRebuild`, `EnterSafeState` | `rollback`, each step of which may fail too |
| `Persist`, `Resume`, `Restart` | the identity in flash, the way out, `esp_restart` |
| `SetDuty` | a command to a PWM channel: anything that changes a peripheral under the same gate |

A part of the runtime holds a manifest, nothing (`Empty`), or pieces (`Partial`) after a step
that broke off. Any step may fail in any transaction, any number of times.

`PromptAck` is an assumption about time. A worker that read `s_suspend_requested` and was
preempted before it set its bit may set it in the *next* suspension, which would then take it for
parked while it works. Nothing but the time between two manifests (a round trip with the server)
excludes that; with `PromptAck = FALSE` TLC finds `RebuiltAlone` violated.

Three things the model shows that are as the code has them: two manifests within the millisecond
in which a parked worker polls the flag make the second suspension time out, a refusal without
consequence; after a safe state the old manifest is still the active one (section 7); a
configuration whose identity cannot be written to flash is answered as a failure though it is in
force.

Fairness: every task runs; a parked worker sees the flag in the end though suspensions may
follow one another (strong fairness of `Unpark`).

Left out: the second device link (debug builds over TCP), and with it the configuration lock,
which only this handler takes: with that link a second suspension, timing out, would resume the
workers in the middle of the first transaction's teardown; the log stream, which cannot fail a
transaction; the 5 s after which a prepared scheduler gives up (`scheduler.c:901`: between
`scheduler_prepare` and `scheduler_activate` lie the log step, of at most some 3 s, and a commit
in RAM); drivers that `Preinstall` leaves installed; commands in the queues (`ControlSlots`); GPIO
levels, of which the snapshot keeps the configured initial one and not the level set by a command,
so that only PWM duties follow `NoLostCommand`.

## 5. Runs and bounds

| Run | Shows | Bounds |
|---|---|---|
| `safety` | `ChannelMutex`, `PublicationEvidence`, `FencedCommit`, `SuccessIsEvidenced`, `ConfigFollowsSuccess`, `VerdictIsFinal` | 2 replicas, 1 fault, in each of three scenarios (`MCCommandScenarios`): 2 commands of one UART; 1 command under 2 boots and 2 handlers; a UART and a peripheral command |
| `live` | `Concludes`, refinement of `CommandLifecycle` | 1 command, 2 replicas, 1 handler, 2 event sequence numbers, 1 fault |
| `admission_safety` | `GrantBacksOne`, `RateBounded`, `NoDeadlock`, refinement of `AdmissionPromise` | 3 requests, 2 dialogs, 2 keys, 2 hashes, 3 tokens, 3 executions, 2 cleaners, 1 panel; four scenarios |
| `config_delivery` | `InSyncIsApplied`, `NoContradiction`, `ProcessedWasPushed`, `Converges` | 4 configurations (one refused, one rewritten), bus and wire of 1, 2 edits, 1 loss, 1 fault; six scenarios |
| `automation_safety` | `ExecutedIsWhole`, `ConfirmedAsSeen`, `AnchorBacked`, `DecisionIsFinal` | 2 workers, 2 operators, 2 loaders, 2 actions, 4 instants, 1 edit, 1 fault (a restart, a failed query or a failed write), 2 events; five scenarios |
| `source_safety` | `OneAuthority`, `CurrentIsTrue`, `RevisionNamesOne`, `AuthorityReturns` | 3 members of whom 2 or 1 are in the group, up to 2 requests at once, 2 offline reports, 2 silences or revivals, 1 failing statement or restart, in ten combinations |
| `transport_safety` | `WholeFrames`, `Reachable`, `StreamIsParsed` | 3 connections, 2 senders, frames of 2 parts, 9 streams, in six combinations |
| `ota_safety` | `SuccessIsEvidenced`, `NoRepeatedFlash`, `VerdictStays` | 2 tasks, 2 versions, 1 resend, 2 callers, 1 receiver, and one of each mishap |
| `slots_safety` | `SlotHeld`, `NoneForgotten`, `UniqueCommand`, `StoredFinalIsOwn`, `OncePerSlot` | 2 slots, 4 commands two of which share an id, 3 deliveries, 2 receivers, 1 configuration change |
| `slots_live` | `Finishes` | 2 slots, 2 commands, 3 deliveries, 1 configuration change |
| `apply_safety` | `ConfirmedRuns`, `NoLostCommand`, `RebuiltAlone`, `WorkersResume` | 2 workers, 2 manifests, 2 duty cycles; nothing else is bounded |
| `transport_stall` | that `SendEnds` does not hold (section 7) | 1 connection, 1 sender |

Why the bounds are enough. The races of the engine are between two loops over one row or over
two rows of one channel; a third replica or command adds no new pair. One fault already
separates a publication from its commit or makes a lease run out. With two slots and three or
four commands slots are evicted and replayed; the queue of finals is as small as the code allows
it in proportion (one place per slot), so an overflow would show. Two requests, two tokens and
two cleaners are every pair that meets in a row or a key. A bus of one place overflows with the
second edit, a wire of one place holds back the second message. Two workers of one rule are the
pair that shares a number; two operators and the sweeper the three that decide a proposal. Three
connections are needed for a displacement that is itself displaced. Two tasks are a task and its
successor, or a failure and its rollback. `ConfigApply` runs without bounds: manifests keep
arriving and any step of any of them may fail.

A scenario (an `MC` module's `Within` or budget) restricts what the environment does, never what
the code does in answer; what the scenarios leave out together is stated in their comments. The
one exception are the *calm* scenarios of `source_safety`, in which a goroutine that has committed
publishes before another statement runs: they are about transactions that race, the other six
about publications that do. The proofs (section 6) have no scenarios.

`CHECK_DEADLOCK FALSE` is set where the environment's budget may end with nothing left to do
(all but `CommandExec` and `ConfigApply`, in which there is a step in every state).

The bounds: `MaxFaults` (crashes, refusals, leases that run out while in use, failing writes),
`MaxDeliveries`, `MaxConfigs`, `MaxEdits`, `MaxLosses`, `MaxClock`, `MaxTime`, `LastFrame`,
`MaxEvents`, `MaxSends`, `Last`, `MaxTask`, `MaxLink`, `QueueCap`, `BusSize`, `WireSize`, and the
budgets `left` of the `MC` modules; `EventSeqs`, `EventTypes` and `Boots` bound the inbox.

Every property of a passing run has a mutant in `PROJECT.json`: a plausible bug (a guard dropped,
a lock not taken, a state forgotten) under which TLC finds it violated.

Further properties are stated in the modules beside these and hold on the same instances; the
runs list the ones a reader should look at first. Each module's `TypeOK`; in `CommandExec`
`FinalSettles` (with one handler) and `OutboxSettles`; in `CommandAdmission` `OneExecution`,
`ConfirmedInTime`, `OnlySettledLeave`, `StillDeliverable`, `TotalsKept`, `PanelCountsOnce`; in
`ConfigSync` `FailureHasExit`, `ChangesProcessed`; in `Automation` `SerialCooldown`,
`SerialRetries` (both in `MCAutomation`), `PendingSettles`, `CacheFresh`; in `SourceGroup`
`SwitchIsFollowed`, `SilentYields`; in `Transport` `SupersededIsSilent`, `NeverOverflows` (which
makes the overflow guard of `readLoop` dead code), `StableIsReachable`, `ClosedDrains`,
`ShutdownEnds`; in `Ota` `ClosedOnce`, `Settles`. Of these every `TypeOK` is a theorem
(`Ota`'s is called `OtaTypeOK`), and so are `OneExecution`, `ConfirmedInTime`, `OnlySettledLeave`,
`TotalsKept`, `PanelCountsOnce`, `SupersededIsSilent`, `NeverOverflows` and `ClosedOnce`
(section 6).

## 6. Proofs

`CommandExecProofs` proves, for any number of commands, channels, replicas, handlers, boots and
faults, and from the assumptions in `CommandExec` alone (finitely many commands, the sentinels
differ from values, boot ids differ from request ids):

| Theorem | Statement |
|---|---|
| `Invariance` | `Spec => []IInv` |
| `TypeCorrect` | `Spec => []TypeOK` |
| `ChannelExclusive` | `Spec => []ChannelMutex` |
| `EvidenceCorrect` | `Spec => []PublicationEvidence` |
| `FencingCorrect` | `Spec => []FencedCommit` |
| `VerdictsFinal` | `Spec => VerdictIsFinal` |
| `SuccessEvidenced` | `Spec => []SuccessIsEvidenced` |
| `ConfigExact` | `Spec => []ConfigFollowsSuccess` |
| `ImplementsPromise` | `Spec => Lifecycle!Spec` |

None of the safety properties is inductive: that a commit finds what its transaction read
depends on the locks. `IInv` therefore adds what a loop in each step knows (`WorkOK`), that no
two open transactions have written the same execution (`ExecLocksOK`) or outbox row
(`OutboxLocksOK`), that rows appear together (`PresenceOK`), that of two commands on a channel
at most one is being leased or leased (`ChannelOK`) and what a handler has read (`HandlerOK`).
Each conjunct has a lemma with one step per action. `SuccessEvidenced` and `ConfigExact` add what a
handler carries from its read to its write (`CarriedIdentified`): an event that is in the inbox by
then and was checked against the boot of a publication on record.

`ControlSlotsProofs` proves, for any number of slots, commands, ids, buses and receiving tasks,
any depth of the control queues and any number of configuration changes, from the assumptions in
`ControlSlots` alone (of which one is about the code's constants: the queue of finals has a
place for every slot):

| Theorem | Statement |
|---|---|
| `Invariance` | `Spec => []IInv` |
| `SlotsTyped` | `Spec => []TypeOK` |
| `HeldSlots` | `Spec => []SlotHeld` |
| `Unique` | `Spec => []UniqueCommand` |
| `OwnFinals` | `Spec => []StoredFinalIsOwn` |
| `NothingForgotten` | `Spec => []NoneForgotten` |
| `ExecutedOncePerSlot` | `Spec => []OncePerSlot` |

The safety properties say nothing of what the receiving tasks and the workers rely on between
two steps. `IInv` adds that: one receiver has the reservation lock (`LockOK`); the slot it has
prepared is not in use and its id is in no other slot (`ClaimOK`); a claimed slot is that
receiver's and has no descriptor yet (`AdmitOK`); a result on its way is its descriptor's
(`ResultOK`); nothing is in a parked worker's hands, and a drained bus waits for no response
(`ParkedOK`, why tearing the buses down loses no final); and what a command was given slots for is
executed, refused or still waiting in one place (`CountOK`). `FinalRoom` counts: descriptors have
slots of their own, so that a descriptor that is about to enter the queue of finals finds a
place. Steps are first sorted into kinds (`NextCases`): all but the receivers' and the report
task's move one descriptor and nothing else.

`NodeUpdateProofs` proves, of `ConfigApply`, for any workers, manifests and duty cycles, with steps
that fail in any way any number of times:

| Theorem | Statement |
|---|---|
| `Invariance` | `Spec => []IInv` |
| `TypeCorrect` | `Spec => []TypeOK` |
| `BusesAlone` | `PromptAck` implies `Spec => RebuiltAlone` |
| `ConfirmedStays` | `Spec => []ConfirmedRuns` |
| `CommandsStay` | `Spec => []NoLostCommand` |

`PromptAck` is the assumption of section 4.2; only `BusesAlone` needs it. `IInv` says of every step
of the handler who is stopped by then (`Quiet`: there is no scheduler task between the stop and
the preparation, and with prompt workers a bit stands for a parked one from the staging on), where
the two slots stand (`Slotted`), which parts already hold the staged manifest (`Built`), what the
snapshot still keeps of a confirmed configuration, so that a rollback restores it (`Kept`), and
where the duty cycle of the last command is: in the runtime or in the snapshot (`Owed`). That
neither the forward steps nor the rollback can lose a confirmed configuration or a command does
not rest on the workers being parked. `Typed` carries the types those parts need.

`NodeUpdateProofs` proves, of `Ota`, for any tasks, versions, requests, workers, resends and
limits, with restarts of either side and breaks of the link at any time, from `OtaAssumption`
alone:

| Theorem | Statement |
|---|---|
| `OtaInvariance` | `OtaSpec => []OtaInv` |
| `OtaTypes` | `OtaSpec => []OtaTypeOK` |
| `SuccessEvidenced` | `OtaSpec => []SuccessIsEvidenced` |
| `FlashedOnce` | `OtaSpec => []NoRepeatedFlash` |
| `VerdictsStay` | `OtaSpec => VerdictStays` |
| `ChannelsClosedOnce` | `OtaSpec => []ClosedOnce` |

A success is written by a worker that saves a row it read earlier, on a Hello that may have been
long on its way. `Ran(v)` (the node runs or ran `v`) is never taken back, nor is the version of a
task (`Grows`), so it can be handed on: from the node's own firmware (`DeviceOK`) to the Hello
(`MessageOK`), to the job that read it (`JobGood`), to the row (`SuccessOK`). For
`VerdictStays`, what a cancellation or a report read is a status in flight (`JobGood`), and what
the scanner may still time out is in flight, as every write takes the task from it (`RowOK`).
`RoomOK` numbers the tasks without a gap and keeps a number for every request that is creating
one, so that the row it inserts is a new one; `OnceOK` says that while there is one task the node
remembers it from its start to its last restart, and `ChanOK` that a thread about to register a
channel is the only one and finds none.

`CommandAdmissionProofs` proves, for any requests, dialogs, keys, tokens, cleaners and readers,
from the assumptions in `CommandAdmission` (finitely many rows and dialogs, so that they can be
counted, and a rate limit above zero):

| Theorem | Statement |
|---|---|
| `Invariance` | `Spec => []IInv` |
| `TypeCorrect` | `Spec => []TypeOK` |
| `KeysUnique` | `Spec => []OneExecution` |
| `ConfirmationsBack` | `Spec => []GrantBacksOne` |
| `ConfirmationsTimely` | `Spec => []ConfirmedInTime` |
| `RateLimited` | `Spec => []RateBounded` |
| `TotalsExact` | `Spec => [](TotalsKept /\ PanelCountsOnce)` |
| `NoCircle` | `Spec => []NoDeadlock` |
| `RetentionSafe` | `Spec => OnlySettledLeave` |
| `PromiseKept` | `Spec => ImplementsPromise` |

`IInv` adds what a request relies on between two of its statements: that it is alone with the key
it has written (`KeysOK`), that the confirmation whose row it has locked is nobody else's and as
it was issued (`BackingOK`), and that the login behind it is recent enough (`TimeOK`). `RateOK`
counts the confirmations of every window with the dialogs that have passed the count and not
inserted yet: the sum stays below the limit plus the dialogs, which `RateBounded` follows from.
`CountOK` and `RetentionOK` are about the panel and the cleaners: the baseline a reader has seen
never exceeds the stored one, and what a cleaner has selected stays settled. `NoDeadlock` follows
without the invariant's help: a request that holds the lock of a confirmation waits for a key, and
one that holds a key waits for nothing. The refinement maps every statement to a step of
`AdmissionPromise` or to a stutter.

`SourceGroupProofs` proves, for any finite set of members, any priorities, limits, intervals and
number of requests at once:

| Theorem | Statement |
|---|---|
| `Invariance` | `Spec => []IInv` |
| `TypeCorrect` | `Spec => []TypeOK` |
| `AuthoritySingle` | `Spec => []OneAuthority` |
| `SnapshotsTrue` | `Spec => []CurrentIsTrue` |
| `RevisionMoves` | `Spec => RevisionNamesOne` |

`IInv` is `Typed /\ Single(status) /\ Empty /\ Pending /\ Published`. No count that a transaction
makes before it writes is part of it, because none is still true when it writes: `AuthoritySingle`
holds because every step that makes a member active has passed the index (`Refused`), and
`RevisionMoves` because every such step also bumps the revision of a group that exists. `Pending`
is what an open transaction has read and may rely on (a count within the limit; a member to elect
only while the group exists), `Empty` that a deleted group has no authority. `Published` is the
part that the properties leave out: no snapshot, in the registry or in the hands of a goroutine,
is ahead of the database, and one whose members have been read is true of the revision and the
transition it carries. That a set of members has a best one (`BestExists`) is proved by the
smallest counterexample.

`TransportProofs` proves, for any number of connections, senders, frames and parts of a frame,
from `TransportAssumption` alone:

| Theorem | Statement |
|---|---|
| `Invariance` | `Spec => []IInv` |
| `TypeCorrect` | `Spec => []TypeOK` |
| `FramesWhole` | `Spec => []WholeFrames` |
| `ReachableCorrect` | `Spec => []Reachable` |
| `SupersededSilent` | `Spec => SupersededIsSilent` |
| `StreamInvariance` | `Spec => []Streamed` |
| `StreamParsed` | `Spec => []StreamIsParsed` |
| `BufferIsBounded` | `Spec => []NeverOverflows` |

`WholeFrames` says what the wire shows of frames that were answered; it is no invariant of a step
that writes a part. `Frames` says in which places of which connection the parts of every answered
frame lie (`Answered`) and of every frame that is being written, by the one that holds `writeMu`
(`Underway`, `LockOK`), that no other place holds one of them (`Unsent`), that a sender's frames
follow one another (`InOrder`), and that an open connection on which nobody writes ends with a
whole frame (`EndsWhole`): that is what the `Close` after a partial write is for. `Reachable`
needs the handler that is still displacing another session (`Reached`); `SupersededIsSilent` needs
that the registry and the senders know only sessions in service or closed (`KnownServed`).

`StreamIsParsed` compares what the handler was given of a stream that arrived in pieces with
`Parsed`, which cuts the whole stream into frames. `Streamed` says that what has been given so far,
with what `Parsed` makes of the buffer and of anything that may follow it, is what `Parsed` makes
of the two together: a verdict on a buffer is the verdict on every continuation of it, unless it
is "more" (`Turn`). It needs `Parsed` to satisfy its own equation for streams of any length, which
TLA+ does not grant a recursive function: the equation has a solution for streams up to any length
and no two solutions differ, both by the least length at which they would fail (`LeastNumber`,
`SomeSolution`, `OneSolution`), so no induction theorem with an operator parameter is cited.

`AutomationProofs` proves, for any workers, operators, loaders, triggers, number of actions,
limits and faults, from the assumptions in `Automation` alone (the bounds are numbers, a rule has
an action, the ticker loads):

| Theorem | Statement |
|---|---|
| `Invariance` | `Spec => []IInv` |
| `TypeCorrect` | `Spec => []TypeOK` |
| `ExecutedWhole` | `Spec => []ExecutedIsWhole`, with failing queries |
| `ConfirmedSeen` | `Spec => []ConfirmedAsSeen` |
| `AnchorTrue` | `Spec => []AnchorBacked` |
| `DecisionsFinal` | `Spec => DecisionIsFinal` |

An event is written after the commands it speaks of, by a job that has only counted them. `IInv`
says what the count stands for (`JobOK`: the actions up to the job's `k`, at most the `n` its plan
has, have been sent under its number, and a confirmation holds its proposal as it was recorded),
that an idempotency key names one command, so that a replayed key cannot stand for another version
of the action (`CommandsOK`), and what each recorded result owes to commands on record
(`EventsOK`). Jobs say nothing of each other, so `Grows` (no command, proposal or result is taken
back) carries what one job knows over the steps of the others. `PlanFacts` and `FaultsBounded` say
what a plan is when any of its queries has failed. That two decisions may get one number does not
break these properties: `SentAs` is about keys, and the second decision finds the first one's
commands (`NeverSilentlyLess`, section 7).

`ConfigSyncProofs` proves, for any configurations, events, edits, losses, faults and sizes of the
buffers, from `ConfigAssumption` alone:

| Theorem | Statement |
|---|---|
| `Invariance` | `Spec => []IInv` |
| `TypeCorrect` | `Spec => []TypeOK` |
| `InSyncTrue` | `Spec => []InSyncIsApplied` |
| `ColumnsAgree` | `Spec => []NoContradiction` |
| `ChangesPushed` | `Spec => []ProcessedWasPushed` |

A Hello's handler may write the row back as it was read, and a result may be handled long after it
was sent: `Records` says of the row, of every message in flight and of what each reader carries
that a generation it calls confirmed is one the node has committed. `applied` forgets generations
whose sync id nobody mentions any more, which is why each of these places counts as mentioning one
(`RemembersNext`). `Changes` says that an event in anyone's hands is on record and that a snapshot
was taken after the edits it is going to mark; with it `ProcessedWasPushed` holds although the bus
drops events and pushes overlap. The pool of sync ids is a bound like the others: a push takes a
snapshot only while an id is free. The ten ids of `config_delivery` never run out.

Only model-checked: liveness under fairness (`Concludes`, `Finishes`, `Converges`,
`AuthorityReturns`, `WorkersResume` and the liveness part of `CommandLifecycle`), which TLAPS
cannot prove, as it cannot reason about ENABLED. `FinalSettles` holds for one handler at a time
only. No module declares a RECURSIVE operator.

## 7. What the code does not do

`transport_stall` is a run of its own: `Session.Send` takes every timed-out write for one that
can be resumed and loops, but `handleConn` serves only TLS connections, on which `crypto/tls`
answers every later write with the same time-out: `Send` spins with the write lock held until
something else closes the connection (`transport/session.go:220`; the comment at 53-54 says that
a timeout resumes the frame and a hard failure is fatal).

The following sentences of comments, tests and documents are stated as properties too, and TLC
refutes each on a small instance of its module. They are defined at the end of the modules.

| Property | Module | What the code does |
|---|---|---|
| `RejectionOnOwnAttempt` | `CommandExec` | the rejection of a replica that lost its lease is written, by key, to the attempt another replica committed meanwhile (`dispatcher.go:258`) |
| `DeadlineMeansNeverSent` | `CommandExec` | a command that was published and whose transaction was lost is reported as "deadline expired before dispatch" (`inbox.go:236`, `dispatcher.go:314`) |
| `DeadlineKeepsCause` | `CommandExec` | a rejection recorded between `RecoverExpired`'s SELECT and its UPDATE is overwritten by the bare deadline (`inbox.go:274`) |
| `BroadcastOnlyChanged` | `CommandExec` | `RecoverExpired` returns executions its guarded UPDATE did not change (`inbox.go:280`) |
| `PanelNeverShrinks` | `CommandAdmission` | the panel reads the baseline before it counts the rows; a cleaner that commits in between makes the total smaller for one reader (`handler_metrics.go:126`) |
| `RefusedPushIsFailed` | `ConfigSync` | the push at startup to a node without session does not always end in `config_status=failed` |
| `SustainedTriggers` | `Automation` (`MCAutomation`) | the window is capped by its number of samples: a device that reports densely never fills a long duration (`evaluator.go:1189`) |
| `NeverSilentlyLess` | `Automation` | two decisions that count the events before either is recorded get one number, and a COUNT that fails gives number 1 again; the second one's commands are the first one's (`planner.go:347`) |
| `ExecutedIsComplete` | `Automation` | when the query for a rule's actions fails, the plan is the first action alone and is recorded as executed, with its anchor (`planner.go:246-267`; "the anchor means that the rule has fired completely") |
| `OnlyOperatorEnables` | `SourceGroup` | self-healing, or a failover, activates a member that was disabled after it was picked (`group_scan.go:190`) |
| `LossIsAnnounced` | `SourceGroup` | an update that removes the active member without a successor announces nothing (`group_crud.go:536`), nor does a member that was promoted after `MarkSuccess` read it as `error` and is put on standby (`group_state.go:66-79`) or that `DeactivateGroupMember` read before it was promoted (386-400) |
| `LossMovesRevision` | `SourceGroup` | in the last two cases the authority ends under the revision it was elected in (`group_crud.go:584`: a migration of authority "must carry a monotonic Revision") |
| `CancelledIsNotInstalled` | `Ota` | a cancellation does not reach the node: what is being downloaded is installed |
| `DownloadIsStarted` | `Ota` | the memory gate refuses after the command was stored as the last one, and its resend is answered as running (`handler_data.c:125`) |
| `FinalIsOwn` | `ControlSlots` | a slot is FINAL before its Final is sent, so it may be taken and the result sent out under the next command's identity (`handler_channel_cmd_v2.c:242`) |
| `AtMostOnce` | `ControlSlots` | a command whose slot has been evicted is executed again when it is sent again (`handler_channel_cmd_v2.c:200`); the backend does send again, since it publishes before it commits |
| `OutcomesConsistent` | `ConfigApply` | after a safe state the old manifest stays the active one; the rollback of the next transaction restores buses and scheduler from it, and DMA and peripherals from the empty snapshot (`config_apply_transaction.c:335`: non-fatal outcomes "are mutually consistent") |

Smaller things met on the way. A superseded, timed-out or completed OTA task's waiter goes on
sending (the cancellation at `ota.go:594-605` is never reached), so an old firmware can be flashed
after its successor, two requests at once can leave two active tasks, and the waiters do not stop
when the service does. A connection that registers late displaces a newer one of the same node,
which recovers by reconnecting. A publication of a source group that is late leaves a stale
snapshot until the next one, and a deleted group's snapshot can come back.

## 8. What is not modelled

- Of the engine: envelopes and digests (identity is command, boot and sequence) and the metrics. A
  device that reports under a digest that does not match is refused by `Identified` like one of
  another boot. Of admission: what the gates look at.
- Of configuration: the content of a manifest (one value), its encoding and its parsing.
- Of automation: time windows, sun events, source groups, notifications.
- Of the data sources: composite groups, rule anchors, degraded readings.
- Of the transport: certificates, frame contents. Of OTA: storage and transfer of firmware.
- Of the node: sampling, telemetry, UART reassembly, the DMA drivers and leases, the weak memory
  order of the atomics (every access the properties depend on is acquire/release or under a
  lock), the handshake's generations, the boot guard, the ownership of single pins.
- Candidates for further modules, which have state and concurrency of their own: pending writes
  (`pendingwrite`), the device operation tracker, the node's handshake, the notification
  dispatcher, the alert engine, the offline detector, the data bus.
- Without state to model, or plain input and output: the HTTP API, authentication and audit,
  drivers and codecs, solar data, schema and seeds, diagnostics, the web frontend, deployment.
  These are more than half of the code.
- A composition of `CommandExec` and `ControlSlots` over a lossy link. Its question, how often a
  command is executed across resends and evictions, is answered by the two parts: the engine
  publishes at least once, a slot executes at most once (`OncePerSlot`), and eviction is what
  `AtMostOnce` shows.
