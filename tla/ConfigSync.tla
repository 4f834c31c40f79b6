------------------------------ MODULE ConfigSync ------------------------------
(***************************************************************************)
(* Configuration synchronisation of one node.  The backend's SyncGate      *)
(* (nodemgr/sync_gate.go) decides when the node is sent its configuration, *)
(* SendConfigManifestWithDecision (nodemgr/sender.go) takes a snapshot,    *)
(* writes the generation to the node's row and publishes it, and the       *)
(* node's ConfigResult, StatusReport and Hello (handler_config.go,         *)
(* handler_status.go, handler_hello.go) come back over a session that may  *)
(* be lost at any time.  The node applies manifests as app_callbacks.c     *)
(* does: a manifest is committed, refused, committed without its metadata, *)
(* or the node restarts and has no configuration any more.                 *)
(*                                                                         *)
(* Three writers of the row run side by side: the gate's loop, which takes *)
(* changes from a volatile bus and replays the durable outbox, the push at *)
(* server startup, and the read loop of the node's session.  A session     *)
(* that was superseded still finishes the message it was handling, so      *)
(* there are two readers.                                                  *)
(*                                                                         *)
(* A configuration is a value; a manifest id is a hash of it, so it is the *)
(* configuration itself.  Sync ids are UUIDs: a fresh one is any that no   *)
(* row, message or goroutine mentions.                                     *)
(***************************************************************************)
EXTENDS Naturals, Sequences, FiniteSets

CONSTANTS
  Configs,       \* contents of the configuration tables
  First,         \* the configuration at the start, applied on the node
  Reconciled,    \* what reconcileDriverTemplates makes of a configuration
  Deliverable,   \* configurations that pass every check of the sender
  Events,        \* durable change events
  SyncIds,       \* bound: a pool of sync ids
  BusSize,       \* buffer of the event bus
  WireSize,      \* manifests, and unsolicited messages, in flight
  MaxEdits, MaxLosses, MaxFaults    \* bounds

ASSUME ConfigAssumption ==
  /\ First \in Deliverable
  /\ Deliverable \subseteq Configs
  /\ Reconciled \in [Configs -> Configs]
  /\ \A c \in Configs : Reconciled[Reconciled[c]] = Reconciled[c]
  /\ SyncIds \subseteq Nat /\ 1 \in SyncIds
  /\ "none" \notin Events
  /\ {BusSize, WireSize, MaxEdits, MaxLosses, MaxFaults} \subseteq Nat

VARIABLES
  config,     \* the configuration tables, as one value
  edits,      \* number of edits so far
  node,       \* the synchronisation columns of the nodes row
  outbox,     \* config_change_outbox
  bus,        \* ConfigEventBus
  replaying,  \* rows the current replay round still has to process
  open,       \* the deduplication window lets a periodic push through
  proc,       \* the goroutines that write the row
  link,       \* the node has a live session
  reader,     \* the reader of the current session
  down, up,   \* messages in flight
  device,     \* the node
  applied,    \* generations the node has committed (history)
  published,  \* last edit contained in a published manifest (history)
  losses, faults,
  prompt      \* the node answers within the deduplication window

server == <<config, edits, node, outbox, bus, replaying, open, proc>>
wire == <<link, reader, down, up>>
history == <<applied, published>>
moving == <<server, wire, device, history, losses, faults>>
vars == <<moving, prompt>>

None == "none"
NoSync == 0
Readers == {"reader1", "reader2"}
Procs == {"gate", "startup"} \cup Readers
Other(r) == IF r = "reader1" THEN "reader2" ELSE "reader1"

(* A refused, failed or idle goroutine carries nothing. *)
Idle == [pc |-> "idle"]

Manifests == [version : Configs, sync : SyncIds]
NoManifest == [version |-> None, sync |-> NoSync]

Rows == [version : Configs, sync : SyncIds,
         state : {"in_sync", "syncing", "failed"},
         status : {"applied", "failed"}]

Hello == [kind |-> "hello", has |-> device.active # NoManifest,
          last |-> device.known]
Status(idle) == [kind |-> "status", idle |-> idle,
                 version |-> device.active.version, sync |-> device.active.sync]
Result(m, ok) == [kind |-> "result", version |-> m.version, sync |-> m.sync,
                  ok |-> ok]

Messages ==
  [kind : {"hello"}, has : BOOLEAN, last : Configs \cup {None}]
    \cup [kind : {"status"}, idle : BOOLEAN, version : Configs \cup {None},
          sync : SyncIds \cup {NoSync}]
    \cup [kind : {"result"}, version : Configs, sync : SyncIds, ok : BOOLEAN]

Goroutines ==
  {Idle} \cup [pc : {"start"}]
    \cup [pc : {"snapshot"}, event : Events \cup {None}]
    \cup [pc : {"persist", "publish"}, event : Events \cup {None},
          version : Configs, edit : 0 .. MaxEdits, sync : SyncIds]
    \cup [pc : {"fail"}, sync : SyncIds]
    \cup [pc : {"hello", "status", "result"}, msg : Messages, row : Rows]

TypeOK ==
  /\ config \in Configs
  /\ edits \in 0 .. MaxEdits
  /\ node \in Rows
  /\ outbox \in [Events -> [state : {"none", "PENDING", "PROCESSED"},
                            edit : 0 .. MaxEdits]]
  /\ bus \in Seq(Events \cup {None}) /\ Len(bus) <= BusSize
  /\ replaying \subseteq Events
  /\ open \in BOOLEAN
  /\ proc \in [Procs -> Goroutines]
  /\ link \in BOOLEAN /\ reader \in Readers
  /\ down \in Seq(Manifests) /\ Len(down) <= WireSize
  /\ up \in Seq(Messages)
  /\ device \in [active : Manifests \cup {NoManifest},
                 known : Configs \cup {None}]
  /\ applied \subseteq Manifests
  /\ published \in 0 .. MaxEdits
  /\ losses \in 0 .. MaxLosses /\ faults \in 0 .. MaxFaults /\ prompt \in BOOLEAN

Init ==
  LET m == [version |-> First, sync |-> 1] IN
  /\ config = First /\ edits = 0
  /\ node = [version |-> First, sync |-> 1, state |-> "in_sync",
             status |-> "applied"]
  /\ outbox = [e \in Events |-> [state |-> "none", edit |-> 0]]
  /\ bus = <<>> /\ replaying = {} /\ open = TRUE
  /\ proc = [p \in Procs |-> Idle]
  /\ link = TRUE /\ reader = "reader1" /\ down = <<>> /\ up = <<>>
  /\ device = [active |-> m, known |-> First]
  /\ applied = {m} /\ published = 0
  /\ losses = 0 /\ faults = 0 /\ prompt \in BOOLEAN

-----------------------------------------------------------------------------
(* Changes of the configuration *)

Offer(e) == bus' = IF Len(bus) < BusSize THEN Append(bus, e) ELSE bus

(* An API handler commits a change and offers it to the bus, which drops   *)
(* it when its buffer is full; a change made by a command goes into the    *)
(* outbox in the same transaction.                                         *)
Edit(c) ==
  /\ edits < MaxEdits
  /\ config' = c /\ edits' = edits + 1
  /\ \/ Offer(None) /\ UNCHANGED outbox
     \/ \E e \in Events :
          /\ outbox[e].state = "none"
          /\ outbox' = [outbox EXCEPT ![e] = [state |-> "PENDING",
                                              edit |-> edits + 1]]
          /\ Offer(e)
  /\ UNCHANGED <<node, replaying, open, proc, wire, device, history, losses, faults>>

-----------------------------------------------------------------------------
(* The gate's loop *)

Goto(p, g) == proc' = [proc EXCEPT ![p] = g]
Push(e) == [pc |-> "snapshot", event |-> e]

TakeChange ==
  /\ proc["gate"] = Idle /\ replaying = {} /\ bus # <<>>
  /\ bus' = Tail(bus)
  /\ Goto("gate", Push(Head(bus)))
  /\ UNCHANGED <<config, edits, node, outbox, replaying, open, wire, device,
                 history, losses, faults>>

PendingUnpushed ==  \* mutant: rows a manifest already contains are skipped
  {e \in Events : outbox[e].state = "PENDING" /\ outbox[e].edit > published}
Pending == {e \in Events : outbox[e].state = "PENDING"}

BeginReplay ==
  /\ proc["gate"] = Idle /\ replaying = {} /\ Pending # {}
  /\ replaying' = Pending
  /\ UNCHANGED <<config, edits, node, outbox, bus, open, proc, wire, device,
                 history, losses, faults>>

(* The rows selected for this round, oldest first. *)
Replay ==
  /\ proc["gate"] = Idle
  /\ \E e \in replaying :
       /\ \A f \in replaying : outbox[e].edit <= outbox[f].edit
       /\ replaying' = replaying \ {e}
       /\ Goto("gate", Push(e))
  /\ UNCHANGED <<config, edits, node, outbox, bus, open, wire, device, history,
                 losses, faults>>

-----------------------------------------------------------------------------
(* SendConfigManifestWithDecision *)

SyncsOf(g) ==
  (IF "sync" \in DOMAIN g THEN {g.sync} ELSE {})
    \cup (IF "row" \in DOMAIN g THEN {g.row.sync} ELSE {})
    \cup (IF "msg" \in DOMAIN g /\ "sync" \in DOMAIN g.msg THEN {g.msg.sync} ELSE {})

InUse ==
  {node.sync, device.active.sync}
    \cup {down[i].sync : i \in DOMAIN down}
    \cup {up[i].sync : i \in {j \in DOMAIN up : up[j].kind # "hello"}}
    \cup UNION {SyncsOf(proc[p]) : p \in Procs}

Unused == SyncIds \ InUse
Fresh == CHOOSE s \in Unused : \A t \in Unused : s <= t

(* One transaction: reconcile the driver templates, read the snapshot and  *)
(* check it.  A refusal rolls the templates back, unless it is that of the *)
(* encoded bytes, which are checked after the commit.                      *)
Snapshot(p) ==
  /\ proc[p].pc = "snapshot"
  /\ Unused # {}
  /\ LET c == Reconciled[config] IN
     /\ IF c \in Deliverable
          THEN /\ config' = c
               /\ Goto(p, [pc |-> "persist", event |-> proc[p].event,
                           version |-> c, edit |-> edits, sync |-> Fresh])
          ELSE /\ config' \in {config, c}
               /\ Goto(p, [pc |-> "fail", sync |-> Fresh])
     /\ applied' = {m \in applied : m.sync \in InUse}
  /\ UNCHANGED <<edits, node, outbox, bus, replaying, open, wire, device,
                 published, losses, faults>>

(* The generation is written before it is published. *)
Persist(p) ==
  /\ proc[p].pc = "persist"
  /\ node' = [node EXCEPT !.version = proc[p].version, !.sync = proc[p].sync,
                          !.state = "syncing"]
  /\ Goto(p, [proc[p] EXCEPT !.pc = "publish"])
  /\ UNCHANGED <<config, edits, outbox, bus, replaying, open, wire, device,
                 history, losses, faults>>

(* The session accepts the frame, and processConfigChange marks the event. *)
Acknowledged(e) ==
  IF e \in Pending THEN [outbox EXCEPT ![e].state = "PROCESSED"] ELSE outbox

Publish(p) ==
  /\ proc[p].pc = "publish"
  /\ link /\ Len(down) < WireSize
  /\ down' = Append(down, [version |-> proc[p].version, sync |-> proc[p].sync])
  /\ published' = IF proc[p].edit > published THEN proc[p].edit ELSE published
  /\ outbox' = Acknowledged(proc[p].event)
  /\ Goto(p, Idle)
  /\ UNCHANGED <<config, edits, node, bus, replaying, open, link, reader, up,
                 device, applied, losses, faults>>

PublishRefusedMarked(p) ==  \* mutant: the event is marked whatever happened
  /\ proc[p].pc = "publish" /\ ~link
  /\ Goto(p, [pc |-> "fail", sync |-> proc[p].sync])
  /\ outbox' = Acknowledged(proc[p].event)
  /\ UNCHANGED <<config, edits, node, bus, replaying, open, wire, device,
                 history, losses, faults>>

PublishRefused(p) ==
  /\ proc[p].pc = "publish" /\ ~link
  /\ Goto(p, [pc |-> "fail", sync |-> proc[p].sync])
  /\ UNCHANGED <<config, edits, node, outbox, bus, replaying, open, wire,
                 device, history, losses, faults>>

(* fail(): the row is marked failed unless it carries this very sync id. *)
Fail(p) ==
  /\ proc[p].pc = "fail"
  /\ node' = IF node.sync = proc[p].sync THEN node
             ELSE [node EXCEPT !.sync = proc[p].sync, !.state = "failed",
                               !.status = "failed"]
  /\ Goto(p, Idle)
  /\ UNCHANGED <<config, edits, outbox, bus, replaying, open, wire, device,
                 history, losses, faults>>

-----------------------------------------------------------------------------
(* The read loop of a session: one message at a time, each handler reads   *)
(* the row before it writes it.                                            *)

Current(row, m) == row.version = m.version /\ row.sync = m.sync
ConfirmableByVersion(row, m) ==  \* mutant: the sync id is not compared
  row.version = m.version /\ row.state \in {"syncing", "failed"}
Confirmable(row, m) == Current(row, m) /\ row.state \in {"syncing", "failed"}

Receive(r) ==
  /\ r = reader /\ link /\ up # <<>> /\ proc[r] = Idle
  /\ up' = Tail(up)
  /\ LET m == Head(up) IN
     IF m.kind = "result"
          /\ (~Current(node, m) \/ (node.state = "in_sync" /\ m.ok))
       THEN UNCHANGED proc
       ELSE Goto(r, [pc |-> m.kind, msg |-> m, row |-> node])
  /\ UNCHANGED <<config, edits, node, outbox, bus, replaying, open, link,
                 reader, down, device, history, losses, faults>>

(* handleConfigResult: the guarded UPDATE. *)
HandleResult(r) ==
  /\ proc[r].pc = "result"
  /\ LET m == proc[r].msg IN
     node' = IF ~Confirmable(node, m) THEN node
             ELSE IF m.ok THEN [node EXCEPT !.state = "in_sync", !.status = "applied"]
             ELSE [node EXCEPT !.state = "failed", !.status = "failed"]
  /\ Goto(r, Idle)
  /\ UNCHANGED <<config, edits, outbox, bus, replaying, open, wire, device,
                 history, losses, faults>>

(* A periodic push goes through the deduplication window. *)
PeriodicPush(r) ==
  IF open THEN open' = FALSE /\ Goto(r, Push(None))
  ELSE UNCHANGED open /\ Goto(r, Idle)

(* The node reports the generation it runs: evidence enough to confirm it. *)
Heals(row, m) ==
  m.idle /\ m.version # None /\ Confirmable(row, m)

HealedMisnamed(row) ==  \* mutant: the other column's word
  [row EXCEPT !.state = "applied", !.status = "applied"]
HealedStateOnly(row) == [row EXCEPT !.state = "in_sync"]  \* mutant
Healed(row) == [row EXCEPT !.state = "in_sync", !.status = "applied"]

(* The gate pushes again when the row is failed, as it was read, unless the *)
(* report has just healed it, or when the node runs something else.        *)
FailedUnconfirmed(row) == row.status = "failed" /\ row.state = "syncing"  \* mutant
Failed(row) == row.status = "failed" \/ row.state = "failed"
OutOfDateByRow(m) ==  \* mutant: what was sent last, not what the node runs
  m.version # None /\ node.version # config
OutOfDate(m) == m.version # None /\ m.version # config

(* handleStatusReport: heal the row when the report proves its generation, *)
(* then let the gate decide on the row as it was read.                     *)
HandleStatus(r) ==
  /\ proc[r].pc = "status"
  /\ LET m == proc[r].msg
         heals == Heals(proc[r].row, m)
     IN
     IF heals /\ ~Confirmable(node, m)
       THEN UNCHANGED <<node, open>> /\ Goto(r, Idle)
       ELSE /\ node' = IF heals THEN Healed(node) ELSE node
            /\ IF (~heals /\ Failed(proc[r].row)) \/ OutOfDate(m)
                 THEN PeriodicPush(r)
                 ELSE UNCHANGED open /\ Goto(r, Idle)
  /\ UNCHANGED <<config, edits, outbox, bus, replaying, wire, device, history,
                 losses, faults>>

(* registerNodeFromHello saves the whole row it has read; then the gate    *)
(* compares what the node says it holds.                                   *)
HandleHello(r) ==
  /\ proc[r].pc = "hello"
  /\ node' = proc[r].row
  /\ LET m == proc[r].msg IN
     Goto(r, IF m.has /\ m.last = config THEN Idle ELSE Push(None))
  /\ UNCHANGED <<config, edits, outbox, bus, replaying, open, wire, device,
                 history, losses, faults>>

(* A prompt node has answered what it was sent, and the answers are handled. *)
Answered ==
  /\ down = <<>> /\ \A i \in DOMAIN up : up[i].kind = "status"
  /\ \A r \in Readers : proc[r].pc \in {"idle", "status"}

(* Five seconds have passed since the last periodic push. *)
WindowElapses ==
  /\ ~open
  /\ prompt => Answered
  /\ open' = TRUE
  /\ UNCHANGED <<config, edits, node, outbox, bus, replaying, proc, wire,
                 device, history, losses, faults>>

-----------------------------------------------------------------------------
(* Sessions and restarts *)

Disconnected == link' = FALSE /\ down' = <<>> /\ up' = <<>> /\ UNCHANGED reader

LoseSession ==
  /\ link /\ losses < MaxLosses
  /\ losses' = losses + 1
  /\ Disconnected
  /\ UNCHANGED <<server, device, history, faults>>

(* The new session has a read loop of its own; the old one may still be    *)
(* busy.  The node sends a Hello on every new session.                     *)
Connect ==
  /\ ~link /\ proc[Other(reader)] = Idle
  /\ link' = TRUE /\ reader' = Other(reader)
  /\ up' = <<Hello>> /\ UNCHANGED down
  /\ UNCHANGED <<server, device, history, losses, faults>>

RestartServer ==
  /\ losses < MaxLosses
  /\ losses' = losses + 1
  /\ bus' = <<>> /\ replaying' = {} /\ open' = TRUE
  /\ proc' = [p \in Procs |-> IF p = "startup" THEN [pc |-> "start"] ELSE Idle]
  /\ Disconnected
  /\ UNCHANGED <<config, edits, node, outbox, device, history, faults>>

(* The push at startup skips a node without a session. *)
Startup ==
  /\ proc["startup"].pc = "start"
  /\ Goto("startup", IF link THEN Push(None) ELSE Idle)
  /\ UNCHANGED <<config, edits, node, outbox, bus, replaying, open, wire,
                 device, history, losses, faults>>

-----------------------------------------------------------------------------
(* The node *)

Commit(m) == applied' = applied \cup {m}

Answer(m, ok) ==
  /\ up' = Append(up, Result(m, ok))
  /\ down' = Tail(down)
  /\ UNCHANGED <<link, reader>>

(* handle_config_applied: the manifest is committed and acknowledged. *)
ApplyManifest ==
  /\ down # <<>>
  /\ LET m == Head(down) IN
     /\ device' = [active |-> m, known |-> m.version]
     /\ Commit(m) /\ Answer(m, TRUE)
  /\ UNCHANGED <<server, published, losses, faults>>

Faulty == faults < MaxFaults /\ faults' = faults + 1

(* A step fails and the runtime is restored: the staged manifest goes. *)
RefuseManifest ==
  /\ down # <<>> /\ Faulty
  /\ Answer(Head(down), FALSE)
  /\ UNCHANGED <<server, device, history, losses>>

(* The manifest is active, but its metadata could not be saved. *)
ApplyUnsaved ==
  /\ down # <<>> /\ Faulty
  /\ LET m == Head(down) IN
     /\ device' = [device EXCEPT !.active = m]
     /\ Commit(m) /\ Answer(m, FALSE)
  /\ UNCHANGED <<server, published, losses>>

(* A restart, also that of a fatal transaction: the active manifest lives  *)
(* in memory only.                                                         *)
RestartNode ==
  /\ losses < MaxLosses
  /\ losses' = losses + 1
  /\ device' = [device EXCEPT !.active = NoManifest]
  /\ Disconnected
  /\ UNCHANGED <<server, history, faults>>

ReportStatus(idle) ==
  /\ link /\ Len(up) < WireSize
  /\ up' = Append(up, Status(idle))
  /\ UNCHANGED <<server, link, reader, down, device, history, losses, faults>>

(* sync_manager: a node without a configuration asks again every 30 s, one *)
(* with a configuration less often, or when it doubts it.                  *)
RequestSync ==
  /\ prompt => Answered
  /\ link /\ Len(up) < WireSize
  /\ up' = Append(up, Hello)
  /\ UNCHANGED <<server, link, reader, down, device, history, losses, faults>>

-----------------------------------------------------------------------------
Send(p) == Snapshot(p) \/ Persist(p) \/ Publish(p) \/ PublishRefused(p) \/ Fail(p)
Handle(r) == Receive(r) \/ HandleResult(r) \/ HandleStatus(r) \/ HandleHello(r)

Step ==
  \/ \E c \in Configs : Edit(c)
  \/ TakeChange \/ BeginReplay \/ Replay
  \/ \E p \in Procs : Send(p)
  \/ \E r \in Readers : Handle(r)
  \/ WindowElapses \/ LoseSession \/ Connect \/ RestartServer \/ Startup
  \/ ApplyManifest \/ RefuseManifest \/ ApplyUnsaved \/ RestartNode
  \/ \E i \in BOOLEAN : ReportStatus(i)
  \/ RequestSync

Next == Step /\ UNCHANGED prompt

(* The goroutines run, the node reports every second, applies what it gets *)
(* and reconnects, and the window elapses.                                 *)
Fairness ==
  /\ WF_moving(TakeChange) /\ SF_moving(BeginReplay) /\ WF_moving(Replay)
  /\ \A p \in Procs : WF_moving(Send(p))
  /\ \A r \in Readers : WF_moving(Handle(r))
  /\ SF_moving(WindowElapses) /\ WF_moving(Connect) /\ WF_moving(Startup)
  /\ SF_moving(ApplyManifest) /\ SF_moving(ReportStatus(TRUE))
  /\ SF_moving(RequestSync /\ device.active = NoManifest)

Spec == Init /\ [][Next]_vars /\ Fairness

-----------------------------------------------------------------------------
(* Properties *)

(* A row that says in_sync names a generation the node has committed,      *)
(* whatever results, reports and pushes crossed (handler_config.go and     *)
(* handler_status.go confirm by manifest id and sync id).                  *)
InSyncIsApplied ==
  node.state = "in_sync" => [version |-> node.version, sync |-> node.sync] \in applied

(* config_status and config_sync_state converge together: no writer leaves *)
(* a row that is in sync and failed at once (handler_status.go).           *)
NoContradiction == node.state = "in_sync" => node.status = "applied"

(* A durable change is marked PROCESSED only when a manifest that contains *)
(* it was handed to a session (sync_gate.go, processConfigChange).         *)
ProcessedWasPushed ==
  \A e \in Events : outbox[e].state = "PROCESSED" => outbox[e].edit <= published

CanDeliver == Reconciled[config] \in Deliverable

(* In the end a prompt node runs the server's configuration, whatever      *)
(* changes the bus dropped and messages were lost (sync_gate.go).          *)
Converges == prompt => <>[](CanDeliver => device.active.version = config)

(* "failed" is not a final state: a configuration that can be delivered is *)
(* sent again until the node confirms it (sync_gate.go, OnStatusReport).   *)
FailureHasExit ==
  node.status = "failed" /\ prompt ~> (node.status = "applied" \/ ~CanDeliver)

(* A durable change does not stay pending (sync_gate.go, replay).          *)
ChangesProcessed ==
  \A e \in Events :
    outbox[e].state = "PENDING" ~> (outbox[e].state = "PROCESSED" \/ ~CanDeliver)

(* main.go on the push at startup: a push to a node without a session ends *)
(* in fail(), "which writes config_status=failed".                         *)
RefusedPushIsFailed ==
  [][\A p \in Procs : Fail(p) => node'.status = "failed"]_vars
=============================================================================
