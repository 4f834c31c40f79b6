-------------------------- MODULE ConfigSyncProofs --------------------------
(***************************************************************************)
(* Proofs about the synchronisation of one node, for any configurations,   *)
(* events, losses, faults and buffers.  A verdict about a generation is    *)
(* passed on from the node's message over the reader that handles it to    *)
(* the row, which a Hello's handler may write back as it was read: what    *)
(* each of them carries must be true (Records).  That a durable change is  *)
(* in the manifest for which it is marked is a matter of when it was read  *)
(* from the bus or the outbox and when the snapshot was taken (Changes).   *)
(***************************************************************************)
EXTENDS ConfigSync, SequenceTheorems, WellFoundedInduction, TLAPS

\* What a row and a message of the node say of their generation, when those in S
\* have been committed.
RowTrue(row, S) ==
  row.state = "in_sync" =>
    row.status = "applied" /\ [version |-> row.version, sync |-> row.sync] \in S

Evidence(m) ==
  \/ m.kind = "result" /\ m.ok
  \/ m.kind = "status" /\ m.version # None
MessageTrue(m, S) == Evidence(m) => [version |-> m.version, sync |-> m.sync] \in S

\* What a reader has in hand is true of both.
HandledTrue(g, S) ==
  g.pc \in {"hello", "status", "result"} =>
    RowTrue(g.row, S) /\ MessageTrue(g.msg, S) /\ g.msg.kind = g.pc

Records ==
  /\ RowTrue(node, applied)
  /\ \A i \in DOMAIN up : MessageTrue(up[i], applied)
  /\ \A p \in Procs : HandledTrue(proc[p], applied)
  /\ device.active = NoManifest \/ device.active \in applied

\* An event that somebody has in hand is on record.
Known(e) == e \in Events => outbox[e].state # "none"

\* What a goroutine that sends has in hand.
Sending(g) ==
  /\ g.pc \in {"snapshot", "persist", "publish"} => Known(g.event)
  /\ g.pc \in {"persist", "publish"} /\ g.event \in Events => outbox[g.event].edit <= g.edit

Changes ==
  /\ \A e \in Events : outbox[e].edit <= edits
  /\ ProcessedWasPushed
  /\ \A i \in DOMAIN bus : Known(bus[i])
  /\ \A e \in replaying : Known(e)
  /\ \A p \in Procs : Sending(proc[p])

IInv == TypeOK /\ Records /\ Changes

-----------------------------------------------------------------------------
(* What the proofs use of the constants, of goroutines and of sync ids.    *)

\* The bounds are numbers and the first identifier exists.
LEMMA Constants ==
  /\ BusSize \in Nat /\ WireSize \in Nat /\ MaxEdits \in Nat /\ MaxLosses \in Nat /\ MaxFaults \in Nat
  /\ First \in Configs /\ Reconciled \in [Configs -> Configs] /\ None \notin Events
  /\ SyncIds \subseteq Nat /\ 1 \in SyncIds
BY ConfigAssumption DEF None

\* A set of numbers that is not empty has a least one.
LEMMA LeastNumber ==
  ASSUME NEW T \in SUBSET Nat, T # {}
  PROVE  \E n \in T : \A k \in T : n <= k
<1>1. IsWellFoundedOn(OpToRel(<, Nat), Nat)
  BY NatLessThanWellFounded
<1>2. PICK n \in T : \A k \in T : ~(<<k, n>> \in OpToRel(<, Nat))
  BY <1>1, WFMin
<1>3. \A k \in T : ~(k < n)
  BY <1>2 DEF OpToRel
<1> QED  BY <1>3

\* A fresh sync id is one of the pool.
LEMMA FreshId == Unused # {} => Fresh \in SyncIds
<1> SUFFICES ASSUME Unused # {} PROVE Fresh \in SyncIds
  OBVIOUS
<1>1. Unused \in SUBSET Nat /\ Unused \subseteq SyncIds
  BY Constants DEF Unused
<1>2. \E s \in Unused : \A t \in Unused : s <= t
  BY <1>1, LeastNumber
<1> QED  BY <1>1, <1>2 DEF Fresh

\* The goroutines by what they are doing.
LEMMA GoroutineKinds ==
  ASSUME NEW g \in Goroutines
  PROVE  /\ g.pc = "snapshot" => g.event \in Events \cup {None}
         /\ g.pc \in {"persist", "publish"} =>
              /\ g \in [pc : {"persist", "publish"}, event : Events \cup {None},
                        version : Configs, edit : 0 .. MaxEdits, sync : SyncIds]
              /\ g.event \in Events \cup {None} /\ g.version \in Configs
              /\ g.edit \in 0 .. MaxEdits /\ g.sync \in SyncIds
         /\ g.pc = "fail" => g.sync \in SyncIds
         /\ g.pc \in {"hello", "status", "result"} => g.msg \in Messages /\ g.row \in Rows
BY DEF Goroutines, Idle

\* What a goroutine says it is doing, it may do.
LEMMA Goroutine ==
  /\ Idle \in Goroutines /\ [pc |-> "start"] \in Goroutines
  /\ \A e \in Events \cup {None} : Push(e) \in Goroutines
  /\ \A e \in Events \cup {None}, v \in Configs, n \in 0 .. MaxEdits, s \in SyncIds :
       [pc |-> "persist", event |-> e, version |-> v, edit |-> n, sync |-> s] \in Goroutines
  /\ \A s \in SyncIds : [pc |-> "fail", sync |-> s] \in Goroutines
  /\ \A k \in {"hello", "status", "result"}, m \in Messages, r \in Rows :
       [pc |-> k, msg |-> m, row |-> r] \in Goroutines
BY DEF Goroutines, Idle, Push

\* The messages by their kind.
LEMMA MessageKinds ==
  ASSUME NEW m \in Messages
  PROVE  /\ m.kind \in {"hello", "status", "result"}
         /\ m.kind = "status" =>
              m.version \in Configs \cup {None} /\ m.sync \in SyncIds \cup {NoSync} /\ m.idle \in BOOLEAN
         /\ m.kind = "result" => m.version \in Configs /\ m.sync \in SyncIds /\ m.ok \in BOOLEAN
BY DEF Messages

-----------------------------------------------------------------------------
(* Types.                                                                  *)

\* A goroutine goes on.
LEMMA TypedGoto ==
  ASSUME TypeOK, NEW p \in Procs, NEW g \in Goroutines, Goto(p, g)
  PROVE  proc' \in [Procs -> Goroutines]
BY DEF TypeOK, Goto

\* Changes, the gate's loop and the window keep the types.
LEMMA TypedGate ==
  ASSUME TypeOK,
         \/ \E c \in Configs : Edit(c)
         \/ TakeChange \/ BeginReplay \/ Replay \/ WindowElapses \/ Startup
  PROVE  UNCHANGED prompt => TypeOK'
<1> USE Constants, Goroutine
<1> SUFFICES ASSUME UNCHANGED prompt PROVE TypeOK'
  OBVIOUS
<1>1. ASSUME NEW c \in Configs, Edit(c) PROVE TypeOK'
  <2>1. ASSUME NEW e \in Events \cup {None}, Offer(e)
        PROVE  bus' \in Seq(Events \cup {None}) /\ Len(bus') <= BusSize
    BY <2>1 DEF Offer, TypeOK
  <2>2. bus' \in Seq(Events \cup {None}) /\ Len(bus') <= BusSize
    BY <1>1, <2>1 DEF Edit
  <2>3. edits + 1 \in 0 .. MaxEdits
    BY <1>1 DEF Edit, TypeOK
  <2>4. outbox' \in [Events -> [state : {"none", "PENDING", "PROCESSED"}, edit : 0 .. MaxEdits]]
    BY <1>1, <2>3 DEF Edit, TypeOK
  <2>5. config' = c /\ edits' = edits + 1 /\ UNCHANGED node /\ UNCHANGED replaying /\ UNCHANGED open
        /\ UNCHANGED proc /\ UNCHANGED link /\ UNCHANGED reader /\ UNCHANGED down /\ UNCHANGED up
        /\ UNCHANGED device /\ UNCHANGED applied /\ UNCHANGED published
        /\ UNCHANGED losses /\ UNCHANGED faults
    BY <1>1 DEF Edit, wire, history
  <2> QED  BY <2>2, <2>3, <2>4, <2>5 DEF TypeOK
<1>2. "gate" \in Procs /\ "startup" \in Procs
  BY DEF Procs
<1>3. ASSUME TakeChange PROVE TypeOK'
  <2>1. Head(bus) \in Events \cup {None} /\ Tail(bus) \in Seq(Events \cup {None})
        /\ Len(Tail(bus)) <= BusSize
    BY <1>3 DEF TakeChange, TypeOK
  <2>2. proc' \in [Procs -> Goroutines]
    BY <1>2, <1>3, <2>1, TypedGoto DEF TakeChange
  <2>3. bus' = Tail(bus) /\ UNCHANGED config /\ UNCHANGED edits /\ UNCHANGED node /\ UNCHANGED outbox
        /\ UNCHANGED replaying /\ UNCHANGED open
        /\ UNCHANGED link /\ UNCHANGED reader /\ UNCHANGED down /\ UNCHANGED up
        /\ UNCHANGED device /\ UNCHANGED applied /\ UNCHANGED published
        /\ UNCHANGED losses /\ UNCHANGED faults
    BY <1>3 DEF TakeChange, wire, history
  <2> QED  BY <2>1, <2>2, <2>3 DEF TypeOK
<1>4. ASSUME BeginReplay PROVE TypeOK'
  BY <1>4 DEF BeginReplay, Pending, TypeOK, wire, history
<1>5. ASSUME Replay PROVE TypeOK'
  <2>1. PICK e \in replaying : replaying' = replaying \ {e} /\ Goto("gate", Push(e))
    BY <1>5 DEF Replay
  <2>2. e \in Events
    BY <2>1 DEF TypeOK
  <2>3. proc' \in [Procs -> Goroutines]
    BY <1>2, <2>1, <2>2, TypedGoto
  <2> QED  BY <1>5, <2>1, <2>3 DEF Replay, TypeOK, wire, history
<1>6. ASSUME WindowElapses PROVE TypeOK'
  BY <1>6 DEF WindowElapses, TypeOK, wire, history
<1>7. ASSUME Startup PROVE TypeOK'
  <2>1. proc' \in [Procs -> Goroutines]
    BY <1>2, <1>7, TypedGoto DEF Startup
  <2> QED  BY <1>7, <2>1 DEF Startup, TypeOK, wire, history
<1> QED  BY <1>1, <1>3, <1>4, <1>5, <1>6, <1>7

\* Sessions and restarts keep the types, and so does the node.
LEMMA TypedNode ==
  ASSUME TypeOK,
         \/ LoseSession \/ Connect \/ RestartServer
         \/ ApplyManifest \/ RefuseManifest \/ ApplyUnsaved \/ RestartNode
         \/ \E i \in BOOLEAN : ReportStatus(i)
         \/ RequestSync
  PROVE  UNCHANGED prompt => TypeOK'
<1> USE Constants, Goroutine
<1> SUFFICES ASSUME UNCHANGED prompt PROVE TypeOK'
  OBVIOUS
<1>0. ASSUME Disconnected
      PROVE  /\ link' \in BOOLEAN /\ UNCHANGED reader /\ up' \in Seq(Messages)
             /\ down' \in Seq(Manifests) /\ Len(down') <= WireSize
  <2>1. <<>> \in Seq(Messages) /\ <<>> \in Seq(Manifests) /\ Len(<<>>) = 0
    OBVIOUS
  <2>2. link' = FALSE /\ down' = <<>> /\ up' = <<>> /\ UNCHANGED reader
    BY <1>0 DEF Disconnected
  <2>3. link' \in BOOLEAN
    BY <2>2
  <2>4. up' \in Seq(Messages)
    BY <2>1, <2>2
  <2>5. down' \in Seq(Manifests) /\ Len(down') <= WireSize
    BY <2>1, <2>2
  <2> QED  BY <2>2, <2>3, <2>4, <2>5
<1> losses' \in 0 .. MaxLosses
  <2>1. UNCHANGED losses \/ (losses < MaxLosses /\ losses' = losses + 1)
    BY DEF LoseSession, Connect, RestartServer, ApplyManifest, RefuseManifest, ApplyUnsaved,
      RestartNode, ReportStatus, RequestSync
  <2> QED  BY <2>1 DEF TypeOK
<1>1. ASSUME LoseSession PROVE TypeOK'
  BY <1>0, <1>1 DEF LoseSession, TypeOK, server, history
<1>2. Hello \in Messages /\ \A i \in BOOLEAN : Status(i) \in Messages
  <2>1. device.known \in Configs \cup {None} /\ device.active \in Manifests \cup {NoManifest}
    BY DEF TypeOK
  <2>2. device.active.version \in Configs \cup {None} /\ device.active.sync \in SyncIds \cup {NoSync}
    BY <2>1 DEF Manifests, NoManifest
  <2>3. Hello \in [kind : {"hello"}, has : BOOLEAN, last : Configs \cup {None}]
    BY <2>1 DEF Hello
  <2>4. \A i \in BOOLEAN : Status(i) \in [kind : {"status"}, idle : BOOLEAN,
                                          version : Configs \cup {None}, sync : SyncIds \cup {NoSync}]
    BY <2>2 DEF Status
  <2> QED  BY <2>3, <2>4 DEF Messages
<1>3. ASSUME Connect PROVE TypeOK'
  <2>1. Other(reader) \in Readers
    BY DEF Other, Readers
  <2>2. up' \in Seq(Messages)
    BY <1>2, <1>3 DEF Connect
  <2> QED  BY <1>3, <2>1, <2>2 DEF Connect, TypeOK, server, history
<1>4. ASSUME RestartServer PROVE TypeOK'
  <2>1. proc' \in [Procs -> Goroutines]
    BY <1>4 DEF RestartServer
  <2>2. bus' \in Seq(Events \cup {None}) /\ Len(bus') <= BusSize /\ replaying' \subseteq Events
        /\ open' \in BOOLEAN
    BY <1>4 DEF RestartServer
  <2> QED  BY <1>0, <1>4, <2>1, <2>2 DEF RestartServer, TypeOK, history
<1>5. ASSUME down # <<>>
      PROVE  Head(down) \in Manifests /\ Tail(down) \in Seq(Manifests) /\ Len(Tail(down)) <= WireSize
             /\ Head(down).version \in Configs
  <2>1. down \in Seq(Manifests) /\ Len(down) <= WireSize
    BY DEF TypeOK
  <2>2. Head(down) \in Manifests /\ Tail(down) \in Seq(Manifests) /\ Len(Tail(down)) <= WireSize
    BY <1>5, <2>1
  <2> QED  BY <2>2 DEF Manifests
<1>6. ASSUME down # <<>>, NEW ok \in BOOLEAN, Answer(Head(down), ok)
      PROVE  up' \in Seq(Messages) /\ down' \in Seq(Manifests) /\ Len(down') <= WireSize
             /\ UNCHANGED link /\ UNCHANGED reader
  <2>1. Result(Head(down), ok) \in Messages
    BY <1>5, <1>6 DEF Result, Messages, Manifests
  <2> QED  BY <1>5, <1>6, <2>1 DEF Answer, TypeOK
<1>7. ASSUME ApplyManifest PROVE TypeOK'
  <2>1. up' \in Seq(Messages) /\ down' \in Seq(Manifests) /\ Len(down') <= WireSize
        /\ UNCHANGED link /\ UNCHANGED reader
    BY <1>6, <1>7 DEF ApplyManifest
  <2>2. /\ device' \in [active : Manifests \cup {NoManifest}, known : Configs \cup {None}]
        /\ applied' \subseteq Manifests
    BY <1>5, <1>7 DEF ApplyManifest, Commit, TypeOK
  <2> QED  BY <1>7, <2>1, <2>2 DEF ApplyManifest, TypeOK, server
<1>8. ASSUME RefuseManifest PROVE TypeOK'
  <2>1. up' \in Seq(Messages) /\ down' \in Seq(Manifests) /\ Len(down') <= WireSize
        /\ UNCHANGED link /\ UNCHANGED reader
    BY <1>6, <1>8 DEF RefuseManifest
  <2> QED  BY <1>8, <2>1 DEF RefuseManifest, Faulty, TypeOK, server, history
<1>9. ASSUME ApplyUnsaved PROVE TypeOK'
  <2>1. up' \in Seq(Messages) /\ down' \in Seq(Manifests) /\ Len(down') <= WireSize
        /\ UNCHANGED link /\ UNCHANGED reader
    BY <1>6, <1>9 DEF ApplyUnsaved
  <2>2. device' = [device EXCEPT !.active = Head(down)] /\ applied' = applied \cup {Head(down)}
        /\ down # <<>>
    BY <1>9 DEF ApplyUnsaved, Commit
  <2>3. device' \in [active : Manifests \cup {NoManifest}, known : Configs \cup {None}]
    BY <1>5, <2>2 DEF TypeOK
  <2>4. applied' \subseteq Manifests
    BY <1>5, <2>2 DEF TypeOK
  <2>5. faults' \in 0 .. MaxFaults
    <3>1. faults' = faults + 1 /\ faults < MaxFaults
      BY <1>9 DEF ApplyUnsaved, Faulty
    <3>2. faults \in 0 .. MaxFaults /\ MaxFaults \in Nat
      BY Constants DEF TypeOK
    <3> QED  BY ONLY <3>1, <3>2
  <2> QED  BY <1>9, <2>1, <2>3, <2>4, <2>5 DEF ApplyUnsaved, TypeOK, server
<1>10. ASSUME RestartNode PROVE TypeOK'
  BY <1>0, <1>10 DEF RestartNode, TypeOK, server, history
<1>11. ASSUME NEW i \in BOOLEAN, ReportStatus(i) PROVE TypeOK'
  <2>1. up' \in Seq(Messages)
    BY <1>2, <1>11 DEF ReportStatus, TypeOK
  <2> QED  BY <1>11, <2>1 DEF ReportStatus, TypeOK, server, history
<1>12. ASSUME RequestSync PROVE TypeOK'
  <2>1. up' \in Seq(Messages)
    BY <1>2, <1>12 DEF RequestSync, TypeOK
  <2> QED  BY <1>12, <2>1 DEF RequestSync, TypeOK, server, history
<1> QED  BY <1>1, <1>3, <1>4, <1>7, <1>8, <1>9, <1>10, <1>11, <1>12

\* A goroutine that sends a manifest keeps the types.
LEMMA TypedSender ==
  ASSUME TypeOK, NEW p \in Procs, Send(p)
  PROVE  UNCHANGED prompt => TypeOK'
<1> USE Constants, Goroutine
<1> SUFFICES ASSUME UNCHANGED prompt PROVE TypeOK'
  OBVIOUS
<1>1. proc[p] \in Goroutines /\ node \in Rows /\ edits \in 0 .. MaxEdits
  BY DEF TypeOK
<1>2. ASSUME Snapshot(p) PROVE TypeOK'
  <2> DEFINE c == Reconciled[config]
  <2>1. proc[p].event \in Events \cup {None} /\ c \in Configs /\ Fresh \in SyncIds
    BY <1>1, <1>2, GoroutineKinds, FreshId DEF Snapshot, TypeOK
  <2>2. config' \in {config, c}
    BY <1>2 DEF Snapshot
  <2>3. \/ Goto(p, [pc |-> "persist", event |-> proc[p].event, version |-> c, edit |-> edits, sync |-> Fresh])
        \/ Goto(p, [pc |-> "fail", sync |-> Fresh])
    BY <1>2 DEF Snapshot
  <2>4. proc' \in [Procs -> Goroutines]
    BY <1>1, <2>1, <2>3, TypedGoto
  <2>5. applied' \subseteq Manifests
    BY <1>2 DEF Snapshot, TypeOK
  <2>6. config' \in Configs
    BY <2>1, <2>2 DEF TypeOK
  <2>7. UNCHANGED <<edits, node, outbox, bus, replaying, open, wire, device, published, losses, faults>>
    BY <1>2 DEF Snapshot
  <2> QED  BY <2>4, <2>5, <2>6, <2>7 DEF TypeOK, wire
<1>3. ASSUME Persist(p) PROVE TypeOK'
  <2>1. proc[p] \in [pc : {"persist", "publish"}, event : Events \cup {None},
                     version : Configs, edit : 0 .. MaxEdits, sync : SyncIds]
    BY <1>1, <1>3, GoroutineKinds DEF Persist
  <2>2. node' \in Rows
    BY <1>1, <1>3, <2>1 DEF Persist, Rows
  <2>3. [proc[p] EXCEPT !.pc = "publish"] \in
          [pc : {"persist", "publish"}, event : Events \cup {None},
           version : Configs, edit : 0 .. MaxEdits, sync : SyncIds]
    BY <2>1
  <2>4. [proc[p] EXCEPT !.pc = "publish"] \in Goroutines
    BY <2>3 DEF Goroutines
  <2>5. proc' \in [Procs -> Goroutines]
    BY <1>3, <2>4, TypedGoto DEF Persist
  <2> QED  BY <1>3, <2>2, <2>5 DEF Persist, TypeOK, wire, history
<1>4. ASSUME Publish(p) PROVE TypeOK'
  <2>1. proc[p].version \in Configs /\ proc[p].edit \in 0 .. MaxEdits /\ proc[p].sync \in SyncIds
    BY <1>1, <1>4, GoroutineKinds DEF Publish
  <2>2. [version |-> proc[p].version, sync |-> proc[p].sync] \in Manifests
    BY <2>1 DEF Manifests
  <2>3. down' \in Seq(Manifests) /\ Len(down') <= WireSize
    <3>1. down \in Seq(Manifests) /\ Len(down) < WireSize /\ Len(down) \in Nat
      BY <1>4 DEF Publish, TypeOK
    <3> QED  BY <1>4, <2>2, <3>1 DEF Publish
  <2>4. outbox' \in [Events -> [state : {"none", "PENDING", "PROCESSED"}, edit : 0 .. MaxEdits]]
    <3>1. outbox \in [Events -> [state : {"none", "PENDING", "PROCESSED"}, edit : 0 .. MaxEdits]]
      BY DEF TypeOK
    <3>2. outbox' = Acknowledged(proc[p].event)
      BY <1>4 DEF Publish
    <3> QED  BY ONLY <3>1, <3>2 DEF Acknowledged, Pending
  <2>5. published' \in 0 .. MaxEdits
    BY <1>4, <2>1 DEF Publish, TypeOK
  <2>6. proc' \in [Procs -> Goroutines]
    BY <1>4, TypedGoto DEF Publish
  <2> QED  BY <1>4, <2>3, <2>4, <2>5, <2>6 DEF Publish, TypeOK
<1>5. ASSUME PublishRefused(p) PROVE TypeOK'
  <2>1. proc[p].sync \in SyncIds
    BY <1>1, <1>5, GoroutineKinds DEF PublishRefused
  <2>2. proc' \in [Procs -> Goroutines]
    BY <1>5, <2>1, TypedGoto DEF PublishRefused
  <2> QED  BY <1>5, <2>2 DEF PublishRefused, TypeOK, wire, history
<1>6. ASSUME Fail(p) PROVE TypeOK'
  <2>1. proc[p].sync \in SyncIds
    BY <1>1, <1>6, GoroutineKinds DEF Fail
  <2>2. proc' \in [Procs -> Goroutines]
    BY <1>6, TypedGoto DEF Fail
  <2>3. node' \in Rows
    BY <1>1, <1>6, <2>1 DEF Fail, Rows
  <2> QED  BY <1>6, <2>2, <2>3 DEF Fail, TypeOK, wire, history
<1> QED  BY <1>2, <1>3, <1>4, <1>5, <1>6 DEF Send

\* What a reader makes of the row is a row.
LEMMA RowVerdicts ==
  ASSUME NEW row \in Rows
  PROVE  /\ [row EXCEPT !.state = "in_sync", !.status = "applied"] \in Rows
         /\ [row EXCEPT !.state = "failed", !.status = "failed"] \in Rows
BY DEF Rows

\* A reader keeps the types.
LEMMA TypedReader ==
  ASSUME TypeOK, NEW r \in Readers, Handle(r)
  PROVE  UNCHANGED prompt => TypeOK'
<1> USE Constants, Goroutine
<1> SUFFICES ASSUME UNCHANGED prompt PROVE TypeOK'
  OBVIOUS
<1>1. r \in Procs /\ proc[r] \in Goroutines /\ node \in Rows
  BY DEF TypeOK, Procs
<1>2. ASSUME Receive(r) PROVE TypeOK'
  <2>1. Head(up) \in Messages /\ Tail(up) \in Seq(Messages)
    BY <1>2 DEF Receive, TypeOK
  <2>2. Head(up).kind \in {"hello", "status", "result"}
    BY <2>1, MessageKinds
  <2>3. [pc |-> Head(up).kind, msg |-> Head(up), row |-> node] \in Goroutines
    BY <1>1, <2>1, <2>2
  <2>4. UNCHANGED proc \/ Goto(r, [pc |-> Head(up).kind, msg |-> Head(up), row |-> node])
    BY <1>2 DEF Receive
  <2>5. proc' \in [Procs -> Goroutines]
    <3>1. CASE UNCHANGED proc
      BY <3>1 DEF TypeOK
    <3>2. CASE Goto(r, [pc |-> Head(up).kind, msg |-> Head(up), row |-> node])
      BY <1>1, <2>3, <3>2, TypedGoto
    <3> QED  BY <2>4, <3>1, <3>2
  <2> QED  BY <1>2, <2>1, <2>5 DEF Receive, TypeOK, history
<1>3. ASSUME HandleResult(r) PROVE TypeOK'
  <2>1. node' \in Rows
    <3>1. node' = node \/ node' = [node EXCEPT !.state = "in_sync", !.status = "applied"]
           \/ node' = [node EXCEPT !.state = "failed", !.status = "failed"]
      BY <1>3 DEF HandleResult
    <3> QED  BY <1>1, <3>1, RowVerdicts
  <2>2. proc' \in [Procs -> Goroutines]
    BY <1>1, <1>3, TypedGoto DEF HandleResult
  <2> QED  BY <1>3, <2>1, <2>2 DEF HandleResult, TypeOK, wire, history
<1>4. ASSUME HandleStatus(r) PROVE TypeOK'
  <2>1. node' \in Rows
    <3>1. node' = node \/ node' = Healed(node)
      BY <1>4 DEF HandleStatus
    <3> QED  BY <1>1, <3>1, RowVerdicts DEF Healed
  <2>2. Goto(r, Idle) \/ Goto(r, Push(None))
    BY <1>4 DEF HandleStatus, PeriodicPush
  <2>3. proc' \in [Procs -> Goroutines]
    BY <1>1, <2>2, TypedGoto
  <2>4. open' \in BOOLEAN
    <3>1. open' = open \/ open' = FALSE
      BY <1>4 DEF HandleStatus, PeriodicPush
    <3> QED  BY <3>1 DEF TypeOK
  <2>5. UNCHANGED <<config, edits, outbox, bus, replaying, wire, device, history, losses, faults>>
    BY <1>4 DEF HandleStatus
  <2> QED  BY <2>1, <2>3, <2>4, <2>5 DEF TypeOK, wire, history
<1>5. ASSUME HandleHello(r) PROVE TypeOK'
  <2>1. node' \in Rows
    BY <1>1, <1>5, GoroutineKinds DEF HandleHello
  <2>2. Goto(r, Idle) \/ Goto(r, Push(None))
    BY <1>5 DEF HandleHello
  <2>3. proc' \in [Procs -> Goroutines]
    BY <1>1, <2>2, TypedGoto
  <2> QED  BY <1>5, <2>1, <2>3 DEF HandleHello, TypeOK, wire, history
<1> QED  BY <1>2, <1>3, <1>4, <1>5 DEF Handle

\* No step changes a type.
LEMMA TypedNext ==
  ASSUME TypeOK, [Next]_vars
  PROVE  TypeOK'
<1>1. ASSUME UNCHANGED vars PROVE TypeOK'
  BY <1>1 DEF vars, moving, server, wire, history, TypeOK
<1>2. ASSUME Next PROVE TypeOK'
  <2>1. UNCHANGED prompt /\ Step
    BY <1>2 DEF Next
  <2>2. CASE \E p \in Procs : Send(p)
    BY <2>1, <2>2, TypedSender
  <2>3. CASE \E r \in Readers : Handle(r)
    BY <2>1, <2>3, TypedReader
  <2>4. CASE \/ \E c \in Configs : Edit(c)
             \/ TakeChange \/ BeginReplay \/ Replay \/ WindowElapses \/ Startup
    BY <2>1, <2>4, TypedGate
  <2>5. CASE \/ LoseSession \/ Connect \/ RestartServer
             \/ ApplyManifest \/ RefuseManifest \/ ApplyUnsaved \/ RestartNode
             \/ \E i \in BOOLEAN : ReportStatus(i)
             \/ RequestSync
    BY <2>1, <2>5, TypedNode
  <2> QED  BY <2>1, <2>2, <2>3, <2>4, <2>5 DEF Step
<1> QED  BY <1>1, <1>2

-----------------------------------------------------------------------------
(* What rows, messages and readers say of the node.                        *)

\* The generations that are forgotten are those whose sync id nobody mentions.
Remembers == \A m \in applied : m.sync \in InUse => m \in applied'

\* A generation whose sync id is still mentioned stays applied, whatever step is taken.
LEMMA RemembersNext ==
  ASSUME TypeOK, [Next]_vars
  PROVE  Remembers
<1>1. \/ applied \subseteq applied'
      \/ applied' = {m \in applied : m.sync \in InUse}
  <2>1. ASSUME NEW p \in Procs, Send(p)
        PROVE  applied \subseteq applied' \/ applied' = {m \in applied : m.sync \in InUse}
    BY <2>1 DEF Send, Snapshot, Persist, Publish, PublishRefused, Fail, history
  <2>2. ASSUME NEW r \in Readers, Handle(r) PROVE applied \subseteq applied'
    BY <2>2 DEF Handle, Receive, HandleResult, HandleStatus, HandleHello, history
  <2>3. ASSUME \/ \E c \in Configs : Edit(c)
               \/ TakeChange \/ BeginReplay \/ Replay \/ WindowElapses \/ Startup
               \/ LoseSession \/ Connect \/ RestartServer
               \/ ApplyManifest \/ RefuseManifest \/ ApplyUnsaved \/ RestartNode
               \/ \E i \in BOOLEAN : ReportStatus(i)
               \/ RequestSync
        PROVE  applied \subseteq applied'
    BY <2>3 DEF Edit, TakeChange, BeginReplay, Replay, WindowElapses, Startup, LoseSession, Connect,
      RestartServer, ApplyManifest, RefuseManifest, ApplyUnsaved, RestartNode, ReportStatus,
      RequestSync, Commit, history
  <2>4. ASSUME UNCHANGED vars PROVE applied \subseteq applied'
    BY <2>4 DEF vars, moving, history
  <2>5. CASE Next
    BY <2>1, <2>2, <2>3, <2>5 DEF Next, Step
  <2> QED  BY <2>4, <2>5
<1> QED  BY <1>1 DEF Remembers

\* A reader mentions the sync ids of its row and of its message.
LEMMA ReaderMentions ==
  ASSUME NEW g \in Goroutines, g.pc \in {"hello", "status", "result"}
  PROVE  /\ g.row.sync \in SyncsOf(g)
         /\ g.msg.kind \in {"status", "result"} => g.msg.sync \in SyncsOf(g)
<1>1. g \in [pc : {"hello", "status", "result"}, msg : Messages, row : Rows]
  BY DEF Goroutines, Idle
<1>2. "row" \in DOMAIN g /\ "msg" \in DOMAIN g
  BY <1>1
<1>3. ASSUME g.msg.kind \in {"status", "result"} PROVE "sync" \in DOMAIN g.msg
  <2>1. g.msg \in Messages
    BY <1>1
  <2> QED  BY <1>3, <2>1 DEF Messages
<1> QED  BY <1>2, <1>3 DEF SyncsOf

\* What was true of the generations committed stays true.
LEMMA RecordsStay ==
  ASSUME TypeOK, Records, Remembers
  PROVE  /\ RowTrue(node, applied')
         /\ \A i \in DOMAIN up : MessageTrue(up[i], applied')
         /\ \A p \in Procs : HandledTrue(proc[p], applied')
         /\ device.active = NoManifest \/ device.active \in applied'
<1>1. RowTrue(node, applied')
  BY DEF Records, RowTrue, Remembers, InUse
<1>2. ASSUME NEW i \in DOMAIN up PROVE MessageTrue(up[i], applied')
  <2>1. Evidence(up[i]) => up[i].sync \in InUse
    BY DEF Evidence, InUse
  <2> QED  BY <2>1 DEF Records, MessageTrue, Remembers
<1>3. ASSUME NEW p \in Procs PROVE HandledTrue(proc[p], applied')
  <2> SUFFICES ASSUME proc[p].pc \in {"hello", "status", "result"}
               PROVE  RowTrue(proc[p].row, applied') /\ MessageTrue(proc[p].msg, applied')
                      /\ proc[p].msg.kind = proc[p].pc
    BY DEF HandledTrue
  <2>1. /\ RowTrue(proc[p].row, applied) /\ MessageTrue(proc[p].msg, applied)
        /\ proc[p].msg.kind = proc[p].pc
    BY DEF Records, HandledTrue
  <2>2. SyncsOf(proc[p]) \subseteq InUse
    BY DEF InUse
  <2>3. proc[p] \in Goroutines
    BY DEF TypeOK
  <2>4. /\ proc[p].row.sync \in InUse
        /\ Evidence(proc[p].msg) => proc[p].msg.sync \in InUse
    BY <2>2, <2>3, ReaderMentions DEF Evidence
  <2> QED  BY <2>1, <2>4 DEF RowTrue, MessageTrue, Remembers
<1>4. device.active = NoManifest \/ device.active \in applied'
  BY DEF Records, Remembers, InUse
<1> QED  BY <1>1, <1>2, <1>3, <1>4

\* What a goroutine does besides handling messages needs no evidence.
LEMMA Unhandled ==
  ASSUME NEW S
  PROVE  /\ HandledTrue(Idle, S) /\ HandledTrue([pc |-> "start"], S)
         /\ \A e : HandledTrue(Push(e), S)
BY DEF HandledTrue, Idle, Push

\* A step of one goroutine is a matter of that goroutine.
LEMMA HandledOfOne ==
  ASSUME TypeOK, NEW p \in Procs, NEW g, Goto(p, g), HandledTrue(g, applied'),
         \A q \in Procs : HandledTrue(proc[q], applied')
  PROVE  \A q \in Procs : HandledTrue(proc'[q], applied')
BY DEF TypeOK, Goto

\* The sender writes no verdict of the node's.
LEMMA RecordsSender ==
  ASSUME TypeOK, Records, Remembers, NEW p \in Procs, Send(p)
  PROVE  Records'
<1>1. /\ RowTrue(node, applied')
      /\ \A i \in DOMAIN up : MessageTrue(up[i], applied')
      /\ \A q \in Procs : HandledTrue(proc[q], applied')
      /\ device.active = NoManifest \/ device.active \in applied'
  BY RecordsStay
<1>2. UNCHANGED up /\ UNCHANGED device
  BY DEF Send, Snapshot, Persist, Publish, PublishRefused, Fail, wire
<1>3. \E g : Goto(p, g) /\ g.pc \notin {"hello", "status", "result"}
  <2>1. CASE Snapshot(p)
    BY <2>1 DEF Snapshot
  <2>2. CASE Persist(p)
    <3>1. proc[p] \in [pc : {"persist", "publish"}, event : Events \cup {None},
                       version : Configs, edit : 0 .. MaxEdits, sync : SyncIds]
      BY <2>2, GoroutineKinds DEF Persist, TypeOK
    <3>2. [proc[p] EXCEPT !.pc = "publish"].pc = "publish"
      BY <3>1
    <3> QED  BY <2>2, <3>2 DEF Persist
  <2>3. CASE Publish(p) \/ PublishRefused(p) \/ Fail(p)
    BY <2>3 DEF Publish, PublishRefused, Fail, Idle
  <2> QED  BY <2>1, <2>2, <2>3 DEF Send
<1>4. \A q \in Procs : HandledTrue(proc'[q], applied')
  <2>1. PICK g : Goto(p, g) /\ g.pc \notin {"hello", "status", "result"}
    BY <1>3
  <2>2. HandledTrue(g, applied')
    BY <2>1 DEF HandledTrue
  <2> QED  BY <1>1, <2>1, <2>2, HandledOfOne
<1>5. RowTrue(node', applied')
  <2>1. node' = node \/ node'.state \in {"syncing", "failed"}
    <3>1. node \in Rows
      BY DEF TypeOK
    <3>2. UNCHANGED node \/ Persist(p) \/ Fail(p)
      BY DEF Send, Snapshot, Publish, PublishRefused
    <3>3. CASE Persist(p)
      BY <3>1, <3>3 DEF Persist, Rows
    <3>4. CASE Fail(p)
      BY <3>1, <3>4 DEF Fail, Rows
    <3> QED  BY <3>2, <3>3, <3>4
  <2> QED  BY <1>1, <2>1 DEF RowTrue
<1> QED  BY <1>1, <1>2, <1>4, <1>5 DEF Records

\* A generation that is confirmed is the one in the message.
LEMMA Confirmed ==
  ASSUME NEW S, NEW row \in Rows, NEW m \in Messages, MessageTrue(m, S), Evidence(m), Confirmable(row, m)
  PROVE  RowTrue(Healed(row), S)
<1>1. [version |-> row.version, sync |-> row.sync] \in S
  BY DEF MessageTrue, Confirmable, Current
<1>2. /\ Healed(row).status = "applied"
      /\ Healed(row).version = row.version /\ Healed(row).sync = row.sync
  BY DEF Healed, Rows
<1> QED  BY <1>1, <1>2 DEF RowTrue

\* A reader confirms what its message proves, and writes a row back as it was read.
LEMMA RecordsReader ==
  ASSUME TypeOK, Records, Remembers, NEW r \in Readers, Handle(r)
  PROVE  Records'
<1>1. /\ RowTrue(node, applied')
      /\ \A i \in DOMAIN up : MessageTrue(up[i], applied')
      /\ \A q \in Procs : HandledTrue(proc[q], applied')
      /\ device.active = NoManifest \/ device.active \in applied'
  BY RecordsStay
<1>2. r \in Procs /\ proc[r] \in Goroutines /\ node \in Rows
  BY DEF TypeOK, Procs
<1>3. UNCHANGED device
  BY DEF Handle, Receive, HandleResult, HandleStatus, HandleHello
<1>4. \A e : HandledTrue(Idle, applied') /\ HandledTrue(Push(e), applied')
  BY Unhandled
<1>5. ASSUME Receive(r) PROVE Records'
  <2>1. up \in Seq(Messages) /\ up # <<>> /\ up' = Tail(up) /\ UNCHANGED node
    BY <1>5 DEF Receive, TypeOK
  <2>2. Head(up) \in Messages /\ MessageTrue(Head(up), applied')
    <3>1. Head(up) = up[1] /\ 1 \in DOMAIN up
      BY <2>1
    <3> QED  BY <1>1, <2>1, <3>1
  <2>3. \A i \in DOMAIN up' : MessageTrue(up'[i], applied')
    <3>1. \A i \in DOMAIN up' : i + 1 \in DOMAIN up /\ up'[i] = up[i + 1]
      BY <2>1
    <3> QED  BY <1>1, <3>1
  <2>4. PICK m \in Messages : m = Head(up) /\ MessageTrue(m, applied')
    BY <2>2
  <2>5. HandledTrue([pc |-> m.kind, msg |-> m, row |-> node], applied')
    BY <1>1, <2>4 DEF HandledTrue
  <2>6. UNCHANGED proc \/ Goto(r, [pc |-> m.kind, msg |-> m, row |-> node])
    BY <1>5, <2>4 DEF Receive
  <2>7. \A q \in Procs : HandledTrue(proc'[q], applied')
    BY <1>1, <1>2, <2>5, <2>6, HandledOfOne
  <2> QED  BY <1>1, <1>3, <2>1, <2>3, <2>7 DEF Records
<1>6. ASSUME HandleResult(r) PROVE Records'
  <2>1. proc[r].msg \in Messages /\ proc[r].pc = "result"
    BY <1>2, <1>6, GoroutineKinds DEF HandleResult
  <2>2. PICK m \in Messages : m = proc[r].msg
    BY <2>1
  <2>3. MessageTrue(m, applied') /\ m.kind = "result"
    BY <1>1, <1>2, <2>1, <2>2 DEF HandledTrue
  <2>4. RowTrue(node', applied')
    <3>1. node' = node \/ (Confirmable(node, m) /\ m.ok /\ node' = Healed(node))
            \/ node' = [node EXCEPT !.state = "failed", !.status = "failed"]
      BY <1>6, <2>2 DEF HandleResult, Healed
    <3>2. ASSUME Confirmable(node, m), m.ok PROVE RowTrue(Healed(node), applied')
      BY <1>2, <2>3, <3>2, Confirmed DEF Evidence
    <3>3. RowTrue([node EXCEPT !.state = "failed", !.status = "failed"], applied')
      BY <1>2 DEF RowTrue, Rows
    <3> QED  BY <1>1, <3>1, <3>2, <3>3
  <2>5. \A q \in Procs : HandledTrue(proc'[q], applied')
    BY <1>1, <1>2, <1>4, <1>6, HandledOfOne DEF HandleResult
  <2>6. UNCHANGED up
    BY <1>6 DEF HandleResult, wire
  <2> QED  BY <1>1, <1>3, <2>4, <2>5, <2>6 DEF Records
<1>7. ASSUME HandleStatus(r) PROVE Records'
  <2>1. proc[r].msg \in Messages /\ proc[r].pc = "status"
    BY <1>2, <1>7, GoroutineKinds DEF HandleStatus
  <2>2. PICK m \in Messages : m = proc[r].msg
    BY <2>1
  <2>3. MessageTrue(m, applied') /\ m.kind = "status"
    BY <1>1, <1>2, <2>1, <2>2 DEF HandledTrue
  <2>4. RowTrue(node', applied')
    <3>1. node' = node \/ (Confirmable(node, m) /\ m.version # None /\ node' = Healed(node))
      BY <1>7, <2>2 DEF HandleStatus, Heals
    <3>2. ASSUME Confirmable(node, m), m.version # None PROVE RowTrue(Healed(node), applied')
      BY <1>2, <2>3, <3>2, Confirmed DEF Evidence
    <3> QED  BY <1>1, <3>1, <3>2
  <2>5. Goto(r, Idle) \/ Goto(r, Push(None))
    BY <1>7 DEF HandleStatus, PeriodicPush
  <2>6. \A q \in Procs : HandledTrue(proc'[q], applied')
    BY <1>1, <1>2, <1>4, <2>5, HandledOfOne
  <2>7. UNCHANGED up
    BY <1>7 DEF HandleStatus, wire
  <2> QED  BY <1>1, <1>3, <2>4, <2>6, <2>7 DEF Records
<1>8. ASSUME HandleHello(r) PROVE Records'
  <2>1. RowTrue(node', applied')
    BY <1>1, <1>2, <1>8 DEF HandleHello, HandledTrue
  <2>2. Goto(r, Idle) \/ Goto(r, Push(None))
    BY <1>8 DEF HandleHello
  <2>3. \A q \in Procs : HandledTrue(proc'[q], applied')
    BY <1>1, <1>2, <1>4, <2>2, HandledOfOne
  <2>4. UNCHANGED up
    BY <1>8 DEF HandleHello, wire
  <2> QED  BY <1>1, <1>3, <2>1, <2>3, <2>4 DEF Records
<1> QED  BY <1>5, <1>6, <1>7, <1>8 DEF Handle

\* A message is added to those on their way.
LEMMA MessageAdded ==
  ASSUME TypeOK, NEW m, NEW S, MessageTrue(m, S), up' = Append(up, m) \/ up' = <<m>>,
         \A i \in DOMAIN up : MessageTrue(up[i], S)
  PROVE  \A i \in DOMAIN up' : MessageTrue(up'[i], S)
<1>1. up \in Seq(Messages)
  BY DEF TypeOK
<1>2. CASE up' = <<m>>
  BY <1>2
<1>3. CASE up' = Append(up, m)
  <2>1. \A i \in DOMAIN up' : (i \in DOMAIN up /\ up'[i] = up[i]) \/ up'[i] = m
    BY <1>1, <1>3
  <2> QED  BY <2>1
<1> QED  BY <1>2, <1>3

\* The node reports and confirms what it has committed.
LEMMA RecordsNode ==
  ASSUME TypeOK, Records, Remembers,
         \/ Connect \/ ApplyManifest \/ RefuseManifest \/ ApplyUnsaved
         \/ \E i \in BOOLEAN : ReportStatus(i)
         \/ RequestSync
  PROVE  Records'
<1>1. /\ RowTrue(node, applied')
      /\ \A i \in DOMAIN up : MessageTrue(up[i], applied')
      /\ \A q \in Procs : HandledTrue(proc[q], applied')
      /\ device.active = NoManifest \/ device.active \in applied'
  BY RecordsStay
<1>2. UNCHANGED node /\ UNCHANGED proc
  BY DEF Connect, ApplyManifest, RefuseManifest, ApplyUnsaved, ReportStatus, RequestSync, server
<1>3. ASSUME device' = device \/ device'.active \in applied',
             \A i \in DOMAIN up' : MessageTrue(up'[i], applied')
      PROVE  Records'
  BY <1>1, <1>2, <1>3 DEF Records
<1>4. MessageTrue(Hello, applied')
  BY DEF MessageTrue, Evidence, Hello
<1>5. ASSUME Connect \/ RequestSync PROVE Records'
  <2>1. UNCHANGED device
    BY <1>5 DEF Connect, RequestSync
  <2>2. PICK m : m = Hello
    OBVIOUS
  <2>3. up' = Append(up, m) \/ up' = <<m>>
    BY <1>5, <2>2 DEF Connect, RequestSync
  <2>4. \A i \in DOMAIN up' : MessageTrue(up'[i], applied')
    BY <1>1, <1>4, <2>2, <2>3, MessageAdded
  <2> QED  BY <1>3, <2>1, <2>4
<1>6. ASSUME NEW idle \in BOOLEAN, ReportStatus(idle) PROVE Records'
  <2>1. PICK m : m = Status(idle)
    OBVIOUS
  <2>2. MessageTrue(m, applied')
    <3>1. m.version = device.active.version /\ m.sync = device.active.sync /\ m.kind = "status"
      BY <2>1 DEF Status
    <3>2. CASE device.active = NoManifest
      BY <3>1, <3>2 DEF MessageTrue, Evidence, NoManifest
    <3>3. CASE device.active \in applied' /\ device.active # NoManifest
      <4>1. device.active \in Manifests
        BY <3>3 DEF TypeOK
      <4>2. [version |-> m.version, sync |-> m.sync] = device.active
        BY <3>1, <4>1 DEF Manifests
      <4> QED  BY <3>3, <4>2 DEF MessageTrue
    <3> QED  BY <1>1, <3>2, <3>3
  <2>3. up' = Append(up, m) /\ UNCHANGED device
    BY <1>6, <2>1 DEF ReportStatus
  <2>4. \A i \in DOMAIN up' : MessageTrue(up'[i], applied')
    BY <1>1, <2>2, <2>3, MessageAdded
  <2> QED  BY <1>3, <2>3, <2>4
<1>7. ASSUME down # <<>>, NEW ok \in BOOLEAN, Answer(Head(down), ok), ok => Head(down) \in applied'
      PROVE  \A i \in DOMAIN up' : MessageTrue(up'[i], applied')
  <2>1. Head(down) \in Manifests
    BY <1>7 DEF TypeOK
  <2>2. PICK h \in Manifests : h = Head(down)
    BY <2>1
  <2>3. PICK m : m = Result(h, ok)
    OBVIOUS
  <2>4. m.version = h.version /\ m.sync = h.sync /\ m.kind = "result" /\ m.ok = ok
    BY <2>3 DEF Result
  <2>5. [version |-> m.version, sync |-> m.sync] = h
    BY <2>4 DEF Manifests
  <2>6. MessageTrue(m, applied')
    BY <1>7, <2>2, <2>4, <2>5 DEF MessageTrue, Evidence
  <2>7. up' = Append(up, m)
    BY <1>7, <2>2, <2>3 DEF Answer
  <2> QED  BY <1>1, <2>6, <2>7, MessageAdded
<1>8. ASSUME ApplyManifest PROVE Records'
  <2>1. down # <<>> /\ device'.active = Head(down) /\ Head(down) \in applied' /\ Answer(Head(down), TRUE)
    BY <1>8 DEF ApplyManifest, Commit
  <2> QED  BY <1>3, <1>7, <2>1
<1>9. ASSUME RefuseManifest PROVE Records'
  <2>1. down # <<>> /\ UNCHANGED device /\ Answer(Head(down), FALSE)
    BY <1>9 DEF RefuseManifest
  <2> QED  BY <1>3, <1>7, <2>1
<1>10. ASSUME ApplyUnsaved PROVE Records'
  <2>1. down # <<>> /\ device'.active = Head(down) /\ Head(down) \in applied' /\ Answer(Head(down), FALSE)
    BY <1>10 DEF ApplyUnsaved, Commit, TypeOK
  <2> QED  BY <1>3, <1>7, <2>1
<1> QED  BY <1>5, <1>6, <1>8, <1>9, <1>10

\* The other steps say nothing of the node, or lose what was said.
LEMMA RecordsRest ==
  ASSUME TypeOK, Records, Remembers,
         \/ \E c \in Configs : Edit(c)
         \/ TakeChange \/ BeginReplay \/ Replay \/ WindowElapses \/ Startup
         \/ LoseSession \/ RestartServer \/ RestartNode
         \/ UNCHANGED vars
  PROVE  Records'
<1>1. /\ RowTrue(node, applied')
      /\ \A i \in DOMAIN up : MessageTrue(up[i], applied')
      /\ \A q \in Procs : HandledTrue(proc[q], applied')
      /\ device.active = NoManifest \/ device.active \in applied'
  BY RecordsStay
<1>2. \A e : HandledTrue(Idle, applied') /\ HandledTrue([pc |-> "start"], applied')
             /\ HandledTrue(Push(e), applied')
  BY Unhandled
<1>3. UNCHANGED node
  BY DEF Edit, TakeChange, BeginReplay, Replay, WindowElapses, Startup, LoseSession, RestartServer,
    RestartNode, server, vars, moving
<1>4. UNCHANGED device \/ device'.active = NoManifest
  <2>1. CASE RestartNode
    BY <2>1 DEF RestartNode, TypeOK
  <2> QED
    BY <2>1 DEF Edit, TakeChange, BeginReplay, Replay, WindowElapses, Startup, LoseSession, RestartServer,
      vars, moving
<1>5. UNCHANGED up \/ up' = <<>>
  BY DEF Edit, TakeChange, BeginReplay, Replay, WindowElapses, Startup, LoseSession, RestartServer,
    RestartNode, Disconnected, wire, vars, moving
<1>6. \A q \in Procs : HandledTrue(proc'[q], applied')
  <2>1. "gate" \in Procs /\ "startup" \in Procs
    BY DEF Procs
  <2>2. ASSUME UNCHANGED proc PROVE \A q \in Procs : HandledTrue(proc'[q], applied')
    BY <1>1, <2>2
  <2>3. ASSUME NEW p \in Procs, NEW g, Goto(p, g), HandledTrue(g, applied')
        PROVE  \A q \in Procs : HandledTrue(proc'[q], applied')
    BY <1>1, <2>3, HandledOfOne
  <2>4. CASE TakeChange \/ Replay
    <3>1. \E e : Goto("gate", Push(e))
      BY <2>4 DEF TakeChange, Replay
    <3> QED  BY <1>2, <2>1, <2>3, <3>1
  <2>5. CASE Startup
    BY <1>2, <2>1, <2>3, <2>5 DEF Startup
  <2>6. CASE RestartServer
    BY <1>2, <2>6 DEF RestartServer
  <2>7. CASE (\E c \in Configs : Edit(c)) \/ BeginReplay \/ WindowElapses \/ LoseSession \/ RestartNode
             \/ UNCHANGED vars
    BY <2>2, <2>7 DEF Edit, BeginReplay, WindowElapses, LoseSession, RestartNode, server, vars, moving
  <2> QED  BY <2>4, <2>5, <2>6, <2>7
<1>7. \A i \in DOMAIN up' : MessageTrue(up'[i], applied')
  BY <1>1, <1>5
<1> QED  BY <1>1, <1>3, <1>4, <1>6, <1>7 DEF Records

\* What is said of the node is true after every step.
LEMMA RecordsNext ==
  ASSUME TypeOK, Records, [Next]_vars
  PROVE  Records'
<1>1. Remembers
  BY RemembersNext
<1> QED  BY <1>1, RecordsSender, RecordsReader, RecordsNode, RecordsRest DEF Next, Step

-----------------------------------------------------------------------------
(* Durable changes.                                                        *)

\* What is on record stays, with the edit it belongs to.
Lasting ==
  /\ edits <= edits' /\ published <= published'
  /\ \A e \in Events : outbox[e].state # "none" =>
       outbox'[e].edit = outbox[e].edit /\ outbox'[e].state # "none"

\* Edits and publications only grow; an event that exists keeps its edit.
LEMMA LastingNext ==
  ASSUME TypeOK, [Next]_vars
  PROVE  Lasting
<1>1. edits \in Nat /\ published \in Nat
      /\ outbox \in [Events -> [state : {"none", "PENDING", "PROCESSED"}, edit : 0 .. MaxEdits]]
  BY Constants DEF TypeOK
<1>2. ASSUME UNCHANGED edits, UNCHANGED published, UNCHANGED outbox PROVE Lasting
  BY <1>1, <1>2 DEF Lasting
<1>3. ASSUME NEW c \in Configs, Edit(c) PROVE Lasting
  BY <1>1, <1>3 DEF Edit, Lasting, history
<1>4. ASSUME NEW p \in Procs, Publish(p) PROVE Lasting
  <2>1. proc[p].edit \in Nat
    <3>1. proc[p] \in Goroutines /\ proc[p].pc = "publish"
      BY <1>4 DEF Publish, TypeOK
    <3>2. proc[p].edit \in 0 .. MaxEdits
      BY <3>1, GoroutineKinds
    <3> QED  BY <3>2, Constants
  <2>2. UNCHANGED edits /\ published <= published'
    BY <1>1, <1>4, <2>1 DEF Publish
  <2>3. outbox' = Acknowledged(proc[p].event)
    BY <1>4 DEF Publish
  <2> QED  BY <1>1, <2>2, <2>3 DEF Lasting, Acknowledged, Pending
<1>5. ASSUME NEW p \in Procs, Snapshot(p) \/ Persist(p) \/ PublishRefused(p) \/ Fail(p) PROVE Lasting
  BY <1>2, <1>5 DEF Snapshot, Persist, PublishRefused, Fail, history
<1>6. ASSUME NEW r \in Readers, Handle(r) PROVE Lasting
  BY <1>2, <1>6 DEF Handle, Receive, HandleResult, HandleStatus, HandleHello, history
<1>7. ASSUME \/ TakeChange \/ BeginReplay \/ Replay \/ WindowElapses \/ Startup
             \/ LoseSession \/ Connect \/ RestartServer
             \/ ApplyManifest \/ RefuseManifest \/ ApplyUnsaved \/ RestartNode
             \/ \E i \in BOOLEAN : ReportStatus(i)
             \/ RequestSync \/ UNCHANGED vars
      PROVE  Lasting
  BY <1>2, <1>7 DEF TakeChange, BeginReplay, Replay, WindowElapses, Startup, LoseSession, Connect,
    RestartServer, ApplyManifest, RefuseManifest, ApplyUnsaved, RestartNode, ReportStatus,
    RequestSync, server, history, vars, moving
<1> QED  BY <1>3, <1>4, <1>5, <1>6, <1>7 DEF Next, Step, Send

\* What is in somebody's hands stays known, and sent after its edit.
LEMMA KnownStays ==
  ASSUME Lasting
  PROVE  /\ \A e : Known(e) => Known(e)'
         /\ \A g : Sending(g) => Sending(g)'
BY DEF Lasting, Known, Sending

\* A step of one goroutine is a matter of that goroutine.
LEMMA SendingOfOne ==
  ASSUME TypeOK, Lasting, Changes, NEW p \in Procs, NEW g, Goto(p, g), Sending(g)'
  PROVE  \A q \in Procs : Sending(proc[q])'
<1>1. proc'[p] = g /\ \A q \in Procs \ {p} : proc'[q] = proc[q]
  BY DEF TypeOK, Goto
<1>2. ASSUME NEW q \in Procs \ {p} PROVE Sending(proc[q])'
  <2>1. PICK x : x = proc[q] /\ x = proc'[q]
    BY <1>1
  <2>2. Sending(x)'
    BY <2>1, KnownStays DEF Changes
  <2> QED  BY <2>1, <2>2 DEF Sending
<1>3. Sending(proc[p])'
  BY <1>1 DEF Sending
<1> QED  BY <1>2, <1>3

\* Goroutines that carry no event.
LEMMA NothingSent ==
  ASSUME NEW g, g = Idle \/ g = Push(None) \/ g.pc \in {"start", "fail", "hello", "status", "result"}
  PROVE  Sending(g)'
BY Constants DEF Sending, Idle, Push, Known

\* What a goroutine carries is known and in time, after every step.
LEMMA SendingNext ==
  ASSUME TypeOK, Lasting, Changes, [Next]_vars
  PROVE  \A q \in Procs : Sending(proc[q])'
<1>1. \A q \in Procs : proc[q] \in Goroutines /\ Sending(proc[q])
  BY DEF TypeOK, Changes
<1>2. ASSUME UNCHANGED proc PROVE \A q \in Procs : Sending(proc[q])'
  <2> SUFFICES ASSUME NEW q \in Procs PROVE Sending(proc[q])'
    OBVIOUS
  <2>1. PICK x : x = proc[q] /\ x = proc'[q]
    BY <1>2
  <2>2. Sending(x)'
    BY <1>1, <2>1, KnownStays
  <2> QED  BY <2>1, <2>2 DEF Sending
<1>3. ASSUME NEW p \in Procs, NEW g, Goto(p, g), Sending(g)' PROVE \A q \in Procs : Sending(proc[q])'
  BY <1>3, SendingOfOne
<1>4. "gate" \in Procs /\ "startup" \in Procs /\ Readers \subseteq Procs
  BY DEF Procs
<1>5. ASSUME NEW e \in Events \cup {None}, Known(e), Goto("gate", Push(e))
      PROVE  \A q \in Procs : Sending(proc[q])'
  <2>1. Known(e)'
    BY <1>5, KnownStays
  <2>2. Sending(Push(e))'
    BY <2>1 DEF Sending, Push
  <2> QED  BY <1>3, <1>4, <1>5, <2>2
<1>6. ASSUME TakeChange PROVE \A q \in Procs : Sending(proc[q])'
  <2>1. Head(bus) = bus[1] /\ 1 \in DOMAIN bus /\ bus[1] \in Events \cup {None}
    BY <1>6 DEF TakeChange, TypeOK
  <2>2. Known(Head(bus)) /\ Goto("gate", Push(Head(bus)))
    BY <1>6, <2>1 DEF TakeChange, Changes
  <2> QED  BY <1>5, <2>1, <2>2
<1>7. ASSUME Replay PROVE \A q \in Procs : Sending(proc[q])'
  <2>1. PICK e \in replaying : Goto("gate", Push(e))
    BY <1>7 DEF Replay
  <2>2. Known(e) /\ e \in Events
    BY <2>1 DEF Changes, TypeOK
  <2> QED  BY <1>5, <2>1, <2>2
<1>8. ASSUME NEW p \in Procs, Snapshot(p) PROVE \A q \in Procs : Sending(proc[q])'
  <2>1. UNCHANGED outbox /\ UNCHANGED edits /\ Known(proc[p].event)
    BY <1>1, <1>8 DEF Snapshot, Sending
  <2>2. PICK g : /\ Goto(p, g)
                 /\ \/ g = [pc |-> "persist", event |-> proc[p].event, version |-> Reconciled[config],
                            edit |-> edits, sync |-> Fresh]
                    \/ g = [pc |-> "fail", sync |-> Fresh]
    BY <1>8 DEF Snapshot
  <2>3. Sending(g)'
    <3>1. CASE g.pc = "fail"
      BY <3>1, NothingSent
    <3>2. CASE g.pc = "persist" /\ g.event = proc[p].event /\ g.edit = edits
      BY <2>1, <3>2 DEF Sending, Known, Changes
    <3> QED  BY <2>2, <3>1, <3>2
  <2> QED  BY <1>3, <2>2, <2>3
<1>9. ASSUME NEW p \in Procs, Persist(p) PROVE \A q \in Procs : Sending(proc[q])'
  <2>1. PICK g : g = [proc[p] EXCEPT !.pc = "publish"] /\ Goto(p, g)
    BY <1>9 DEF Persist
  <2>2. proc[p] \in [pc : {"persist", "publish"}, event : Events \cup {None},
                     version : Configs, edit : 0 .. MaxEdits, sync : SyncIds]
        /\ proc[p].pc = "persist"
    BY <1>1, <1>9, GoroutineKinds DEF Persist
  <2>3. g.pc = "publish" /\ g.event = proc[p].event /\ g.edit = proc[p].edit /\ UNCHANGED outbox
    BY <1>9, <2>1, <2>2 DEF Persist
  <2>4. Sending(g)'
    BY <1>1, <2>2, <2>3 DEF Sending, Known
  <2> QED  BY <1>3, <2>1, <2>4
<1>10. ASSUME NEW p \in Procs, Publish(p) \/ PublishRefused(p) \/ Fail(p)
       PROVE  \A q \in Procs : Sending(proc[q])'
  <2>1. PICK g : Goto(p, g) /\ (g = Idle \/ g.pc = "fail")
    BY <1>10 DEF Publish, PublishRefused, Fail
  <2>2. Sending(g)'
    BY <2>1, NothingSent
  <2> QED  BY <1>3, <2>1, <2>2
<1>11. ASSUME NEW r \in Readers, Handle(r) PROVE \A q \in Procs : Sending(proc[q])'
  <2>1. UNCHANGED proc \/ \E g : Goto(r, g) /\ (g = Idle \/ g = Push(None)
                                              \/ g.pc \in {"start", "fail", "hello", "status", "result"})
    <3>1. ASSUME Receive(r)
          PROVE  UNCHANGED proc \/ \E g : Goto(r, g) /\ g.pc \in {"hello", "status", "result"}
      <4>1. Head(up) \in Messages
        BY <3>1 DEF Receive, TypeOK
      <4>2. Head(up).kind \in {"hello", "status", "result"}
        BY <4>1, MessageKinds
      <4>3. PICK g : g = [pc |-> Head(up).kind, msg |-> Head(up), row |-> node]
        OBVIOUS
      <4>4. UNCHANGED proc \/ Goto(r, g)
        BY <3>1, <4>3 DEF Receive
      <4> QED  BY <4>2, <4>3, <4>4
    <3>2. ASSUME HandleResult(r) \/ HandleStatus(r) \/ HandleHello(r)
          PROVE  Goto(r, Idle) \/ Goto(r, Push(None))
      BY <3>2 DEF HandleResult, HandleStatus, HandleHello, PeriodicPush
    <3> QED  BY <1>11, <3>1, <3>2 DEF Handle
  <2>2. CASE UNCHANGED proc
    BY <1>2, <2>2
  <2>3. ASSUME NEW g, Goto(r, g), g = Idle \/ g = Push(None)
                                    \/ g.pc \in {"start", "fail", "hello", "status", "result"}
        PROVE  \A q \in Procs : Sending(proc[q])'
    <3>1. Sending(g)'
      BY <2>3, NothingSent
    <3> QED  BY <1>3, <1>4, <2>3, <3>1
  <2> QED  BY <2>1, <2>2, <2>3
<1>12. ASSUME Startup PROVE \A q \in Procs : Sending(proc[q])'
  <2>1. PICK g : Goto("startup", g) /\ (g = Idle \/ g = Push(None))
    BY <1>12 DEF Startup
  <2>2. Sending(g)'
    BY <2>1, NothingSent
  <2> QED  BY <1>3, <1>4, <2>1, <2>2
<1>13. ASSUME RestartServer PROVE \A q \in Procs : Sending(proc[q])'
  BY <1>13 DEF RestartServer, Sending, Idle
<1>14. ASSUME \/ (\E c \in Configs : Edit(c)) \/ BeginReplay \/ WindowElapses
              \/ LoseSession \/ Connect
              \/ ApplyManifest \/ RefuseManifest \/ ApplyUnsaved \/ RestartNode
              \/ \E i \in BOOLEAN : ReportStatus(i)
              \/ RequestSync \/ UNCHANGED vars
       PROVE  UNCHANGED proc
  BY <1>14 DEF Edit, BeginReplay, WindowElapses, LoseSession, Connect,
    ApplyManifest, RefuseManifest, ApplyUnsaved, RestartNode, ReportStatus,
    RequestSync, server, vars, moving
<1> QED
  BY <1>2, <1>6, <1>7, <1>8, <1>9, <1>10, <1>11, <1>12, <1>13, <1>14 DEF Next, Step, Send

\* The events in the bus and in the round of the replay are on record.
LEMMA QueuesNext ==
  ASSUME TypeOK, Lasting, Changes, [Next]_vars
  PROVE  /\ \A i \in DOMAIN bus' : Known(bus[i])'
         /\ \A e \in replaying' : Known(e)'
<1>1. bus \in Seq(Events \cup {None})
  BY DEF TypeOK
<1>2. \A e : Known(e) => Known(e)'
  BY KnownStays
<1>3. \A i \in DOMAIN bus' : \E e : e = bus'[i] /\ (Known(e) \/ Known(e)')
  <2>1. ASSUME UNCHANGED bus \/ bus' = <<>>
        PROVE  \A i \in DOMAIN bus' : \E e : e = bus'[i] /\ (Known(e) \/ Known(e)')
    BY <2>1 DEF Changes
  <2>2. ASSUME NEW c \in Configs, Edit(c)
        PROVE  \A i \in DOMAIN bus' : \E e : e = bus'[i] /\ (Known(e) \/ Known(e)')
    <3>1. PICK x \in Events \cup {None} : Offer(x) /\ (x \in Events => outbox'[x].state = "PENDING")
      BY <2>2, Constants DEF Edit, TypeOK
    <3>2. Known(x)'
      BY <3>1 DEF Known
    <3>3. \A i \in DOMAIN bus' : (i \in DOMAIN bus /\ bus'[i] = bus[i]) \/ bus'[i] = x
      BY <1>1, <3>1 DEF Offer
    <3> QED  BY <3>2, <3>3 DEF Changes
  <2>3. ASSUME TakeChange
        PROVE  \A i \in DOMAIN bus' : \E e : e = bus'[i] /\ (Known(e) \/ Known(e)')
    <3>1. \A i \in DOMAIN bus' : i + 1 \in DOMAIN bus /\ bus'[i] = bus[i + 1]
      BY <1>1, <2>3 DEF TakeChange
    <3> QED  BY <3>1 DEF Changes
  <2>4. ASSUME NEW p \in Procs, Send(p) PROVE UNCHANGED bus
    BY <2>4 DEF Send, Snapshot, Persist, Publish, PublishRefused, Fail
  <2>5. ASSUME NEW r \in Readers, Handle(r) PROVE UNCHANGED bus
    BY <2>5 DEF Handle, Receive, HandleResult, HandleStatus, HandleHello
  <2>6. ASSUME \/ BeginReplay \/ Replay \/ WindowElapses \/ Startup
               \/ LoseSession \/ Connect \/ RestartServer
               \/ ApplyManifest \/ RefuseManifest \/ ApplyUnsaved \/ RestartNode
               \/ \E i \in BOOLEAN : ReportStatus(i)
               \/ RequestSync \/ UNCHANGED vars
        PROVE  UNCHANGED bus \/ bus' = <<>>
    BY <2>6 DEF BeginReplay, Replay, WindowElapses, Startup, LoseSession, Connect,
      RestartServer, ApplyManifest, RefuseManifest, ApplyUnsaved, RestartNode, ReportStatus,
      RequestSync, server, vars, moving
  <2> QED  BY <2>1, <2>2, <2>3, <2>4, <2>5, <2>6 DEF Next, Step
<1>4. \A i \in DOMAIN bus' : Known(bus[i])'
  <2> SUFFICES ASSUME NEW i \in DOMAIN bus' PROVE Known(bus[i])'
    OBVIOUS
  <2>1. PICK e : e = bus'[i] /\ Known(e)'
    BY <1>2, <1>3
  <2> QED  BY <2>1 DEF Known
<1>5. replaying' \subseteq replaying \cup Pending
  <2>1. ASSUME NEW p \in Procs, Send(p) PROVE UNCHANGED replaying
    BY <2>1 DEF Send, Snapshot, Persist, Publish, PublishRefused, Fail
  <2>2. ASSUME NEW r \in Readers, Handle(r) PROVE UNCHANGED replaying
    BY <2>2 DEF Handle, Receive, HandleResult, HandleStatus, HandleHello
  <2>3. ASSUME \/ \E c \in Configs : Edit(c)
               \/ TakeChange \/ BeginReplay \/ Replay \/ WindowElapses \/ Startup
               \/ LoseSession \/ Connect \/ RestartServer
               \/ ApplyManifest \/ RefuseManifest \/ ApplyUnsaved \/ RestartNode
               \/ \E i \in BOOLEAN : ReportStatus(i)
               \/ RequestSync \/ UNCHANGED vars
        PROVE  replaying' \subseteq replaying \cup Pending
    BY <2>3 DEF Edit, TakeChange, BeginReplay, Replay, WindowElapses, Startup, LoseSession, Connect,
      RestartServer, ApplyManifest, RefuseManifest, ApplyUnsaved, RestartNode, ReportStatus,
      RequestSync, server, vars, moving
  <2> QED  BY <2>1, <2>2, <2>3 DEF Next, Step
<1>6. \A e \in Pending : Known(e)
  BY DEF Pending, Known
<1>7. \A e \in replaying' : Known(e)'
  BY <1>2, <1>5, <1>6 DEF Changes
<1> QED  BY <1>4, <1>7

\* An event is marked by the goroutine whose snapshot contains it.
LEMMA OutboxNext ==
  ASSUME TypeOK, Lasting, Changes, [Next]_vars
  PROVE  (\A e \in Events : outbox'[e].edit <= edits') /\ ProcessedWasPushed'
<1>1. /\ edits \in Nat /\ edits' \in Nat /\ published \in Nat /\ published' \in Nat
      /\ \A e \in Events : outbox[e].edit \in Nat /\ outbox'[e].edit \in Nat
  <2>1. TypeOK'
    BY TypedNext
  <2>2. \A e \in Events : outbox[e].edit \in 0 .. MaxEdits
    BY DEF TypeOK
  <2>3. \A e \in Events : outbox'[e].edit \in 0 .. MaxEdits
    BY <2>1 DEF TypeOK
  <2>4. edits \in 0 .. MaxEdits /\ published \in 0 .. MaxEdits
    BY DEF TypeOK
  <2>5. edits' \in 0 .. MaxEdits /\ published' \in 0 .. MaxEdits
    BY <2>1 DEF TypeOK
  <2> QED  BY ONLY <2>2, <2>3, <2>4, <2>5
<1>2. ASSUME UNCHANGED outbox
      PROVE  (\A e \in Events : outbox'[e].edit <= edits') /\ ProcessedWasPushed'
  <2>1. \A e \in Events : outbox[e].edit <= edits'
    BY <1>1 DEF Lasting, Changes
  <2>2. \A e \in Events : outbox[e].state = "PROCESSED" => outbox[e].edit <= published'
    BY <1>1 DEF Lasting, Changes, ProcessedWasPushed
  <2> QED  BY <1>2, <2>1, <2>2 DEF ProcessedWasPushed
<1>3. ASSUME NEW c \in Configs, Edit(c)
      PROVE  (\A e \in Events : outbox'[e].edit <= edits') /\ ProcessedWasPushed'
  <2>1. edits' = edits + 1 /\ UNCHANGED published
    BY <1>3 DEF Edit, history
  <2>2. CASE UNCHANGED outbox
    BY <1>2, <2>2
  <2>3. CASE \E e \in Events : outbox' = [outbox EXCEPT ![e] = [state |-> "PENDING", edit |-> edits + 1]]
    <3>1. PICK e \in Events : outbox' = [outbox EXCEPT ![e] = [state |-> "PENDING", edit |-> edits + 1]]
      BY <2>3
    <3>2. outbox'[e].edit = edits + 1 /\ outbox'[e].state = "PENDING"
          /\ \A f \in Events \ {e} : outbox'[f] = outbox[f]
      BY <3>1 DEF TypeOK
    <3> QED  BY <1>1, <2>1, <3>2 DEF Changes, ProcessedWasPushed
  <2> QED  BY <1>3, <2>2, <2>3 DEF Edit
<1>4. ASSUME NEW p \in Procs, Publish(p)
      PROVE  (\A e \in Events : outbox'[e].edit <= edits') /\ ProcessedWasPushed'
  <2>1. proc[p] \in Goroutines /\ proc[p].pc = "publish" /\ Sending(proc[p])
    BY <1>4 DEF Publish, TypeOK, Changes
  <2>2. proc[p].edit \in Nat
    <3>1. proc[p].edit \in 0 .. MaxEdits
      BY <2>1, GoroutineKinds
    <3> QED  BY <3>1, Constants
  <2>3. published' >= proc[p].edit /\ published' >= published /\ UNCHANGED edits
    BY <1>1, <1>4, <2>2 DEF Publish
  <2>4. PICK x : x = proc[p].event
    OBVIOUS
  <2>5. outbox' = IF x \in Pending THEN [outbox EXCEPT ![x].state = "PROCESSED"] ELSE outbox
    BY <1>4, <2>4 DEF Publish, Acknowledged
  <2>6. \A e \in Events : /\ outbox'[e].edit = outbox[e].edit
                          /\ e = x \/ outbox'[e] = outbox[e]
    BY <2>5 DEF TypeOK
  <2>7. x \in Events => outbox[x].edit <= proc[p].edit
    BY <2>1, <2>4 DEF Sending
  <2>8. ASSUME NEW e \in Events, outbox'[e].state = "PROCESSED" PROVE outbox'[e].edit <= published'
    <3>1. CASE e = x
      BY <1>1, <2>2, <2>3, <2>6, <2>7, <3>1
    <3>2. CASE e # x
      BY <1>1, <2>3, <2>6, <2>8, <3>2 DEF Changes, ProcessedWasPushed
    <3> QED  BY <3>1, <3>2
  <2> QED  BY <1>1, <2>3, <2>6, <2>8 DEF Changes, ProcessedWasPushed
<1>5. UNCHANGED outbox \/ (\E c \in Configs : Edit(c)) \/ (\E p \in Procs : Publish(p))
  <2>1. ASSUME NEW p \in Procs, Send(p), ~Publish(p) PROVE UNCHANGED outbox
    BY <2>1 DEF Send, Snapshot, Persist, PublishRefused, Fail
  <2>2. ASSUME NEW r \in Readers, Handle(r) PROVE UNCHANGED outbox
    BY <2>2 DEF Handle, Receive, HandleResult, HandleStatus, HandleHello
  <2>3. ASSUME \/ TakeChange \/ BeginReplay \/ Replay \/ WindowElapses \/ Startup
               \/ LoseSession \/ Connect \/ RestartServer
               \/ ApplyManifest \/ RefuseManifest \/ ApplyUnsaved \/ RestartNode
               \/ \E i \in BOOLEAN : ReportStatus(i)
               \/ RequestSync \/ UNCHANGED vars
        PROVE  UNCHANGED outbox
    BY <2>3 DEF TakeChange, BeginReplay, Replay, WindowElapses, Startup, LoseSession, Connect,
      RestartServer, ApplyManifest, RefuseManifest, ApplyUnsaved, RestartNode, ReportStatus,
      RequestSync, server, vars, moving
  <2> QED  BY <2>1, <2>2, <2>3 DEF Next, Step
<1> QED  BY <1>2, <1>3, <1>4, <1>5

\* What is known of durable changes is true after every step.
LEMMA ChangesNext ==
  ASSUME TypeOK, Changes, [Next]_vars
  PROVE  Changes'
<1>1. Lasting
  BY LastingNext
<1> QED  BY <1>1, SendingNext, QueuesNext, OutboxNext DEF Changes

-----------------------------------------------------------------------------
(* The theorems.                                                           *)

\* The invariant holds at the start.
LEMMA InvariantInit == Init => IInv
<1> SUFFICES ASSUME Init PROVE IInv
  OBVIOUS
<1> USE Constants
<1> DEFINE m == [version |-> First, sync |-> 1]
<1>1. /\ config = First /\ edits = 0
      /\ node = [version |-> First, sync |-> 1, state |-> "in_sync", status |-> "applied"]
      /\ outbox = [e \in Events |-> [state |-> "none", edit |-> 0]]
      /\ bus = <<>> /\ replaying = {} /\ open = TRUE
      /\ proc = [p \in Procs |-> Idle]
      /\ link = TRUE /\ reader = "reader1" /\ down = <<>> /\ up = <<>>
      /\ device = [active |-> m, known |-> First]
      /\ applied = {m} /\ published = 0
      /\ losses = 0 /\ faults = 0 /\ prompt \in BOOLEAN
  BY DEF Init
<1>2. m \in Manifests
  BY DEF Manifests
<1>3. node \in Rows
  BY <1>1 DEF Rows
<1>4. proc \in [Procs -> Goroutines]
  BY <1>1, Goroutine
<1>5. /\ outbox \in [Events -> [state : {"none", "PENDING", "PROCESSED"}, edit : 0 .. MaxEdits]]
      /\ device \in [active : Manifests \cup {NoManifest}, known : Configs \cup {None}]
  BY <1>1, <1>2
<1>6. /\ bus \in Seq(Events \cup {None}) /\ Len(bus) <= BusSize
      /\ down \in Seq(Manifests) /\ Len(down) <= WireSize /\ up \in Seq(Messages)
  BY <1>1
<1>7. open \in BOOLEAN /\ link \in BOOLEAN
  BY <1>1
<1>8. TypeOK
  BY <1>1, <1>2, <1>3, <1>4, <1>5, <1>6, <1>7 DEF TypeOK, Readers
<1>9. Records
  BY <1>1, Unhandled DEF Records, RowTrue
<1>10. Changes
  BY <1>1 DEF Changes, ProcessedWasPushed, Sending, Idle
<1> QED  BY <1>8, <1>9, <1>10 DEF IInv

\* Every step keeps the invariant.
LEMMA InvariantStep == IInv /\ [Next]_vars => IInv'
BY TypedNext, RecordsNext, ChangesNext DEF IInv

\* What rows, messages, readers and durable changes say holds in every reachable
\* state (sync_gate.go, sender.go, handler_config.go, handler_status.go).
THEOREM Invariance == Spec => []IInv
<1> QED  BY InvariantInit, InvariantStep, PTL DEF Spec

\* The row, the goroutines, the messages and the node keep their types.
THEOREM TypeCorrect == Spec => []TypeOK
<1>1. IInv => TypeOK
  BY DEF IInv
<1> QED  BY <1>1, Invariance, PTL

\* "in_sync" is said only of a generation the node has committed.
THEOREM InSyncTrue == Spec => []InSyncIsApplied
<1>1. IInv => InSyncIsApplied
  BY DEF IInv, Records, RowTrue, InSyncIsApplied
<1> QED  BY <1>1, Invariance, PTL

\* No row is in sync and failed at once.
THEOREM ColumnsAgree == Spec => []NoContradiction
<1>1. IInv => NoContradiction
  BY DEF IInv, Records, RowTrue, NoContradiction
<1> QED  BY <1>1, Invariance, PTL

\* A durable change is marked only when a manifest that contains it was handed to
\* a session.
THEOREM ChangesPushed == Spec => []ProcessedWasPushed
<1>1. IInv => ProcessedWasPushed
  BY DEF IInv, Changes
<1> QED  BY <1>1, Invariance, PTL

=============================================================================
