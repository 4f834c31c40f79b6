------------------------- MODULE ControlSlotsProofs -------------------------
(***************************************************************************)
(* Proofs about the control slots, for any number of slots, commands, ids,  *)
(* buses, receiving tasks and configuration changes.  IInv is the inductive *)
(* invariant: what the receivers rely on between their steps (ReceiverOK,   *)
(* LockOK, AdmitOK, ClaimOK), what a suspension guarantees (ParkedOK), what *)
(* the descriptors carry (ResultOK) and the safety invariants themselves.   *)
(***************************************************************************)
EXTENDS ControlSlots, FiniteSetTheorems, TLAPS

\* A receiver that is at work has a command.
ReceiverOK == \A r \in Receivers : receiver[r].step # "idle" => receiver[r].cmd \in Cmds

\* One receiver at a time scans the slots.
LockOK ==
    \A q, r \in Receivers :
        receiver[q].step \in {"scan", "claim"} /\ receiver[r].step \in {"scan", "claim"} => q = r

\* The slot a receiver has prepared is not in use, and no other slot holds a
\* command of the same id.
ClaimOK ==
    \A r \in Receivers : receiver[r].step = "claim" =>
        /\ cmd[receiver[r].slot] = receiver[r].cmd
        /\ state[receiver[r].slot] \in {"FREE", "FINAL"}
        /\ \A t \in Slots :
              t # receiver[r].slot /\ state[t] # "FREE" => IdOf[cmd[t]] # IdOf[receiver[r].cmd]

\* The slot a receiver is about to hand to its bus is that receiver's alone.
AdmitOK ==
    \A r \in Receivers : receiver[r].step = "admit" =>
        /\ cmd[receiver[r].slot] = receiver[r].cmd
        /\ state[receiver[r].slot] = "QUEUED"
        /\ \A d \in descs : d.slot # receiver[r].slot
        /\ \A q \in Receivers : receiver[q].step = "admit" /\ receiver[q].slot = receiver[r].slot => q = r

\* A result on its way is that of the descriptor's command.
ResultOK == \A d \in descs : d.place \in {"final", "report"} => d.result.of = d.cmd

\* A parked worker has nothing in its hands, and once a bus has been drained no
\* response is pending there until the buses are torn down.
ParkedOK ==
    /\ \A d \in descs : d.place = "worker" => BusOf[d.cmd] \notin parked
    /\ config = "draining" => parked = Buses
    /\ config = "draining" => \A d \in descs : d.place = "pending" => BusOf[d.cmd] \notin drained

\* A command that has a slot and has been neither executed nor refused in it.
Waiting(c) ==
    \/ \E d \in descs : d.cmd = c /\ d.place \in {"queue", "worker"}
    \/ \E r \in Receivers : receiver[r].cmd = c /\ receiver[r].step \in {"claim", "admit"}

\* Every slot a command was given is accounted for.
CountOK ==
    \A c \in Cmds :
        executed[c] + refused[c] + (IF Waiting(c) THEN 1 ELSE 0) <= reserved[c]

IInv ==
    /\ TypeOK /\ ReceiverOK /\ LockOK /\ ClaimOK /\ AdmitOK /\ ResultOK /\ ParkedOK
    /\ SlotHeld /\ UniqueCommand /\ StoredFinalIsOwn /\ NoneForgotten /\ CountOK

----------------------------------------------------------------------------
(* The queue of finals has room.                                            *)

\* Each descriptor holds a slot of its own: when one is not in the queue of
\* finals that queue is shorter than the number of slots, so queue_control_final
\* never drops a final.
LEMMA FinalRoom ==
    ASSUME TypeOK, SlotHeld, NEW d \in descs, d.place # "final"
    PROVE  Cardinality({e \in descs : e.place = "final"}) < FinalDepth
<1> DEFINE F == {e \in descs : e.place = "final"}
           G == F \cup {d}
           f == [e \in G |-> e.slot]
<1>1. G \subseteq descs /\ d \notin F
  OBVIOUS
<1>2. f \in Injection(G, Slots)
  <2>1. \A e \in G : e.slot \in Slots
    BY <1>1 DEF TypeOK, Descs
  <2>2. \A x, y \in G : f[x] = f[y] => x = y
    BY <1>1 DEF SlotHeld
  <2> QED BY <2>1, <2>2 DEF Injection, IsInjective
<1>3. IsFiniteSet(Slots) /\ Cardinality(Slots) = SlotCount
  <2>1. SlotCount \in Nat \ {0}
    BY DepthAssumption
  <2> QED BY <2>1, FS_Interval, SMT DEF Slots
<1>4. IsFiniteSet(G) /\ Cardinality(G) <= SlotCount
  BY <1>2, <1>3, FS_Injection
<1>5. IsFiniteSet(F) /\ G = F \cup {d}
  BY <1>4, FS_Subset
<1>6. Cardinality(G) = Cardinality(F) + 1
  BY <1>1, <1>5, FS_AddElement
<1>7. Cardinality(F) \in Nat
  BY <1>5, FS_CardinalityType
<1> QED BY <1>4, <1>6, <1>7, DepthAssumption

\* Descriptor d is given place p and, perhaps, a result.
Advance(d, p, res) ==
    /\ d \in descs /\ d.place \in {"queue", "worker", "pending"}
    /\ p \in {"worker", "pending", "final"}
    /\ res \in Results
    /\ p = "final" => res.of = d.cmd
    /\ descs' = (descs \ {d}) \cup {[d EXCEPT !.place = p, !.result = res]}

\* So a worker, rx_task and discard_queued move a descriptor and lose none.
LEMMA Finishing ==
    ASSUME TypeOK, SlotHeld, NEW d \in descs, d.place \in {"queue", "worker", "pending"},
           NEW res \in Results, res.of = d.cmd, Finish(d, res)
    PROVE  Advance(d, "final", res)
<1>1. Cardinality({e \in descs : e.place = "final"}) < FinalDepth
  BY FinalRoom
<1> QED BY <1>1 DEF Finish, Advance

\* Moving a descriptor on without a result.
LEMMA Moving ==
    ASSUME TypeOK, NEW d \in descs, d.place \in {"queue", "worker", "pending"},
           NEW p \in {"worker", "pending"}, descs' = Moved(d, p)
    PROVE  Advance(d, p, d.result)
<1>1. d \in Descs
  BY DEF TypeOK
<1>2. [d EXCEPT !.place = p] = [d EXCEPT !.place = p, !.result = d.result]
  BY <1>1 DEF Descs
<1> QED BY <1>1, <1>2 DEF Moved, Advance, Descs

\* Every worker action moves one descriptor and touches no slot and no receiver.
WorkerMoves ==
    /\ \E d \in descs, p \in Places, res \in Results : Advance(d, p, res)
    /\ UNCHANGED <<slotVars, receiver>>

LEMMA WorkerStep ==
    ASSUME TypeOK, SlotHeld, NEW b \in Buses,
           Take(b) \/ GiveUp(b) \/ Execute(b) \/ Answer(b) \/ Discard(b)
    PROVE  WorkerMoves
<1>1. UNCHANGED <<slotVars, receiver>>
  BY DEF Take, GiveUp, Execute, Answer, Discard, workerUnchanged, configUnchanged
<1>2. \A d \in descs : d \in Descs /\ d.result \in Results /\ d.cmd \in Cmds
  BY DEF TypeOK, Descs
<1>3. \A c \in Cmds : Failed(c) \in Results /\ Failed(c).of = c
  BY DEF Failed, Results
<1>4. {"worker", "pending", "final"} \subseteq Places
  BY DEF Places
<1>5. CASE Take(b)
  <2>1. PICK d \in At("queue", b) : descs' = Received(d)
    BY <1>5 DEF Take
  <2>2. d \in descs /\ d.place = "queue" /\ descs' = Moved(d, "worker")
    BY <2>1 DEF At, Received
  <2>3. Advance(d, "worker", d.result)
    BY <2>2, Moving
  <2> QED BY <1>1, <1>2, <1>4, <2>2, <2>3 DEF WorkerMoves
<1>6. CASE GiveUp(b)
  <2>1. PICK d \in At("worker", b) : Finish(d, Failed(d.cmd))
    BY <1>6 DEF GiveUp
  <2>2. d \in descs /\ d.place = "worker"
    BY <2>1 DEF At
  <2>3. Advance(d, "final", Failed(d.cmd))
    BY <1>2, <1>3, <2>1, <2>2, Finishing
  <2> QED BY <1>1, <1>2, <1>3, <1>4, <2>2, <2>3 DEF WorkerMoves
<1>7. CASE Execute(b)
  <2>1. PICK d \in At("worker", b) :
           LET c == IF Borrows(d) THEN cmd[d.slot] ELSE d.cmd IN
           \/ \E ok \in BOOLEAN : Finish(d, [of |-> c, ok |-> ok])
           \/ descs' = Moved(d, "pending")
    BY <1>7 DEF Execute
  <2>2. d \in descs /\ d.place = "worker" /\ cmd[d.slot] = d.cmd
    BY <2>1 DEF At, SlotHeld
  <2>3. CASE descs' = Moved(d, "pending")
    <3>1. Advance(d, "pending", d.result)
      BY <2>2, <2>3, Moving
    <3> QED BY <1>1, <1>2, <1>4, <2>2, <3>1 DEF WorkerMoves
  <2>4. CASE \E ok \in BOOLEAN : Finish(d, [of |-> d.cmd, ok |-> ok])
    <3>1. PICK ok \in BOOLEAN : Finish(d, [of |-> d.cmd, ok |-> ok])
      BY <2>4
    <3>2. [of |-> d.cmd, ok |-> ok] \in Results
      BY <1>2, <2>2 DEF Results
    <3>3. Advance(d, "final", [of |-> d.cmd, ok |-> ok])
      BY <2>2, <3>1, <3>2, Finishing
    <3> QED BY <1>1, <1>4, <2>2, <3>2, <3>3 DEF WorkerMoves
  <2> QED BY <2>1, <2>2, <2>3, <2>4
<1>8. CASE Answer(b)
  <2>1. PICK d \in At("pending", b), ok \in BOOLEAN : Finish(d, [of |-> d.cmd, ok |-> ok])
    BY <1>8 DEF Answer
  <2>2. d \in descs /\ d.place = "pending" /\ [of |-> d.cmd, ok |-> ok] \in Results
    BY <1>2, <2>1 DEF At, Results
  <2>3. Advance(d, "final", [of |-> d.cmd, ok |-> ok])
    BY <2>1, <2>2, Finishing
  <2> QED BY <1>1, <1>4, <2>2, <2>3 DEF WorkerMoves
<1>9. CASE Discard(b)
  <2>1. PICK d \in Discardable(b) : Finish(d, Failed(d.cmd))
    BY <1>9 DEF Discard
  <2>2. d \in descs /\ d.place \in {"queue", "pending"}
    BY <2>1 DEF Discardable, At
  <2>3. Advance(d, "final", Failed(d.cmd))
    BY <1>2, <1>3, <2>1, <2>2, Finishing
  <2> QED BY <1>1, <1>2, <1>3, <1>4, <2>2, <2>3 DEF WorkerMoves
<1> QED BY <1>5, <1>6, <1>7, <1>8, <1>9

----------------------------------------------------------------------------
(* The kinds of steps, as far as slots and descriptors are concerned.       *)

\* No slot and no descriptor changes, and no receiver enters or leaves the steps
\* in which it owns a slot.
Quiet ==
    /\ UNCHANGED <<state, cmd, result, descs>>
    /\ \A r \in Receivers :
          \/ receiver'[r] = receiver[r]
          \/ /\ receiver[r].step \notin {"claim", "admit"}
             /\ receiver'[r].step \notin {"claim", "admit"}

\* The lock holder r prepares slot s, which is not in use, for a new command.
Prepares(r, s) ==
    /\ receiver[r].step = "scan"
    /\ SameId(receiver[r].cmd) = {}
    /\ state[s] \in {"FREE", "FINAL"}
    /\ PrepareSlot(r, s)
    /\ UNCHANGED descs

\* reserve_slot ends in a slot or leaves the slots alone.
LEMMA ReserveCases ==
    ASSUME TypeOK, NEW r \in Receivers, Reserve(r)
    PROVE  Quiet \/ \E s \in Slots : Prepares(r, s)
<1>1. receiver[r].step = "scan" /\ receiver \in [Receivers -> Work] /\ UNCHANGED descs
  BY DEF TypeOK, Reserve
<1> DEFINE c == receiver[r].cmd
<1>2. CASE \E s \in Slots : First(Unused, s) /\ SameId(c) = {} /\ PrepareSlot(r, s)
  <2>1. PICK s \in Slots : First(Unused, s) /\ SameId(c) = {} /\ PrepareSlot(r, s)
    BY <1>2
  <2>2. state[s] = "FREE"
    BY <2>1 DEF First, Unused
  <2> QED BY <1>1, <2>1, <2>2 DEF Prepares
<1>3. CASE \E F \in SUBSET Finished, s \in Slots : SameId(c) = {} /\ Oldest(F, s) /\ PrepareSlot(r, s)
  <2>1. PICK F \in SUBSET Finished, s \in Slots : SameId(c) = {} /\ Oldest(F, s) /\ PrepareSlot(r, s)
    BY <1>3
  <2>2. state[s] = "FINAL"
    BY <2>1 DEF Oldest, Finished
  <2> QED BY <1>1, <2>1, <2>2 DEF Prepares
<1>4. CASE UNCHANGED slotVars /\ \E s \in Slots :
              receiver' = [receiver EXCEPT ![r] = [step |-> "replay", cmd |-> c, slot |-> s, seen |-> {}]]
  <2>1. receiver'[r].step = "replay" /\ \A q \in Receivers : q # r => receiver'[q] = receiver[q]
    BY <1>1, <1>4
  <2> QED BY <1>1, <1>4, <2>1 DEF Quiet, slotVars
<1>5. CASE UNCHANGED slotVars /\ receiver' = [receiver EXCEPT ![r] = Idle]
  <2>1. receiver'[r].step = "idle" /\ \A q \in Receivers : q # r => receiver'[q] = receiver[q]
    BY <1>1, <1>5 DEF Idle
  <2> QED BY <1>1, <1>5, <2>1 DEF Quiet, slotVars
<1> QED BY <1>2, <1>3, <1>4, <1>5 DEF Reserve

\* A delivery, and the answer to a replay, leave the slots alone.
LEMMA ReceiverQuiet ==
    ASSUME TypeOK, NEW r \in Receivers, (\E c \in Cmds : Deliver(r, c)) \/ Replay(r) \/ Resend(r)
    PROVE  Quiet
<1>1. receiver \in [Receivers -> Work] /\ Idle.step = "idle"
  BY DEF TypeOK, Idle
<1>2. ASSUME NEW c \in Cmds, Deliver(r, c) PROVE Quiet
  <2>1. receiver[r].step = "idle" /\ UNCHANGED <<state, cmd, result, descs>>
    BY <1>1, <1>2 DEF Deliver, slotVars
  <2>2. receiver'[r].step \in {"idle", "scan"}
    <3>1. CASE UNCHANGED receiver
      BY <2>1, <3>1
    <3>2. CASE receiver' = [receiver EXCEPT ![r] = [step |-> "scan", cmd |-> c, slot |-> 1, seen |-> Finished]]
      BY <1>1, <3>2
    <3> QED BY <1>2, <3>1, <3>2 DEF Deliver
  <2>3. \A q \in Receivers : q # r => receiver'[q] = receiver[q]
    BY <1>1, <1>2 DEF Deliver
  <2> QED BY <2>1, <2>2, <2>3 DEF Quiet
<1>3. CASE Replay(r) \/ Resend(r)
  <2>1. receiver[r].step \in {"replay", "resend"} /\ UNCHANGED <<state, cmd, result, descs>>
    BY <1>3 DEF Replay, Resend, slotVars
  <2>2. receiver'[r] \in {Idle, [receiver[r] EXCEPT !.step = "resend"]}
    BY <1>1, <1>3 DEF Replay, Resend
  <2>3. receiver'[r].step \in {"idle", "resend"}
    BY <1>1, <2>2 DEF Work, Idle
  <2>4. \A q \in Receivers : q # r => receiver'[q] = receiver[q]
    BY <1>1, <1>3 DEF Replay, Resend
  <2> QED BY <2>1, <2>3, <2>4 DEF Quiet
<1> QED BY <1>2, <1>3

\* Each step is of one of these kinds.
LEMMA NextCases ==
    ASSUME TypeOK, SlotHeld, [Next]_vars
    PROVE  \/ Quiet \/ WorkerMoves \/ Complete \/ Store \/ Apply
           \/ \E r \in Receivers : Claim(r) \/ Admit(r) \/ \E s \in Slots : Prepares(r, s)
<1>1. receiver \in [Receivers -> Work] /\ Idle.step = "idle"
  BY DEF TypeOK, Idle
<1>2. ASSUME NEW r \in Receivers, (\E c \in Cmds : Deliver(r, c)) \/ Replay(r) \/ Resend(r) PROVE Quiet
  BY <1>2, ReceiverQuiet
<1>4. ASSUME NEW r \in Receivers, Reserve(r) PROVE Quiet \/ \E s \in Slots : Prepares(r, s)
  BY <1>4, ReserveCases
<1>5. CASE PublishFinal \/ Suspend \/ ParkRx \/ BeginDrain \/ Resume
  BY <1>5 DEF PublishFinal, Suspend, ParkRx, BeginDrain, Resume, configUnchanged, Quiet, slotVars
<1>6. ASSUME NEW b \in Buses, Park(b) \/ Drained(b) PROVE Quiet
  BY <1>6 DEF Park, Drained, configUnchanged, Quiet, slotVars
<1>7. CASE UNCHANGED vars
  BY <1>7 DEF vars, Quiet, slotVars
<1> QED
  BY <1>2, <1>4, <1>5, <1>6, <1>7, WorkerStep
  DEF Next, Receive, Worker, Report, Configure

\* Descriptor n takes the place of d: same slot, same command.
Replaces(d, n) ==
    /\ d.place \in {"queue", "worker", "pending"}
    /\ n.place \in {"worker", "pending", "final"}
    /\ n.slot = d.slot /\ n.cmd = d.cmd
    /\ n.place = "final" => n.result.of = n.cmd
    /\ descs' = (descs \ {d}) \cup {n}

\* What a worker, rx_task or discard_queued does to a descriptor.
LEMMA Replacing ==
    ASSUME TypeOK, WorkerMoves
    PROVE  \E d \in descs, n \in Descs : Replaces(d, n)
<1>1. PICK d \in descs, p \in Places, res \in Results : Advance(d, p, res)
  BY DEF WorkerMoves
<1> DEFINE n == [d EXCEPT !.place = p, !.result = res]
<1>2. d \in Descs
  BY DEF TypeOK
<1>3. n.place = p /\ n.slot = d.slot /\ n.cmd = d.cmd /\ n.result = res
  BY <1>2 DEF Descs
<1>4. n \in Descs
  BY <1>2 DEF Descs
<1>5. /\ d.place \in {"queue", "worker", "pending"} /\ p \in {"worker", "pending", "final"}
      /\ p = "final" => res.of = d.cmd
      /\ descs' = (descs \ {d}) \cup {n}
  BY <1>1 DEF Advance
<1> HIDE DEF n
<1>6. Replaces(d, n)
  BY <1>3, <1>5 DEF Replaces
<1> QED BY <1>1, <1>4, <1>6

\* In the report task a descriptor is alone and its slot QUEUED: none is dropped.
LEMMA Completing ==
    ASSUME TypeOK, SlotHeld, Complete
    PROVE  \E d \in descs, n \in Descs :
              /\ d.place = "final" /\ n.place = "report"
              /\ n.slot = d.slot /\ n.cmd = d.cmd /\ n.result = d.result
              /\ descs' = (descs \ {d}) \cup {n}
              /\ state' = [state EXCEPT ![d.slot] = "COMPLETING"]
<1>1. PICK d \in descs :
         /\ d.place = "final"
         /\ state[d.slot] = "QUEUED" =>
               /\ state' = [state EXCEPT ![d.slot] = "COMPLETING"]
               /\ descs' = Moved(d, "report")
  BY DEF Complete
<1> DEFINE n == [d EXCEPT !.place = "report"]
<1>2. d \in Descs
  BY DEF TypeOK
<1>3. n = [place |-> "report", slot |-> d.slot, cmd |-> d.cmd, result |-> d.result]
  BY <1>2 DEF Descs
<1>4. n \in Descs
  BY <1>2, <1>3 DEF Descs, Places
<1>5. state[d.slot] = "QUEUED"
  BY <1>1 DEF SlotHeld
<1> QED BY <1>1, <1>3, <1>4, <1>5 DEF Moved

----------------------------------------------------------------------------
(* What each kind of step leaves true.                                      *)

\* A slot stays with its descriptor: reserve_slot takes only slots that are FREE
\* or FINAL, and those have none.
LEMMA HeldStep ==
    ASSUME IInv, [Next]_vars
    PROVE  SlotHeld'
<1> USE DEF SlotHeld
<1>1. TypeOK /\ ClaimOK /\ AdmitOK /\ SlotHeld /\ ReceiverOK
  BY DEF IInv
<1>2. /\ state \in [Slots -> SlotStates] /\ cmd \in [Slots -> Cmds \cup {NoCmd}]
      /\ receiver \in [Receivers -> Work]
      /\ \A d \in descs : d.slot \in Slots /\ d \in Descs
  BY <1>1 DEF TypeOK, Descs
<1>3. CASE Quiet
  BY <1>1, <1>3 DEF Quiet
<1>4. CASE WorkerMoves
  <2>1. PICK d \in descs, n \in Descs : Replaces(d, n)
    BY <1>1, <1>4, Replacing
  <2>2. UNCHANGED <<state, cmd>>
    BY <1>4 DEF WorkerMoves, slotVars
  <2> QED BY <1>1, <2>1, <2>2 DEF Replaces
<1>5. CASE Complete
  <2>1. PICK d \in descs, n \in Descs :
              /\ d.place = "final" /\ n.place = "report"
              /\ n.slot = d.slot /\ n.cmd = d.cmd
              /\ descs' = (descs \ {d}) \cup {n}
              /\ state' = [state EXCEPT ![d.slot] = "COMPLETING"]
    BY <1>1, <1>5, Completing
  <2>2. UNCHANGED cmd
    BY <1>5 DEF Complete
  <2> QED BY <1>1, <1>2, <2>1, <2>2
<1>6. CASE Store
  <2>1. PICK d \in descs :
              /\ state' = [state EXCEPT ![d.slot] = "FINAL"]
              /\ descs' = descs \ {d}
    BY <1>6 DEF Store
  <2>2. UNCHANGED cmd
    BY <1>6 DEF Store
  <2> QED BY <1>1, <1>2, <2>1, <2>2
<1>7. CASE Apply
  <2>1. descs' \subseteq descs /\ UNCHANGED <<state, cmd>>
    BY <1>7 DEF Apply, configUnchanged, slotVars
  <2> QED BY <1>1, <2>1
<1>8. ASSUME NEW r \in Receivers, Claim(r) PROVE SlotHeld'
  <2>1. \A d \in descs : d.slot # receiver[r].slot
    BY <1>1, <1>8 DEF ClaimOK, Claim
  <2>2. state' = [state EXCEPT ![receiver[r].slot] = ClaimedState] /\ UNCHANGED <<cmd, descs>>
    BY <1>8 DEF Claim
  <2> QED BY <1>1, <1>2, <2>1, <2>2
<1>9. ASSUME NEW r \in Receivers, Admit(r) PROVE SlotHeld'
  <2> DEFINE s == receiver[r].slot
             n == [place |-> "queue", slot |-> s, cmd |-> receiver[r].cmd, result |-> NoResult]
  <2>1. \A d \in descs : d.slot # s
    BY <1>1, <1>9 DEF AdmitOK, Admit
  <2>2. state[s] = "QUEUED" /\ cmd[s] = receiver[r].cmd /\ UNCHANGED cmd
    BY <1>1, <1>9 DEF AdmitOK, Admit
  <2>3. CASE descs' = descs \cup {n} /\ UNCHANGED state
    BY <1>1, <2>1, <2>2, <2>3
  <2>4. CASE descs' = descs /\ state' = [state EXCEPT ![s] = "FINAL"]
    BY <1>1, <1>2, <2>1, <2>2, <2>4
  <2> QED BY <1>9, <2>3, <2>4 DEF Admit
<1>10. ASSUME NEW r \in Receivers, NEW s \in Slots, Prepares(r, s) PROVE SlotHeld'
  <2>1. \A d \in descs : d.slot # s
    BY <1>1, <1>10 DEF Prepares
  <2>2. cmd' = [cmd EXCEPT ![s] = receiver[r].cmd] /\ UNCHANGED <<state, descs>>
    BY <1>10 DEF Prepares, PrepareSlot
  <2> QED BY <1>1, <1>2, <2>1, <2>2
<1> QED BY <1>1, <1>3, <1>4, <1>5, <1>6, <1>7, <1>8, <1>9, <1>10, NextCases

\* A descriptor is given its own command's result, and keeps it.
LEMMA ResultStep ==
    ASSUME IInv, [Next]_vars
    PROVE  ResultOK'
<1> USE DEF ResultOK
<1>1. TypeOK /\ SlotHeld /\ ResultOK
  BY DEF IInv
<1>2. CASE Quiet
  BY <1>1, <1>2 DEF Quiet
<1>3. CASE WorkerMoves
  <2>1. PICK d \in descs, n \in Descs : Replaces(d, n)
    BY <1>1, <1>3, Replacing
  <2> QED BY <1>1, <2>1 DEF Replaces
<1>4. CASE Complete
  <2>1. PICK d \in descs, n \in Descs :
              /\ d.place = "final" /\ n.cmd = d.cmd /\ n.result = d.result
              /\ descs' = (descs \ {d}) \cup {n}
    BY <1>1, <1>4, Completing
  <2> QED BY <1>1, <2>1
<1>5. CASE Store \/ Apply
  <2>1. descs' \subseteq descs
    BY <1>5 DEF Store, Apply
  <2> QED BY <1>1, <2>1
<1>6. ASSUME NEW r \in Receivers, Claim(r) \/ Admit(r) \/ \E s \in Slots : Prepares(r, s)
      PROVE  ResultOK'
  BY <1>1, <1>6 DEF Claim, Admit, Prepares
<1> QED BY <1>1, <1>2, <1>3, <1>4, <1>5, <1>6, NextCases

\* What a step may do to the receivers: one of them goes idle, takes the lock with
\* a command, or goes on with the command it has.
ReceiverMoves ==
    \/ UNCHANGED receiver
    \/ \E r \in Receivers :
          /\ \A q \in Receivers : q # r => receiver'[q] = receiver[q]
          /\ \/ receiver'[r].step = "idle"
             \/ LockFree /\ receiver'[r].step = "scan" /\ receiver'[r].cmd \in Cmds
             \/ /\ receiver'[r].cmd = receiver[r].cmd
                /\ receiver[r].step # "idle"
                /\ receiver'[r].step \in {"claim"} => receiver[r].step = "scan"
                /\ receiver'[r].step \in {"claim", "admit", "replay", "resend"}

\* Every step moves the receivers in this way.
LEMMA ReceiverCases ==
    ASSUME TypeOK, [Next]_vars
    PROVE  ReceiverMoves
<1>1. receiver \in [Receivers -> Work] /\ Idle.step = "idle"
  BY DEF TypeOK, Idle
<1>2. ASSUME NEW r \in Receivers, NEW c \in Cmds, Deliver(r, c) PROVE ReceiverMoves
  <2>1. CASE UNCHANGED receiver
    BY <2>1 DEF ReceiverMoves
  <2>2. CASE /\ LockFree
             /\ receiver' = [receiver EXCEPT ![r] = [step |-> "scan", cmd |-> c, slot |-> 1, seen |-> Finished]]
    BY <1>1, <2>2 DEF ReceiverMoves
  <2> QED BY <1>2, <2>1, <2>2 DEF Deliver
<1>3. ASSUME NEW r \in Receivers, Reserve(r) PROVE ReceiverMoves
  <2>1. CASE \E s \in Slots : PrepareSlot(r, s)
    <3>1. PICK s \in Slots : receiver' = [receiver EXCEPT ![r] = [@ EXCEPT !.step = "claim", !.slot = s]]
      BY <2>1 DEF PrepareSlot
    <3>2. receiver'[r].step = "claim" /\ receiver'[r].cmd = receiver[r].cmd
      BY <1>1, <3>1 DEF Work
    <3> QED BY <1>1, <1>3, <3>1, <3>2 DEF Reserve, ReceiverMoves
  <2>2. CASE receiver' = [receiver EXCEPT ![r] = Idle]
    BY <1>1, <2>2 DEF ReceiverMoves
  <2>3. CASE \E s \in Slots : receiver' =
               [receiver EXCEPT ![r] = [step |-> "replay", cmd |-> receiver[r].cmd, slot |-> s, seen |-> {}]]
    BY <1>1, <1>3, <2>3 DEF Reserve, ReceiverMoves
  <2> QED BY <1>3, <2>1, <2>2, <2>3 DEF Reserve
<1>4. ASSUME NEW r \in Receivers, Claim(r) PROVE ReceiverMoves
  <2>1. receiver' = [receiver EXCEPT ![r] = [@ EXCEPT !.step = "admit", !.seen = {}]]
    BY <1>4 DEF Claim
  <2>2. receiver'[r].step = "admit" /\ receiver'[r].cmd = receiver[r].cmd
    BY <1>1, <2>1 DEF Work
  <2> QED BY <1>1, <1>4, <2>1, <2>2 DEF Claim, ReceiverMoves
<1>5. ASSUME NEW r \in Receivers, Admit(r) \/ Resend(r) PROVE ReceiverMoves
  <2>1. receiver' = [receiver EXCEPT ![r] = Idle]
    BY <1>5 DEF Admit, Resend
  <2> QED BY <1>1, <2>1 DEF ReceiverMoves
<1>6. ASSUME NEW r \in Receivers, Replay(r) PROVE ReceiverMoves
  <2>1. receiver[r].step = "replay" /\ receiver'[r] \in {Idle, [receiver[r] EXCEPT !.step = "resend"]}
    BY <1>1, <1>6 DEF Replay
  <2>2. \A q \in Receivers : q # r => receiver'[q] = receiver[q]
    BY <1>1, <1>6 DEF Replay
  <2>3. CASE receiver'[r] = Idle
    BY <1>1, <2>2, <2>3 DEF ReceiverMoves
  <2>4. CASE receiver'[r] = [receiver[r] EXCEPT !.step = "resend"]
    <3>1. receiver'[r].step = "resend" /\ receiver'[r].cmd = receiver[r].cmd
      BY <1>1, <2>4 DEF Work
    <3> QED BY <2>1, <2>2, <3>1 DEF ReceiverMoves
  <2> QED BY <2>1, <2>3, <2>4
<1>7. ASSUME NEW b \in Buses, Worker(b) \/ Answer(b) PROVE ReceiverMoves
  BY <1>7 DEF Worker, Take, GiveUp, Execute, Answer, workerUnchanged, ReceiverMoves
<1>8. CASE Report
  BY <1>8 DEF Report, Complete, Store, PublishFinal, ReceiverMoves
<1>9. CASE Suspend \/ Configure
  BY <1>9 DEF Suspend, Configure, ParkRx, BeginDrain, Resume, Apply, Park, Discard, Drained,
              configUnchanged, ReceiverMoves
<1>10. CASE UNCHANGED vars
  BY <1>10 DEF vars, ReceiverMoves
<1> QED BY <1>2, <1>3, <1>4, <1>5, <1>6, <1>7, <1>8, <1>9, <1>10 DEF Next, Receive

\* A receiver at work has a command, and only one of them has the lock.
LEMMA ReceiverStep ==
    ASSUME IInv, [Next]_vars
    PROVE  ReceiverOK' /\ LockOK'
<1>1. ReceiverOK /\ LockOK /\ ReceiverMoves
  BY ReceiverCases DEF IInv
<1>2. CASE UNCHANGED receiver
  BY <1>1, <1>2 DEF ReceiverOK, LockOK
<1>3. ASSUME NEW r \in Receivers,
             \A q \in Receivers : q # r => receiver'[q] = receiver[q],
             \/ receiver'[r].step = "idle"
             \/ LockFree /\ receiver'[r].step = "scan" /\ receiver'[r].cmd \in Cmds
             \/ /\ receiver'[r].cmd = receiver[r].cmd
                /\ receiver[r].step # "idle"
                /\ receiver'[r].step \in {"claim"} => receiver[r].step = "scan"
                /\ receiver'[r].step \in {"claim", "admit", "replay", "resend"}
      PROVE  ReceiverOK' /\ LockOK'
  BY <1>1, <1>3 DEF ReceiverOK, LockOK, LockFree
<1> QED BY <1>1, <1>2, <1>3 DEF ReceiverMoves

\* A prepared slot stays unused and its id unique until it is claimed: what else
\* the tasks do leaves FREE and FINAL slots alone, and the lock keeps others out.
LEMMA ClaimStep ==
    ASSUME IInv, [Next]_vars
    PROVE  ClaimOK'
<1> USE DEF ClaimOK
<1>1. TypeOK /\ LockOK /\ ClaimOK /\ AdmitOK /\ SlotHeld
  BY DEF IInv
<1>2. /\ state \in [Slots -> SlotStates] /\ cmd \in [Slots -> Cmds \cup {NoCmd}]
      /\ receiver \in [Receivers -> Work]
      /\ \A d \in descs : d.slot \in Slots
      /\ \A r \in Receivers : receiver[r].slot \in Slots
  BY <1>1 DEF TypeOK, Descs, Work
<1>3. CASE Quiet
  <2>1. \A r \in Receivers : receiver'[r].step = "claim" => receiver'[r] = receiver[r]
    BY <1>3 DEF Quiet
  <2> QED BY <1>1, <1>3, <2>1 DEF Quiet
<1>4. CASE WorkerMoves
  BY <1>1, <1>4 DEF WorkerMoves, slotVars
<1>5. CASE Complete
  <2>1. PICK d \in descs : d.place = "final" /\ state' = [state EXCEPT ![d.slot] = "COMPLETING"]
    BY <1>1, <1>5, Completing
  <2>2. state[d.slot] = "QUEUED" /\ UNCHANGED <<cmd, receiver>>
    BY <1>1, <1>5, <2>1 DEF SlotHeld, Complete
  <2> QED BY <1>1, <1>2, <2>1, <2>2
<1>6. CASE Store
  <2>1. PICK d \in descs : d.place = "report" /\ state' = [state EXCEPT ![d.slot] = "FINAL"]
    BY <1>6 DEF Store
  <2>2. state[d.slot] = "COMPLETING" /\ UNCHANGED <<cmd, receiver>>
    BY <1>1, <1>6, <2>1 DEF SlotHeld, Store
  <2> QED BY <1>1, <1>2, <2>1, <2>2
<1>7. CASE Apply
  BY <1>1, <1>7 DEF Apply, configUnchanged, slotVars
<1>8. ASSUME NEW r \in Receivers, Claim(r) PROVE ClaimOK'
  <2>1. receiver[r].step = "claim" /\ receiver' = [receiver EXCEPT ![r] = [@ EXCEPT !.step = "admit", !.seen = {}]]
    BY <1>8 DEF Claim
  <2>2. receiver'[r].step = "admit"
    BY <1>2, <2>1 DEF Work
  <2>3. \A q \in Receivers : receiver'[q].step # "claim"
    BY <1>1, <1>2, <2>1, <2>2 DEF LockOK
  <2> QED BY <2>3
<1>9. ASSUME NEW r \in Receivers, Admit(r) PROVE ClaimOK'
  <2> DEFINE s == receiver[r].slot
  <2>1. state[s] = "QUEUED" /\ UNCHANGED cmd
    BY <1>1, <1>9 DEF AdmitOK, Admit
  <2>2. \A q \in Receivers : receiver'[q].step = "claim" => receiver'[q] = receiver[q]
    BY <1>2, <1>9 DEF Admit, Idle
  <2>3. state' = state \/ state' = [state EXCEPT ![s] = "FINAL"]
    BY <1>9 DEF Admit
  <2> QED BY <1>1, <1>2, <2>1, <2>2, <2>3
<1>10. ASSUME NEW r \in Receivers, NEW s \in Slots, Prepares(r, s) PROVE ClaimOK'
  <2>1. /\ receiver[r].step = "scan" /\ state[s] \in {"FREE", "FINAL"}
        /\ receiver' = [receiver EXCEPT ![r] = [@ EXCEPT !.step = "claim", !.slot = s]]
        /\ cmd' = [cmd EXCEPT ![s] = receiver[r].cmd] /\ UNCHANGED state
    BY <1>10 DEF Prepares, PrepareSlot
  <2>2. receiver'[r].slot = s /\ receiver'[r].cmd = receiver[r].cmd
    BY <1>2, <2>1 DEF Work
  <2>3. \A q \in Receivers : receiver'[q].step = "claim" => q = r
    BY <1>1, <1>2, <2>1 DEF LockOK
  <2>4. \A t \in Slots : state[t] # "FREE" => IdOf[cmd[t]] # IdOf[receiver[r].cmd]
    BY <1>10 DEF Prepares, SameId
  <2> QED BY <1>2, <2>1, <2>2, <2>3, <2>4
<1> QED BY <1>1, <1>3, <1>4, <1>5, <1>6, <1>7, <1>8, <1>9, <1>10, NextCases

\* A claimed slot is its receiver's until it is handed to the bus: it is no longer
\* FREE or FINAL, and there is no descriptor of it yet.
LEMMA AdmitStep ==
    ASSUME IInv, [Next]_vars
    PROVE  AdmitOK'
<1> USE DEF AdmitOK
<1>1. TypeOK /\ LockOK /\ ClaimOK /\ AdmitOK /\ SlotHeld
  BY DEF IInv
<1>2. /\ state \in [Slots -> SlotStates] /\ cmd \in [Slots -> Cmds \cup {NoCmd}]
      /\ receiver \in [Receivers -> Work]
      /\ \A d \in descs : d.slot \in Slots
      /\ \A r \in Receivers : receiver[r].slot \in Slots
  BY <1>1 DEF TypeOK, Descs, Work
<1>3. CASE Quiet
  <2>1. \A r \in Receivers : receiver'[r].step = "admit" => receiver'[r] = receiver[r]
    BY <1>3 DEF Quiet
  <2> QED BY <1>1, <1>3, <2>1 DEF Quiet
<1>4. CASE WorkerMoves
  <2>1. PICK d \in descs, n \in Descs : Replaces(d, n)
    BY <1>1, <1>4, Replacing
  <2>2. \A e \in descs' : \E f \in descs : e.slot = f.slot
    BY <2>1 DEF Replaces
  <2> QED BY <1>1, <1>4, <2>2 DEF WorkerMoves, slotVars
<1>5. CASE Complete
  <2>1. PICK d \in descs, n \in Descs :
              /\ d.place = "final" /\ n.slot = d.slot
              /\ descs' = (descs \ {d}) \cup {n}
              /\ state' = [state EXCEPT ![d.slot] = "COMPLETING"]
    BY <1>1, <1>5, Completing
  <2>2. UNCHANGED <<cmd, receiver>>
    BY <1>5 DEF Complete
  <2> QED BY <1>1, <1>2, <2>1, <2>2
<1>6. CASE Store
  <2>1. PICK d \in descs : descs' = descs \ {d} /\ state' = [state EXCEPT ![d.slot] = "FINAL"]
    BY <1>6 DEF Store
  <2>2. UNCHANGED <<cmd, receiver>>
    BY <1>6 DEF Store
  <2> QED BY <1>1, <1>2, <2>1, <2>2
<1>7. CASE Apply
  <2>1. descs' \subseteq descs /\ UNCHANGED <<state, cmd, receiver>>
    BY <1>7 DEF Apply, configUnchanged, slotVars
  <2> QED BY <1>1, <2>1
<1>8. ASSUME NEW r \in Receivers, Claim(r) PROVE AdmitOK'
  <2> DEFINE s == receiver[r].slot
  <2>1. /\ cmd[s] = receiver[r].cmd
        /\ state[s] \in {"FREE", "FINAL"}
        /\ \A d \in descs : d.slot # s
    BY <1>1, <1>8 DEF ClaimOK, SlotHeld, Claim
  <2>2. /\ state' = [state EXCEPT ![s] = "QUEUED"] /\ UNCHANGED <<cmd, descs>>
        /\ receiver' = [receiver EXCEPT ![r] = [@ EXCEPT !.step = "admit", !.seen = {}]]
    BY <1>8 DEF Claim, ClaimedState
  <2>3. receiver'[r].slot = s /\ receiver'[r].cmd = receiver[r].cmd
    BY <1>2, <2>2 DEF Work
  <2>4. \A q \in Receivers : q # r => receiver'[q] = receiver[q]
    BY <1>2, <2>2
  <2> QED BY <1>1, <1>2, <2>1, <2>2, <2>3, <2>4
<1>9. ASSUME NEW r \in Receivers, Admit(r) PROVE AdmitOK'
  <2> DEFINE s == receiver[r].slot
             n == [place |-> "queue", slot |-> s, cmd |-> receiver[r].cmd, result |-> NoResult]
  <2>1. receiver[r].step = "admit" /\ UNCHANGED cmd
    BY <1>9 DEF Admit
  <2>2. \A q \in Receivers : receiver'[q].step = "admit" => q # r /\ receiver'[q] = receiver[q]
    BY <1>2, <1>9 DEF Admit, Idle
  <2>3. \A q \in Receivers : receiver'[q].step = "admit" => receiver[q].slot # s
    BY <1>1, <2>1, <2>2
  <2>4. CASE descs' = descs \cup {n} /\ state' = state
    BY <1>1, <2>1, <2>2, <2>3, <2>4
  <2>5. CASE descs' = descs /\ state' = [state EXCEPT ![s] = "FINAL"]
    BY <1>1, <1>2, <2>1, <2>2, <2>3, <2>5
  <2> QED BY <1>9, <2>4, <2>5 DEF Admit
<1>10. ASSUME NEW r \in Receivers, NEW s \in Slots, Prepares(r, s) PROVE AdmitOK'
  <2>1. /\ receiver[r].step = "scan" /\ state[s] \in {"FREE", "FINAL"}
        /\ receiver' = [receiver EXCEPT ![r] = [@ EXCEPT !.step = "claim", !.slot = s]]
        /\ cmd' = [cmd EXCEPT ![s] = receiver[r].cmd] /\ UNCHANGED <<state, descs>>
    BY <1>10 DEF Prepares, PrepareSlot
  <2>2. receiver'[r].step = "claim"
    BY <1>2, <2>1 DEF Work
  <2>3. \A q \in Receivers : receiver'[q].step = "admit" => receiver'[q] = receiver[q]
    BY <1>2, <2>1, <2>2
  <2> QED BY <1>1, <1>2, <2>1, <2>3
<1> QED BY <1>1, <1>3, <1>4, <1>5, <1>6, <1>7, <1>8, <1>9, <1>10, NextCases

\* No two slots come to hold commands of one id: only a claim makes a slot's
\* command count, and the claim was prepared against all the others.
LEMMA UniqueStep ==
    ASSUME IInv, [Next]_vars
    PROVE  UniqueCommand'
<1> USE DEF UniqueCommand
<1>1. TypeOK /\ ClaimOK /\ AdmitOK /\ SlotHeld /\ UniqueCommand
  BY DEF IInv
<1>2. /\ state \in [Slots -> SlotStates] /\ cmd \in [Slots -> Cmds \cup {NoCmd}]
      /\ receiver \in [Receivers -> Work]
      /\ \A d \in descs : d.slot \in Slots
      /\ \A r \in Receivers : receiver[r].slot \in Slots
  BY <1>1 DEF TypeOK, Descs, Work
<1>3. ASSUME UNCHANGED cmd, \A s \in Slots : state'[s] # "FREE" => state[s] # "FREE"
      PROVE  UniqueCommand'
  BY <1>1, <1>3
<1>4. CASE Quiet \/ WorkerMoves \/ Apply
  BY <1>3, <1>4 DEF Quiet, WorkerMoves, Apply, configUnchanged, slotVars
<1>5. CASE Complete
  <2>1. PICK d \in descs : d.place = "final" /\ state' = [state EXCEPT ![d.slot] = "COMPLETING"]
    BY <1>1, <1>5, Completing
  <2>2. state[d.slot] = "QUEUED" /\ UNCHANGED cmd
    BY <1>1, <1>5, <2>1 DEF SlotHeld, Complete
  <2> QED BY <1>2, <1>3, <2>1, <2>2
<1>6. CASE Store
  <2>1. PICK d \in descs : d.place = "report" /\ state' = [state EXCEPT ![d.slot] = "FINAL"]
    BY <1>6 DEF Store
  <2>2. state[d.slot] = "COMPLETING" /\ UNCHANGED cmd
    BY <1>1, <1>6, <2>1 DEF SlotHeld, Store
  <2> QED BY <1>2, <1>3, <2>1, <2>2
<1>7. ASSUME NEW r \in Receivers, Claim(r) PROVE UniqueCommand'
  <2> DEFINE s == receiver[r].slot
  <2>1. state' = [state EXCEPT ![s] = "QUEUED"] /\ UNCHANGED cmd
    BY <1>7 DEF Claim, ClaimedState
  <2>2. \A t \in Slots : t # s /\ state[t] # "FREE" => IdOf[cmd[t]] # IdOf[cmd[s]]
    BY <1>1, <1>7 DEF ClaimOK, Claim
  <2> QED BY <1>1, <1>2, <2>1, <2>2
<1>8. ASSUME NEW r \in Receivers, Admit(r) PROVE UniqueCommand'
  <2>1. state[receiver[r].slot] = "QUEUED" /\ UNCHANGED cmd
    BY <1>1, <1>8 DEF AdmitOK, Admit
  <2>2. state' = state \/ state' = [state EXCEPT ![receiver[r].slot] = "FINAL"]
    BY <1>8 DEF Admit
  <2> QED BY <1>2, <1>3, <2>1, <2>2
<1>9. ASSUME NEW r \in Receivers, NEW s \in Slots, Prepares(r, s) PROVE UniqueCommand'
  <2>1. cmd' = [cmd EXCEPT ![s] = receiver[r].cmd] /\ UNCHANGED state
    BY <1>9 DEF Prepares, PrepareSlot
  <2>2. \A t \in Slots : state[t] # "FREE" => IdOf[cmd[t]] # IdOf[receiver[r].cmd]
    BY <1>9 DEF Prepares, SameId
  <2> QED BY <1>1, <1>2, <2>1, <2>2
<1> QED BY <1>1, <1>4, <1>5, <1>6, <1>7, <1>8, <1>9, NextCases

\* A slot that finishes keeps its own command's result.
LEMMA StoredStep ==
    ASSUME IInv, [Next]_vars
    PROVE  StoredFinalIsOwn'
<1> USE DEF StoredFinalIsOwn
<1>1. TypeOK /\ LockOK /\ ClaimOK /\ AdmitOK /\ ResultOK /\ SlotHeld /\ StoredFinalIsOwn
  BY DEF IInv
<1>2. /\ state \in [Slots -> SlotStates] /\ cmd \in [Slots -> Cmds \cup {NoCmd}]
      /\ result \in [Slots -> Results] /\ receiver \in [Receivers -> Work]
      /\ \A d \in descs : d.slot \in Slots
      /\ \A r \in Receivers : receiver[r].slot \in Slots
  BY <1>1 DEF TypeOK, Descs, Work
<1>3. CASE Quiet
  <2>1. \A r \in Receivers : receiver[r].step = "claim" => receiver'[r] = receiver[r]
    BY <1>3 DEF Quiet
  <2> QED BY <1>1, <1>3, <2>1 DEF Quiet
<1>4. CASE WorkerMoves \/ Apply
  BY <1>1, <1>4 DEF WorkerMoves, Apply, configUnchanged, slotVars
<1>5. CASE Complete
  <2>1. PICK d \in descs : state' = [state EXCEPT ![d.slot] = "COMPLETING"]
    BY <1>1, <1>5, Completing
  <2>2. UNCHANGED <<cmd, result, receiver>>
    BY <1>5 DEF Complete
  <2> QED BY <1>1, <1>2, <2>1, <2>2
<1>6. CASE Store
  <2>1. PICK d \in descs :
              /\ d.place = "report"
              /\ state' = [state EXCEPT ![d.slot] = "FINAL"]
              /\ result' = [result EXCEPT ![d.slot] = d.result]
    BY <1>6 DEF Store
  <2>2. d.result.of = cmd[d.slot] /\ UNCHANGED <<cmd, receiver>>
    BY <1>1, <1>6, <2>1 DEF SlotHeld, ResultOK, Store
  <2> QED BY <1>1, <1>2, <2>1, <2>2
<1>7. ASSUME NEW r \in Receivers, Claim(r) PROVE StoredFinalIsOwn'
  <2> DEFINE s == receiver[r].slot
  <2>1. /\ receiver[r].step = "claim"
        /\ state' = [state EXCEPT ![s] = "QUEUED"] /\ UNCHANGED <<cmd, result>>
    BY <1>7 DEF Claim, ClaimedState
  <2>2. \A q \in Receivers : receiver[q].step = "claim" => receiver[q].slot = s
    BY <1>1, <2>1 DEF LockOK
  <2> QED BY <1>1, <1>2, <2>1, <2>2
<1>8. ASSUME NEW r \in Receivers, Admit(r) PROVE StoredFinalIsOwn'
  <2> DEFINE s == receiver[r].slot
             c == receiver[r].cmd
  <2>1. cmd[s] = c /\ state[s] = "QUEUED" /\ UNCHANGED cmd
    BY <1>1, <1>8 DEF AdmitOK, Admit
  <2>2. \A q \in Receivers : receiver[q].step = "claim" => receiver'[q] = receiver[q]
    BY <1>2, <1>8 DEF Admit
  <2>3. CASE state' = state /\ result' = result
    BY <1>1, <2>1, <2>2, <2>3
  <2>4. CASE state' = [state EXCEPT ![s] = "FINAL"] /\ result' = [result EXCEPT ![s] = Failed(c)]
    BY <1>1, <1>2, <2>1, <2>2, <2>4 DEF Failed
  <2> QED BY <1>8, <2>3, <2>4 DEF Admit
<1>9. ASSUME NEW r \in Receivers, NEW s \in Slots, Prepares(r, s) PROVE StoredFinalIsOwn'
  <2>1. /\ receiver[r].step = "scan"
        /\ receiver' = [receiver EXCEPT ![r] = [@ EXCEPT !.step = "claim", !.slot = s]]
        /\ cmd' = [cmd EXCEPT ![s] = receiver[r].cmd]
        /\ result' = [result EXCEPT ![s] = NoResult] /\ UNCHANGED state
    BY <1>9 DEF Prepares, PrepareSlot
  <2>2. receiver'[r].step = "claim" /\ receiver'[r].slot = s
    BY <1>2, <2>1 DEF Work
  <2>3. \A q \in Receivers : receiver[q].step # "claim"
    BY <1>1, <2>1 DEF LockOK
  <2> QED BY <1>1, <1>2, <2>1, <2>2, <2>3
<1> QED BY <1>1, <1>3, <1>4, <1>5, <1>6, <1>7, <1>8, <1>9, NextCases

\* Nothing starts on a bus whose worker is parked, and a drained bus stays without
\* responses to wait for: it is not drained before, and no worker runs.
LEMMA ParkedStep ==
    ASSUME IInv, [Next]_vars
    PROVE  ParkedOK'
<1> USE DEF ParkedOK
<1>1. TypeOK /\ SlotHeld /\ ParkedOK
  BY DEF IInv
<1>2. \A d \in descs : d \in Descs /\ d.cmd \in Cmds /\ BusOf[d.cmd] \in Buses
  BY <1>1, CommandAssumption DEF TypeOK, Descs
<1>3. ASSUME NEW d \in descs, NEW p \in Places, NEW res \in Results, Advance(d, p, res),
             UNCHANGED configVars,
             p = "worker" => BusOf[d.cmd] \notin parked,
             p = "pending" => config # "draining"
      PROVE  ParkedOK'
  <2> DEFINE n == [d EXCEPT !.place = p, !.result = res]
  <2>1. n.place = p /\ n.cmd = d.cmd
    BY <1>2 DEF Descs
  <2>2. descs' = (descs \ {d}) \cup {n}
    BY <1>3 DEF Advance
  <2> HIDE DEF n
  <2> QED BY <1>1, <1>3, <2>1, <2>2 DEF configVars
<1>4. ASSUME NEW d \in descs, d.place \in {"queue", "worker", "pending"}, UNCHANGED configVars,
             NEW res \in Results, res.of = d.cmd, Finish(d, res)
      PROVE  ParkedOK'
  BY <1>1, <1>3, <1>4, Finishing DEF Places
<1>5. ASSUME UNCHANGED <<config, parked, drained>>,
             \A d \in descs' : d.place \in {"worker", "pending"} => d \in descs
      PROVE  ParkedOK'
  BY <1>1, <1>5
<1>6. \A c \in Cmds : Failed(c) \in Results /\ Failed(c).of = c
  BY DEF Failed, Results
<1>7. ASSUME NEW b \in Buses, Take(b) PROVE ParkedOK'
  <2>1. PICK d \in At("queue", b) : descs' = Moved(d, "worker")
    BY <1>7 DEF Take, Received
  <2>2. d \in descs /\ d.place = "queue" /\ BusOf[d.cmd] \notin parked
    BY <1>7, <2>1 DEF At, Take
  <2>3. Advance(d, "worker", d.result) /\ d.result \in Results
    BY <1>1, <1>2, <2>1, <2>2, Moving DEF Descs
  <2> QED BY <1>3, <1>7, <2>2, <2>3 DEF Take, workerUnchanged, Places
<1>8. ASSUME NEW b \in Buses, GiveUp(b) PROVE ParkedOK'
  <2>1. PICK d \in At("worker", b) : Finish(d, Failed(d.cmd))
    BY <1>8 DEF GiveUp
  <2> QED BY <1>2, <1>4, <1>6, <1>8, <2>1 DEF At, GiveUp, workerUnchanged
<1>9. ASSUME NEW b \in Buses, Execute(b) PROVE ParkedOK'
  <2>1. PICK d \in At("worker", b) :
           LET c == IF Borrows(d) THEN cmd[d.slot] ELSE d.cmd IN
           \/ \E ok \in BOOLEAN : Finish(d, [of |-> c, ok |-> ok])
           \/ descs' = Moved(d, "pending")
    BY <1>9 DEF Execute
  <2>2. d \in descs /\ d.place = "worker" /\ cmd[d.slot] = d.cmd /\ UNCHANGED configVars
    BY <1>1, <1>9, <2>1 DEF At, SlotHeld, Execute, workerUnchanged
  <2>3. CASE descs' = Moved(d, "pending")
    <3>1. Advance(d, "pending", d.result) /\ d.result \in Results
      BY <1>1, <1>2, <2>2, <2>3, Moving DEF Descs
    <3>2. config # "draining"
      BY <1>1, <1>2, <2>2
    <3> QED BY <1>3, <2>2, <3>1, <3>2 DEF Places
  <2>4. CASE \E ok \in BOOLEAN : Finish(d, [of |-> d.cmd, ok |-> ok])
    BY <1>2, <1>4, <2>2, <2>4 DEF Results
  <2> QED BY <2>1, <2>2, <2>3, <2>4
<1>10. ASSUME NEW b \in Buses, Answer(b) PROVE ParkedOK'
  <2>1. PICK d \in At("pending", b), ok \in BOOLEAN : Finish(d, [of |-> d.cmd, ok |-> ok])
    BY <1>10 DEF Answer
  <2>2. d \in descs /\ d.place = "pending" /\ [of |-> d.cmd, ok |-> ok] \in Results
    BY <1>2, <2>1 DEF At, Results
  <2> QED BY <1>4, <1>10, <2>1, <2>2 DEF Answer, workerUnchanged
<1>11. ASSUME NEW b \in Buses, Discard(b) PROVE ParkedOK'
  <2>1. PICK d \in Discardable(b) : Finish(d, Failed(d.cmd))
    BY <1>11 DEF Discard
  <2>2. d \in descs /\ d.place \in {"queue", "pending"}
    BY <2>1 DEF Discardable, At
  <2> QED BY <1>2, <1>4, <1>6, <1>11, <2>1, <2>2 DEF Discard
<1>12. CASE Complete
  <2>1. PICK d \in descs, n \in Descs : n.place = "report" /\ descs' = (descs \ {d}) \cup {n}
    BY <1>1, <1>12, Completing
  <2> QED BY <1>5, <1>12, <2>1 DEF Complete, configVars
<1>13. CASE Store \/ PublishFinal
  BY <1>5, <1>13 DEF Store, PublishFinal, configVars
<1>14. ASSUME NEW r \in Receivers, Receive(r) \/ \E c \in Cmds : Deliver(r, c) PROVE ParkedOK'
  <2>1. UNCHANGED <<config, parked, drained>>
    BY <1>14 DEF Receive, Reserve, Claim, Admit, Replay, Resend, Deliver, configVars
  <2>2. \A d \in descs' : d \in descs \/ d.place = "queue"
    <3>1. CASE Admit(r)
      <4>1. \/ UNCHANGED descs
            \/ descs' = descs \cup {[place |-> "queue", slot |-> receiver[r].slot,
                                     cmd |-> receiver[r].cmd, result |-> NoResult]}
        BY <3>1 DEF Admit
      <4> QED BY <4>1
    <3>2. CASE ~Admit(r)
      BY <1>14, <3>2 DEF Receive, Reserve, Claim, Replay, Resend, Deliver
    <3> QED BY <3>1, <3>2
  <2> QED BY <1>5, <2>1, <2>2
<1>15. ASSUME NEW b \in Buses, Park(b) PROVE ParkedOK'
  <2>1. \A d \in descs : d.place = "worker" => BusOf[d.cmd] # b
    BY <1>15 DEF Park, At
  <2> QED BY <1>1, <1>15, <2>1 DEF Park
<1>16. ASSUME NEW b \in Buses, Drained(b) PROVE ParkedOK'
  <2>1. \A d \in descs : d.place = "pending" => BusOf[d.cmd] # b
    BY <1>16 DEF Drained, Discardable, At
  <2> QED BY <1>1, <1>16, <2>1 DEF Drained
<1>17. CASE Suspend \/ ParkRx \/ BeginDrain \/ Resume \/ Apply
  BY <1>1, <1>17 DEF Suspend, ParkRx, BeginDrain, Resume, Apply
<1>18. CASE UNCHANGED vars
  BY <1>5, <1>18 DEF vars, configVars
<1> QED
  BY <1>7, <1>8, <1>9, <1>10, <1>11, <1>12, <1>13, <1>14, <1>15, <1>16, <1>17, <1>18
  DEF Next, Worker, Report, Configure

\* A slot in use keeps its descriptor: moves lose none, a completed one takes its
\* slot to FINAL, and a configuration is applied only when none waits any more.
LEMMA ForgottenStep ==
    ASSUME IInv, [Next]_vars
    PROVE  NoneForgotten'
<1> USE DEF NoneForgotten
<1>1. TypeOK /\ AdmitOK /\ ParkedOK /\ SlotHeld /\ NoneForgotten
  BY DEF IInv
<1>2. /\ state \in [Slots -> SlotStates]
      /\ receiver \in [Receivers -> Work]
      /\ \A d \in descs : d.slot \in Slots /\ d.cmd \in Cmds
      /\ \A r \in Receivers : receiver[r].slot \in Slots
  BY <1>1 DEF TypeOK, Descs, Work
<1>3. CASE Quiet
  <2>1. \A r \in Receivers : receiver[r].step = "admit" => receiver'[r] = receiver[r]
    BY <1>3 DEF Quiet
  <2> QED BY <1>1, <1>3, <2>1 DEF Quiet
<1>4. CASE WorkerMoves
  <2>1. PICK d \in descs, n \in Descs : Replaces(d, n)
    BY <1>1, <1>4, Replacing
  <2>2. \A e \in descs : \E f \in descs' : e.slot = f.slot
    BY <2>1 DEF Replaces
  <2> QED BY <1>1, <1>4, <2>2 DEF WorkerMoves, slotVars
<1>5. CASE Complete
  <2>1. PICK d \in descs, n \in Descs :
              /\ n.slot = d.slot
              /\ descs' = (descs \ {d}) \cup {n}
              /\ state' = [state EXCEPT ![d.slot] = "COMPLETING"]
    BY <1>1, <1>5, Completing
  <2>2. UNCHANGED receiver
    BY <1>5 DEF Complete
  <2> QED BY <1>1, <1>2, <2>1, <2>2
<1>6. CASE Store
  <2>1. PICK d \in descs : descs' = descs \ {d} /\ state' = [state EXCEPT ![d.slot] = "FINAL"]
    BY <1>6 DEF Store
  <2>2. UNCHANGED receiver
    BY <1>6 DEF Store
  <2> QED BY <1>1, <1>2, <2>1, <2>2
<1>7. CASE Apply
  <2>1. \A d \in descs : d.place # "pending"
    <3>1. config = "draining" /\ drained = Buses
      BY <1>7 DEF Apply
    <3>2. \A d \in descs : BusOf[d.cmd] \in Buses
      BY <1>2, CommandAssumption
    <3> QED BY <1>1, <3>1, <3>2 DEF ParkedOK
  <2>2. descs' = descs /\ UNCHANGED <<state, receiver>>
    BY <1>7, <2>1 DEF Apply, configUnchanged, slotVars
  <2> QED BY <1>1, <2>2
<1>8. ASSUME NEW r \in Receivers, Claim(r) PROVE NoneForgotten'
  <2> DEFINE s == receiver[r].slot
  <2>1. /\ receiver[r].step = "claim"
        /\ state' = [state EXCEPT ![s] = "QUEUED"] /\ UNCHANGED descs
        /\ receiver' = [receiver EXCEPT ![r] = [@ EXCEPT !.step = "admit", !.seen = {}]]
    BY <1>8 DEF Claim, ClaimedState
  <2>2. receiver'[r].step = "admit" /\ receiver'[r].slot = s
    BY <1>2, <2>1 DEF Work
  <2>3. \A q \in Receivers : q # r => receiver'[q] = receiver[q]
    BY <1>2, <2>1
  <2> QED BY <1>1, <1>2, <2>1, <2>2, <2>3
<1>9. ASSUME NEW r \in Receivers, Admit(r) PROVE NoneForgotten'
  <2> DEFINE s == receiver[r].slot
             n == [place |-> "queue", slot |-> s, cmd |-> receiver[r].cmd, result |-> NoResult]
  <2>1. \A q \in Receivers : q # r => receiver'[q] = receiver[q]
    BY <1>2, <1>9 DEF Admit
  <2>2. CASE descs' = descs \cup {n} /\ state' = state
    <3>1. n \in descs' /\ n.slot = s
      BY <2>2
    <3>2. \A q \in Receivers : receiver[q].slot # s => receiver'[q] = receiver[q]
      BY <2>1
    <3> HIDE DEF n
    <3> QED BY <1>1, <2>2, <3>1, <3>2
  <2>3. CASE descs' = descs /\ state' = [state EXCEPT ![s] = "FINAL"]
    BY <1>1, <1>2, <2>1, <2>3
  <2> QED BY <1>9, <2>2, <2>3 DEF Admit
<1>10. ASSUME NEW r \in Receivers, NEW s \in Slots, Prepares(r, s) PROVE NoneForgotten'
  <2>1. /\ receiver[r].step = "scan" /\ UNCHANGED <<state, descs>>
        /\ receiver' = [receiver EXCEPT ![r] = [@ EXCEPT !.step = "claim", !.slot = s]]
    BY <1>10 DEF Prepares, PrepareSlot
  <2>2. \A q \in Receivers : receiver[q].step = "admit" => receiver'[q] = receiver[q]
    BY <1>2, <2>1
  <2> QED BY <1>1, <2>1, <2>2
<1> QED BY <1>1, <1>3, <1>4, <1>5, <1>6, <1>7, <1>8, <1>9, <1>10, NextCases

----------------------------------------------------------------------------
(* A command waits in one place: OncePerSlot.                                *)

\* A command that is on its way is nowhere else: not in another slot, because
\* UniqueCommand holds, and not with a receiver, because of ClaimOK and AdmitOK.
LEMMA OnlyDescriptor ==
    ASSUME TypeOK, SlotHeld, UniqueCommand, ClaimOK, AdmitOK, NEW d \in descs
    PROVE  /\ \A e \in descs : e.cmd = d.cmd => e = d
           /\ \A r \in Receivers : receiver[r].step \in {"claim", "admit"} => receiver[r].cmd # d.cmd
<1>1. \A e \in descs : e.slot \in Slots /\ cmd[e.slot] = e.cmd /\ state[e.slot] \in {"QUEUED", "COMPLETING"}
  BY DEF TypeOK, Descs, SlotHeld
<1>2. \A r \in Receivers : receiver[r].slot \in Slots
  BY DEF TypeOK, Work
<1>3. ASSUME NEW e \in descs, e.cmd = d.cmd PROVE e = d
  <2>1. e.slot = d.slot
    BY <1>1, <1>3 DEF UniqueCommand
  <2> QED BY <2>1 DEF SlotHeld
<1>4. ASSUME NEW r \in Receivers, receiver[r].step = "claim" PROVE receiver[r].cmd # d.cmd
  BY <1>1, <1>2, <1>4 DEF ClaimOK
<1>5. ASSUME NEW r \in Receivers, receiver[r].step = "admit" PROVE receiver[r].cmd # d.cmd
  BY <1>1, <1>2, <1>5 DEF AdmitOK, UniqueCommand
<1> QED BY <1>3, <1>4, <1>5

\* A command that is about to be handed to its bus is nowhere else.
LEMMA OnlyReceiver ==
    ASSUME TypeOK, SlotHeld, UniqueCommand, ClaimOK, AdmitOK,
           NEW r \in Receivers, receiver[r].step = "admit"
    PROVE  \A q \in Receivers : q # r /\ receiver[q].step \in {"claim", "admit"} =>
              receiver[q].cmd # receiver[r].cmd
<1>1. \A q \in Receivers : receiver[q].slot \in Slots
  BY DEF TypeOK, Work
<1>2. ASSUME NEW q \in Receivers, receiver[q].step = "claim" PROVE receiver[q].cmd # receiver[r].cmd
  BY <1>1, <1>2 DEF ClaimOK, AdmitOK
<1>3. ASSUME NEW q \in Receivers, q # r, receiver[q].step = "admit" PROVE receiver[q].cmd # receiver[r].cmd
  BY <1>1, <1>3 DEF AdmitOK, UniqueCommand
<1> QED BY <1>2, <1>3

\* An execution or a refusal ends the command's waiting, and only a slot starts it.
LEMMA CountStep ==
    ASSUME IInv, [Next]_vars
    PROVE  CountOK'
<1>1. TypeOK /\ ReceiverOK /\ SlotHeld /\ UniqueCommand /\ ClaimOK /\ AdmitOK /\ CountOK
  BY DEF IInv
<1>2. /\ receiver \in [Receivers -> Work]
      /\ reserved \in [Cmds -> Nat] /\ refused \in [Cmds -> Nat] /\ executed \in [Cmds -> Nat]
      /\ \A d \in descs : d \in Descs /\ d.cmd \in Cmds /\ d.result \in Results
  BY <1>1 DEF TypeOK, Descs
<1>3. \A c \in Cmds : Failed(c) \in Results /\ Failed(c).of = c
  BY DEF Failed, Results
<1>4. ASSUME UNCHANGED countVars, \A c \in Cmds : Waiting(c)' => Waiting(c) PROVE CountOK'
  BY <1>1, <1>2, <1>4 DEF CountOK, countVars
<1>5. ASSUME UNCHANGED receiver,
             \A e \in descs' : e.place \in {"queue", "worker"} =>
                 \E d \in descs : d.cmd = e.cmd /\ d.place \in {"queue", "worker"}
      PROVE  \A c \in Cmds : Waiting(c)' => Waiting(c)
  BY <1>5 DEF Waiting
<1>6. ASSUME NEW d \in descs, NEW p \in Places, NEW res \in Results, Advance(d, p, res), UNCHANGED receiver,
             p = "worker" => d.place \in {"queue", "worker"}
      PROVE  \A c \in Cmds : Waiting(c)' => Waiting(c)
  <2> DEFINE n == [d EXCEPT !.place = p, !.result = res]
  <2>1. n.place = p /\ n.cmd = d.cmd
    BY <1>2 DEF Descs
  <2>2. descs' = (descs \ {d}) \cup {n} /\ p \in {"worker", "pending", "final"}
    BY <1>6 DEF Advance
  <2> HIDE DEF n
  <2> QED BY <1>5, <1>6, <2>1, <2>2
<1>7. ASSUME NEW d \in descs, d.place \in {"queue", "worker", "pending"}, UNCHANGED <<countVars, receiver>>,
             NEW res \in Results, res.of = d.cmd, Finish(d, res)
      PROVE  CountOK'
  <2>1. Advance(d, "final", res) /\ "final" \in Places
    BY <1>1, <1>7, Finishing DEF Places
  <2> QED BY <1>4, <1>6, <1>7, <2>1
<1>8. ASSUME NEW b \in Buses, Take(b) PROVE CountOK'
  <2>1. PICK d \in At("queue", b) : descs' = Moved(d, "worker")
    BY <1>8 DEF Take, Received
  <2>2. d \in descs /\ d.place = "queue" /\ UNCHANGED <<countVars, receiver>>
    BY <1>8, <2>1 DEF At, Take, workerUnchanged, countVars
  <2>3. Advance(d, "worker", d.result) /\ "worker" \in Places
    BY <1>1, <2>1, <2>2, Moving DEF Places
  <2> QED BY <1>2, <1>4, <1>6, <2>2, <2>3
<1>9. ASSUME NEW b \in Buses, GiveUp(b) PROVE CountOK'
  <2>1. PICK d \in At("worker", b) : Finish(d, Failed(d.cmd))
    BY <1>9 DEF GiveUp
  <2> QED BY <1>2, <1>3, <1>7, <1>9, <2>1 DEF At, GiveUp, workerUnchanged, countVars
<1>10. ASSUME NEW b \in Buses, Answer(b) PROVE CountOK'
  <2>1. PICK d \in At("pending", b), ok \in BOOLEAN : Finish(d, [of |-> d.cmd, ok |-> ok])
    BY <1>10 DEF Answer
  <2>2. d \in descs /\ d.place = "pending" /\ [of |-> d.cmd, ok |-> ok] \in Results
    BY <1>2, <2>1 DEF At, Results
  <2> QED BY <1>7, <1>10, <2>1, <2>2 DEF Answer, workerUnchanged, countVars
<1>11. ASSUME NEW b \in Buses, Discard(b) PROVE CountOK'
  <2>1. PICK d \in Discardable(b) : Finish(d, Failed(d.cmd))
    BY <1>11 DEF Discard
  <2>2. d \in descs /\ d.place \in {"queue", "pending"}
    BY <2>1 DEF Discardable, At
  <2> QED BY <1>2, <1>3, <1>7, <1>11, <2>1, <2>2 DEF Discard, configUnchanged, countVars
<1>12. ASSUME NEW b \in Buses, Execute(b) PROVE CountOK'
  <2>1. PICK d \in At("worker", b) :
           LET c == IF Borrows(d) THEN cmd[d.slot] ELSE d.cmd IN
           /\ executed' = [executed EXCEPT ![c] = @ + 1]
           /\ \/ \E ok \in BOOLEAN : Finish(d, [of |-> c, ok |-> ok])
              \/ descs' = Moved(d, "pending")
    BY <1>12 DEF Execute
  <2>2. d \in descs /\ d.place = "worker" /\ cmd[d.slot] = d.cmd
    BY <1>1, <2>1 DEF At, SlotHeld
  <2>3. UNCHANGED <<receiver, reserved, refused>> /\ executed' = [executed EXCEPT ![d.cmd] = @ + 1]
    BY <1>12, <2>1, <2>2 DEF Execute, workerUnchanged
  <2>4. \E n : n.place \in {"pending", "final"} /\ descs' = (descs \ {d}) \cup {n}
    <3>1. CASE descs' = Moved(d, "pending")
      <4> DEFINE n == [d EXCEPT !.place = "pending"]
      <4>1. n.place = "pending"
        BY <1>2, <2>2 DEF Descs
      <4>2. descs' = (descs \ {d}) \cup {n}
        BY <3>1 DEF Moved
      <4> HIDE DEF n
      <4> QED BY <4>1, <4>2
    <3>2. CASE \E ok \in BOOLEAN : Finish(d, [of |-> d.cmd, ok |-> ok])
      <4>1. PICK ok \in BOOLEAN : Finish(d, [of |-> d.cmd, ok |-> ok])
        BY <3>2
      <4> DEFINE res == [of |-> d.cmd, ok |-> ok]
                 n == [d EXCEPT !.place = "final", !.result = res]
      <4>2. res \in Results /\ res.of = d.cmd
        BY <1>2, <2>2 DEF Results
      <4>3. descs' = (descs \ {d}) \cup {n}
        BY <1>1, <2>2, <4>1, <4>2, Finishing DEF Advance
      <4>4. n.place = "final"
        BY <1>2, <2>2 DEF Descs
      <4> HIDE DEF n
      <4> QED BY <4>3, <4>4
    <3> QED BY <2>1, <2>2, <3>1, <3>2
  <2>5. Waiting(d.cmd) /\ ~Waiting(d.cmd)'
    BY <1>1, <2>2, <2>3, <2>4, OnlyDescriptor DEF Waiting
  <2>6. \A c \in Cmds : Waiting(c)' => Waiting(c)
    BY <1>5, <2>3, <2>4
  <2> QED BY <1>1, <1>2, <2>2, <2>3, <2>5, <2>6 DEF CountOK
<1>13. CASE Complete
  <2>1. PICK d \in descs, n \in Descs : n.place = "report" /\ descs' = (descs \ {d}) \cup {n}
    BY <1>1, <1>13, Completing
  <2> QED BY <1>4, <1>5, <1>13, <2>1 DEF Complete
<1>14. CASE Store \/ PublishFinal \/ Apply
  BY <1>4, <1>5, <1>14 DEF Store, PublishFinal, Apply, configUnchanged
<1>15. CASE Suspend \/ ParkRx \/ BeginDrain \/ Resume \/ (\E b \in Buses : Park(b) \/ Drained(b)) \/ UNCHANGED vars
  <2>1. UNCHANGED <<receiver, descs, countVars>>
    BY <1>15 DEF Suspend, ParkRx, BeginDrain, Resume, Park, Drained, configUnchanged, vars
  <2> QED BY <1>4, <1>5, <2>1
<1>16. ASSUME NEW r \in Receivers, (\E c \in Cmds : Deliver(r, c)) \/ Replay(r) \/ Resend(r) PROVE CountOK'
  <2>1. UNCHANGED <<descs, countVars>>
    BY <1>16 DEF Deliver, Replay, Resend
  <2>2. Quiet
    BY <1>1, <1>16, ReceiverQuiet
  <2> QED BY <1>4, <2>1, <2>2 DEF Quiet, Waiting
<1>17. ASSUME NEW r \in Receivers, Reserve(r) PROVE CountOK'
  <2>1. CASE \E s \in Slots : PrepareSlot(r, s)
    <3>1. PICK s \in Slots : PrepareSlot(r, s)
      BY <2>1
    <3>2. /\ receiver' = [receiver EXCEPT ![r] = [@ EXCEPT !.step = "claim", !.slot = s]]
          /\ reserved' = [reserved EXCEPT ![receiver[r].cmd] = @ + 1]
      BY <3>1 DEF PrepareSlot
    <3>3. UNCHANGED <<descs, refused, executed>>
      BY <1>17 DEF Reserve
    <3>4. receiver'[r].cmd = receiver[r].cmd /\ \A q \in Receivers : q # r => receiver'[q] = receiver[q]
      BY <1>2, <3>2 DEF Work
    <3>5. \A c \in Cmds : c # receiver[r].cmd /\ Waiting(c)' => Waiting(c)
      BY <3>3, <3>4 DEF Waiting
    <3> QED BY <1>1, <1>2, <3>2, <3>3, <3>5 DEF CountOK
  <2>2. CASE ~\E s \in Slots : PrepareSlot(r, s)
    <3>1. UNCHANGED countVars /\ Quiet
      BY <1>1, <1>17, <2>2, ReserveCases DEF Reserve, Prepares, countVars
    <3> QED BY <1>4, <3>1 DEF Quiet, Waiting
  <2> QED BY <2>1, <2>2
<1>18. ASSUME NEW r \in Receivers, Claim(r) PROVE CountOK'
  <2>1. /\ receiver[r].step = "claim" /\ UNCHANGED <<descs, countVars>>
        /\ receiver' = [receiver EXCEPT ![r] = [@ EXCEPT !.step = "admit", !.seen = {}]]
    BY <1>18 DEF Claim
  <2>2. receiver'[r].cmd = receiver[r].cmd /\ \A q \in Receivers : q # r => receiver'[q] = receiver[q]
    BY <1>2, <2>1 DEF Work
  <2> QED BY <1>4, <2>1, <2>2 DEF Waiting
<1>19. ASSUME NEW r \in Receivers, Admit(r) PROVE CountOK'
  <2>1. receiver[r].step = "admit" /\ UNCHANGED <<reserved, executed>>
    BY <1>19 DEF Admit
  <2>2. PICK c \in Cmds : c = receiver[r].cmd
    BY <1>1, <2>1 DEF ReceiverOK
  <2> DEFINE n == [place |-> "queue", slot |-> receiver[r].slot, cmd |-> c, result |-> NoResult]
  <2>3. receiver'[r].step = "idle" /\ \A q \in Receivers : q # r => receiver'[q] = receiver[q]
    BY <1>2, <1>19 DEF Admit, Idle
  <2>4. CASE descs' = descs \cup {n} /\ refused' = refused
    <3>1. n.cmd = c
      OBVIOUS
    <3> HIDE DEF n
    <3>2. \A k \in Cmds : Waiting(k)' => Waiting(k)
      BY <2>1, <2>2, <2>3, <2>4, <3>1 DEF Waiting
    <3> QED BY <1>4, <2>1, <2>4, <3>2 DEF countVars
  <2>5. CASE descs' = descs /\ refused' = [refused EXCEPT ![c] = @ + 1]
    <3>1. \A d \in descs : d.cmd # c
      BY <1>1, <2>1, <2>2, OnlyDescriptor
    <3>2. \A q \in Receivers : q # r /\ receiver[q].step \in {"claim", "admit"} => receiver[q].cmd # c
      BY <1>1, <2>1, <2>2, OnlyReceiver
    <3>3. Waiting(c) /\ ~Waiting(c)'
      BY <2>1, <2>2, <2>3, <2>5, <3>1, <3>2 DEF Waiting
    <3>4. \A k \in Cmds : Waiting(k)' => Waiting(k)
      BY <2>1, <2>3, <2>5 DEF Waiting
    <3> QED BY <1>1, <1>2, <2>1, <2>5, <3>3, <3>4 DEF CountOK
  <2> QED BY <1>19, <2>2, <2>4, <2>5 DEF Admit
<1> QED
  BY <1>8, <1>9, <1>10, <1>11, <1>12, <1>13, <1>14, <1>15, <1>16, <1>17, <1>18, <1>19
  DEF Next, Receive, Worker, Report, Configure

----------------------------------------------------------------------------
(* Types, and the theorems.                                                  *)

\* Every step keeps the types; that an ACK names a command needs ReceiverOK, that
\* a step of a worker makes a descriptor needs SlotHeld.
LEMMA TypeStep ==
    ASSUME IInv, [Next]_vars
    PROVE  TypeOK'
<1>1. TypeOK /\ ReceiverOK /\ SlotHeld
  BY DEF IInv
<1>2. /\ state \in [Slots -> SlotStates] /\ cmd \in [Slots -> Cmds \cup {NoCmd}]
      /\ result \in [Slots -> Results] /\ order \in [Slots -> Nat] /\ sequence \in Nat
      /\ receiver \in [Receivers -> Work]
      /\ executed \in [Cmds -> Nat] /\ reserved \in [Cmds -> Nat] /\ refused \in [Cmds -> Nat]
      /\ \A d \in descs : d \in Descs /\ d.slot \in Slots /\ d.cmd \in Cmds /\ d.result \in Results
      /\ \A r \in Receivers : receiver[r].slot \in Slots
  BY <1>1 DEF TypeOK, Descs, Work
<1>3. Idle \in Work /\ NoResult \in Results /\ \A c \in Cmds : Failed(c) \in Results
  <2>1. 1 \in Slots
    BY DepthAssumption DEF Slots
  <2> QED BY <2>1 DEF Idle, Work, Steps, NoResult, Failed, Results
<1>4. deliveries' \in 0..MaxDeliveries
  <2>1. ASSUME NEW r \in Receivers, Receive(r) PROVE UNCHANGED deliveries
    BY <2>1 DEF Receive, Reserve, Claim, Admit, Replay, Resend
  <2>2. ASSUME NEW b \in Buses, Worker(b) \/ Answer(b) PROVE UNCHANGED deliveries
    BY <2>2 DEF Worker, Take, GiveUp, Execute, Answer, workerUnchanged
  <2>3. CASE Report \/ Suspend \/ Configure \/ UNCHANGED vars
    BY <1>1, <2>3
    DEF TypeOK, Report, Complete, Store, PublishFinal, Suspend, Configure, ParkRx, BeginDrain, Resume, Apply,
        Park, Discard, Drained, configUnchanged, vars
  <2>4. ASSUME NEW r \in Receivers, NEW c \in Cmds, Deliver(r, c) PROVE deliveries' \in 0..MaxDeliveries
    <3>1. deliveries \in 0..MaxDeliveries /\ deliveries < MaxDeliveries /\ deliveries' = deliveries + 1
      BY <1>1, <2>4 DEF TypeOK, Deliver
    <3> QED BY <3>1, DepthAssumption
  <2>5. deliveries \in 0..MaxDeliveries
    BY <1>1 DEF TypeOK
  <2> QED BY <2>1, <2>2, <2>3, <2>4, <2>5 DEF Next
<1>5. ASSUME NEW r \in Receivers, NEW w \in Work, receiver' = [receiver EXCEPT ![r] = w]
      PROVE  receiver' \in [Receivers -> Work]
  BY <1>2, <1>5
<1>5a. ASSUME NEW c \in Cmds, NEW ok \in BOOLEAN, acks' = acks \cup {<<c, ok>>}
      PROVE  acks' \in SUBSET (Cmds \X BOOLEAN)
  <2>1. <<c, ok>> \in Cmds \X BOOLEAN
    OBVIOUS
  <2>2. acks \in SUBSET (Cmds \X BOOLEAN)
    BY <1>1 DEF TypeOK
  <2> QED BY <1>5a, <2>1, <2>2
<1>6. ASSUME NEW r \in Receivers, NEW c \in Cmds, Deliver(r, c) PROVE TypeOK'
  <2>1. [step |-> "scan", cmd |-> c, slot |-> 1, seen |-> Finished] \in Work
    BY DepthAssumption DEF Work, Steps, Finished, Slots
  <2>2. receiver' \in [Receivers -> Work]
    <3>1. CASE UNCHANGED receiver
      BY <1>2, <3>1
    <3>2. CASE receiver' = [receiver EXCEPT ![r] = [step |-> "scan", cmd |-> c, slot |-> 1, seen |-> Finished]]
      BY <1>5, <2>1, <3>2
    <3> QED BY <1>6, <3>1, <3>2 DEF Deliver
  <2>3. acks' \in SUBSET (Cmds \X BOOLEAN)
    <3>1. CASE UNCHANGED acks
      BY <1>1, <3>1 DEF TypeOK
    <3>2. CASE acks' = acks \cup {<<c, FALSE>>}
      BY <1>5a, <3>2
    <3> QED BY <1>6, <3>1, <3>2 DEF Deliver
  <2> QED BY <1>1, <1>4, <1>6, <2>2, <2>3 DEF Deliver, TypeOK, slotVars, configVars, countVars
<1>7. ASSUME NEW r \in Receivers, Reserve(r) PROVE TypeOK'
  <2>1. PICK c \in Cmds : c = receiver[r].cmd
    BY <1>1, <1>7 DEF ReceiverOK, Reserve
  <2>2. /\ UNCHANGED <<state, sequence, descs, publishing, configVars, finals, refused, executed>>
    BY <1>7 DEF Reserve, slotVars, PrepareSlot
  <2>3. CASE \E s \in Slots : PrepareSlot(r, s)
    <3>1. PICK s \in Slots : PrepareSlot(r, s)
      BY <2>3
    <3>2. [receiver[r] EXCEPT !.step = "claim", !.slot = s] \in Work
      BY <1>2 DEF Work, Steps
    <3>3. receiver' \in [Receivers -> Work]
      BY <1>5, <3>1, <3>2 DEF PrepareSlot
    <3>4. /\ cmd' \in [Slots -> Cmds \cup {NoCmd}] /\ result' \in [Slots -> Results]
          /\ order' \in [Slots -> Nat] /\ reserved' \in [Cmds -> Nat] /\ UNCHANGED acks
      BY <1>2, <1>3, <2>1, <3>1 DEF PrepareSlot
    <3> QED BY <1>1, <1>4, <2>2, <3>3, <3>4 DEF TypeOK, configVars
  <2>4. CASE ~\E s \in Slots : PrepareSlot(r, s)
    <3>1. UNCHANGED <<slotVars, reserved>>
      BY <1>7, <2>4 DEF Reserve
    <3>2. UNCHANGED acks \/ acks' = acks \cup {<<c, FALSE>>}
      BY <1>7, <2>1, <2>4 DEF Reserve
    <3>3. receiver' \in [Receivers -> Work]
      <4>1. \A s \in Slots : [step |-> "replay", cmd |-> c, slot |-> s, seen |-> {}] \in Work
        BY DEF Work, Steps
      <4>2. CASE receiver' = [receiver EXCEPT ![r] = Idle]
        BY <1>3, <1>5, <4>2
      <4>3. CASE \E s \in Slots : receiver' =
                  [receiver EXCEPT ![r] = [step |-> "replay", cmd |-> c, slot |-> s, seen |-> {}]]
        BY <1>5, <4>1, <4>3
      <4> QED BY <1>7, <2>1, <2>4, <4>2, <4>3 DEF Reserve
    <3>4. acks' \in SUBSET (Cmds \X BOOLEAN)
      <4>1. acks \in SUBSET (Cmds \X BOOLEAN)
        BY <1>1 DEF TypeOK
      <4> QED BY <1>5a, <3>2, <4>1
    <3> QED BY <1>1, <1>4, <2>2, <3>1, <3>3, <3>4 DEF TypeOK, configVars, slotVars
  <2> QED BY <2>3, <2>4
<1>8. ASSUME NEW r \in Receivers, Claim(r) PROVE TypeOK'
  <2>1. [receiver[r] EXCEPT !.step = "admit", !.seen = {}] \in Work
    BY <1>2 DEF Work, Steps
  <2>2. receiver' \in [Receivers -> Work]
    BY <1>5, <1>8, <2>1 DEF Claim
  <2>3. state' \in [Slots -> SlotStates]
    BY <1>2, <1>8 DEF Claim, ClaimedState, SlotStates
  <2> QED BY <1>1, <1>4, <1>8, <2>2, <2>3 DEF Claim, TypeOK, configVars, countVars
<1>9. ASSUME NEW r \in Receivers, Admit(r) PROVE TypeOK'
  <2>1. PICK c \in Cmds : c = receiver[r].cmd
    BY <1>1, <1>9 DEF ReceiverOK, Admit
  <2>2. receiver' \in [Receivers -> Work]
    BY <1>3, <1>5, <1>9 DEF Admit
  <2>3. \E b \in BOOLEAN : acks' = acks \cup {<<c, b>>}
    BY <1>9, <2>1 DEF Admit, Admits
  <2>4. acks' \in SUBSET (Cmds \X BOOLEAN)
    BY <1>5a, <2>3
  <2>5. /\ UNCHANGED <<cmd, order, sequence, publishing, configVars, finals, reserved, executed>>
    BY <1>9 DEF Admit
  <2>6. CASE /\ descs' = descs \cup {[place |-> "queue", slot |-> receiver[r].slot, cmd |-> c, result |-> NoResult]}
             /\ UNCHANGED <<state, result, refused>>
    <3>1. [place |-> "queue", slot |-> receiver[r].slot, cmd |-> c, result |-> NoResult] \in Descs
      BY <1>2, <1>3 DEF Descs, Places
    <3>2. descs' \in SUBSET Descs
      BY <1>2, <2>6, <3>1
    <3> QED BY <1>1, <1>4, <2>2, <2>4, <2>5, <2>6, <3>2 DEF TypeOK, configVars
  <2>7. CASE /\ result' = [result EXCEPT ![receiver[r].slot] = Failed(c)]
             /\ state' = [state EXCEPT ![receiver[r].slot] = "FINAL"]
             /\ refused' = [refused EXCEPT ![c] = @ + 1]
             /\ UNCHANGED descs
    <3>1. /\ state' \in [Slots -> SlotStates] /\ result' \in [Slots -> Results]
          /\ refused' \in [Cmds -> Nat]
      BY <1>2, <1>3, <2>7 DEF SlotStates
    <3> QED BY <1>1, <1>4, <2>2, <2>4, <2>5, <2>7, <3>1 DEF TypeOK, configVars
  <2> QED BY <1>9, <2>1, <2>6, <2>7 DEF Admit
<1>10. ASSUME NEW r \in Receivers, Replay(r) PROVE TypeOK'
  <2>1. PICK c \in Cmds : c = receiver[r].cmd
    BY <1>1, <1>10 DEF ReceiverOK, Replay
  <2>2. acks' \in SUBSET (Cmds \X BOOLEAN)
    BY <1>10, <1>5a, <2>1 DEF Replay
  <2>3. [receiver[r] EXCEPT !.step = "resend"] \in Work
    BY <1>2 DEF Work, Steps
  <2>4. receiver' \in [Receivers -> Work]
    BY <1>2, <1>3, <1>10, <2>3 DEF Replay
  <2> QED BY <1>1, <1>4, <1>10, <2>2, <2>4 DEF Replay, TypeOK, slotVars, configVars, countVars
<1>11. ASSUME NEW r \in Receivers, Resend(r) PROVE TypeOK'
  <2>1. finals' \in SUBSET Finals
    BY <1>1, <1>2, <1>11 DEF Resend, Finals, TypeOK
  <2>2. receiver' \in [Receivers -> Work]
    BY <1>3, <1>5, <1>11 DEF Resend
  <2> QED BY <1>1, <1>4, <1>11, <2>1, <2>2 DEF Resend, TypeOK, slotVars, configVars, countVars
<1>12. WorkerMoves => descs' \in SUBSET Descs
  <2>1. ASSUME WorkerMoves PROVE descs' \in SUBSET Descs
    <3>1. PICK d \in descs, n \in Descs : Replaces(d, n)
      BY <1>1, <2>1, Replacing
    <3> QED BY <1>2, <3>1 DEF Replaces
  <2> QED BY <2>1
<1>13. ASSUME NEW b \in Buses, Take(b) \/ GiveUp(b) \/ Answer(b) \/ Discard(b) PROVE TypeOK'
  <2>1. descs' \in SUBSET Descs
    BY <1>1, <1>12, <1>13, WorkerStep
  <2>2. UNCHANGED <<slotVars, receiver, publishing, configVars, acks, finals, countVars>>
    BY <1>13 DEF Take, GiveUp, Answer, Discard, workerUnchanged, configUnchanged, countVars
  <2> QED BY <1>1, <1>4, <2>1, <2>2 DEF TypeOK, slotVars, configVars, countVars
<1>14. ASSUME NEW b \in Buses, Execute(b) PROVE TypeOK'
  <2>1. descs' \in SUBSET Descs
    BY <1>1, <1>12, <1>14, WorkerStep
  <2>2. UNCHANGED <<slotVars, receiver, publishing, configVars, acks, finals, reserved, refused>>
    BY <1>14 DEF Execute, workerUnchanged
  <2>3. \E c \in Cmds : executed' = [executed EXCEPT ![c] = @ + 1]
    BY <1>1, <1>2, <1>14 DEF Execute, At, SlotHeld
  <2>4. executed' \in [Cmds -> Nat]
    BY <1>2, <2>3
  <2> QED BY <1>1, <1>4, <2>1, <2>2, <2>4 DEF TypeOK, slotVars, configVars
<1>15. CASE Complete
  <2>1. PICK d \in descs, n \in Descs :
              /\ descs' = (descs \ {d}) \cup {n}
              /\ state' = [state EXCEPT ![d.slot] = "COMPLETING"]
    BY <1>1, <1>15, Completing
  <2>2. descs' \in SUBSET Descs /\ state' \in [Slots -> SlotStates]
    BY <1>2, <2>1 DEF SlotStates
  <2> QED BY <1>1, <1>4, <1>15, <2>2 DEF Complete, TypeOK, configVars, countVars
<1>16. CASE Store
  <2>1. PICK d \in descs :
              /\ result' = [result EXCEPT ![d.slot] = d.result]
              /\ order' = [order EXCEPT ![d.slot] = sequence + 1]
              /\ state' = [state EXCEPT ![d.slot] = "FINAL"]
              /\ publishing' = {[slot |-> d.slot, result |-> d.result]}
              /\ descs' = descs \ {d}
    BY <1>16 DEF Store
  <2>2. /\ result' \in [Slots -> Results] /\ order' \in [Slots -> Nat]
        /\ state' \in [Slots -> SlotStates] /\ descs' \in SUBSET Descs
        /\ publishing' \in SUBSET [slot: Slots, result: Results]
    BY <1>2, <2>1 DEF SlotStates
  <2>3. sequence' \in Nat
    BY <1>2, <1>16 DEF Store
  <2> QED BY <1>1, <1>4, <1>16, <2>2, <2>3 DEF Store, TypeOK, configVars, countVars
<1>17. CASE PublishFinal
  <2>1. finals' \in SUBSET Finals
    BY <1>1, <1>2, <1>17 DEF PublishFinal, Finals, TypeOK
  <2>2. publishing' \in SUBSET [slot: Slots, result: Results]
    BY <1>17 DEF PublishFinal
  <2> QED BY <1>1, <1>4, <1>17, <2>1, <2>2 DEF PublishFinal, TypeOK, slotVars, configVars, countVars
<1>18. CASE Suspend \/ ParkRx \/ BeginDrain \/ Resume \/ Apply \/ \E b \in Buses : Park(b) \/ Drained(b)
  <2>1. UNCHANGED <<slotVars, receiver, publishing, acks, finals, countVars>> /\ descs' \subseteq descs
    BY <1>18 DEF Suspend, ParkRx, BeginDrain, Resume, Apply, Park, Drained, configUnchanged
  <2>2. /\ config' \in {"running", "suspending", "draining"}
        /\ parked' \in SUBSET Buses /\ rxParked' \in BOOLEAN
        /\ drained' \in SUBSET Buses /\ live' \in SUBSET Buses
    BY <1>1, <1>18 DEF TypeOK, Suspend, ParkRx, BeginDrain, Resume, Apply, Park, Drained
  <2>3. configs' \in 0..MaxConfigs
    BY <1>1, <1>18, DepthAssumption DEF TypeOK, Suspend, ParkRx, BeginDrain, Resume, Apply, Park, Drained
  <2> QED BY <1>1, <1>4, <2>1, <2>2, <2>3 DEF TypeOK, slotVars, countVars
<1>19. CASE UNCHANGED vars
  BY <1>1, <1>19 DEF TypeOK, vars, slotVars, configVars, countVars
<1> QED
  BY <1>6, <1>7, <1>8, <1>9, <1>10, <1>11, <1>13, <1>14, <1>15, <1>16, <1>17, <1>18, <1>19
  DEF Next, Receive, Worker, Report, Configure

\* Nothing is in a slot, on its way or parked at boot.
LEMMA InitIInv == ASSUME Init PROVE IInv
<1>1. 1 \in Slots /\ 0 \in 0..MaxDeliveries /\ 0 \in 0..MaxConfigs
  BY DepthAssumption DEF Slots
<1>2. Idle \in Work /\ NoResult \in Results /\ Idle.step = "idle"
  BY <1>1 DEF Idle, Work, Steps, NoResult, Results
<1>3. TypeOK
  BY <1>1, <1>2 DEF Init, TypeOK, SlotStates
<1>4. \A r \in Receivers : receiver[r].step = "idle"
  BY <1>2 DEF Init
<1>5. descs = {} /\ config = "running" /\ \A s \in Slots : state[s] = "FREE"
  BY DEF Init
<1>6. ReceiverOK /\ LockOK /\ ClaimOK /\ AdmitOK
  BY <1>4 DEF ReceiverOK, LockOK, ClaimOK, AdmitOK
<1>7. ResultOK /\ ParkedOK /\ SlotHeld /\ UniqueCommand /\ StoredFinalIsOwn /\ NoneForgotten
  BY <1>5 DEF ResultOK, ParkedOK, SlotHeld, UniqueCommand, StoredFinalIsOwn, NoneForgotten
<1>8. CountOK
  <2>1. \A c \in Cmds : ~Waiting(c)
    BY <1>4, <1>5 DEF Waiting
  <2> QED BY <2>1 DEF CountOK, Init
<1> QED BY <1>3, <1>6, <1>7, <1>8 DEF IInv

\* The invariant is inductive: one lemma above for each of its parts.
THEOREM Invariance == Spec => []IInv
<1>1. Init => IInv
  BY InitIInv
<1>2. IInv /\ [Next]_vars => IInv'
  <2>1. SUFFICES ASSUME IInv, [Next]_vars PROVE IInv'
    OBVIOUS
  <2>2. TypeOK' /\ ReceiverOK' /\ LockOK' /\ ClaimOK' /\ AdmitOK'
    BY <2>1, TypeStep, ReceiverStep, ClaimStep, AdmitStep
  <2>3. ResultOK' /\ ParkedOK' /\ SlotHeld' /\ UniqueCommand'
    BY <2>1, ResultStep, ParkedStep, HeldStep, UniqueStep
  <2>4. StoredFinalIsOwn' /\ NoneForgotten' /\ CountOK'
    BY <2>1, StoredStep, ForgottenStep, CountStep
  <2> QED BY <2>2, <2>3, <2>4 DEF IInv
<1> QED BY <1>1, <1>2, PTL DEF Spec

\* The slots, the receivers and the descriptors hold what their types allow.
THEOREM SlotsTyped == Spec => []TypeOK
<1>1. IInv => TypeOK
  BY DEF IInv
<1> QED BY <1>1, Invariance, PTL

\* A slot belongs to its command while a descriptor of it is on its way, however
\* many tasks receive commands and whatever configuration changes happen.
THEOREM HeldSlots == Spec => []SlotHeld
<1>1. IInv => SlotHeld
  BY DEF IInv
<1> QED BY <1>1, Invariance, PTL

\* No two slots hold commands of one id: a retry finds its command's slot.
THEOREM Unique == Spec => []UniqueCommand
<1>1. IInv => UniqueCommand
  BY DEF IInv
<1> QED BY <1>1, Invariance, PTL

\* A finished slot answers retries with its own command's result.
THEOREM OwnFinals == Spec => []StoredFinalIsOwn
<1>1. IInv => StoredFinalIsOwn
  BY DEF IInv
<1> QED BY <1>1, Invariance, PTL

\* No slot is left in use with nothing on its way to finish it.
THEOREM NothingForgotten == Spec => []NoneForgotten
<1>1. IInv => NoneForgotten
  BY DEF IInv
<1> QED BY <1>1, Invariance, PTL

\* A command is executed at most once for each slot it was given.
THEOREM ExecutedOncePerSlot == Spec => []OncePerSlot
<1>1. ASSUME IInv PROVE OncePerSlot
  <2>1. /\ \A c \in Cmds : executed[c] \in Nat /\ refused[c] \in Nat /\ reserved[c] \in Nat
        /\ CountOK
    BY <1>1 DEF IInv, TypeOK
  <2> QED BY <2>1 DEF CountOK, OncePerSlot
<1> QED BY <1>1, Invariance, PTL
=============================================================================
