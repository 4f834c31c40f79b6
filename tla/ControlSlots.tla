---------------------------- MODULE ControlSlots ----------------------------
(***************************************************************************)
(* The control slots of a collector node (esp32-collector): every           *)
(* ChannelCmdV2 the backend sends is held in one of a few RAM slots, from    *)
(* its admission until its Final has been published and beyond, so that a    *)
(* command that arrives again is answered from the slot and not executed     *)
(* again.                                                                    *)
(*                                                                          *)
(* Between admission and Final a descriptor of the slot travels from the     *)
(* receiving task through a bus's control queue, its worker, perhaps the     *)
(* queue of pending responses, and the queue of finals to the report task.   *)
(* Only the slot's index and the bytes to send travel: the batch plan is     *)
(* borrowed from the slot when the worker executes it.                       *)
(*                                                                          *)
(* One boot is modelled: the slots are not persistent, and after a restart   *)
(* the boot identity in every command sent before no longer matches.         *)
(***************************************************************************)
EXTENDS Integers, FiniteSets

CONSTANTS
    Cmds,           \* physical commands: all that same_identity compares
    Ids, IdOf,      \* their command ids (two commands may share one: a collision)
    Buses, BusOf,   \* the buses (one worker each) and the bus of each command
    Reads,          \* commands that wait for a response (read_size > 0) on a UART
    Plans,          \* commands that are batch plans
    Receivers,      \* tasks that may enter msg_handler_process
    SlotCount,      \* CHANNEL_CMD_V2_SLOT_COUNT
    QueueDepth,     \* depth of a bus's control queue
    FinalDepth,     \* CONTROL_FINAL_QUEUE_DEPTH
    MaxDeliveries,  \* bound on the commands delivered
    MaxConfigs,     \* bound on the configuration transactions
    NoCmd

ASSUME CommandAssumption ==
    /\ IsFiniteSet(Cmds) /\ NoCmd \notin Cmds
    /\ IdOf \in [Cmds -> Ids]
    /\ BusOf \in [Cmds -> Buses]
    /\ Reads \subseteq Cmds /\ Plans \subseteq Cmds
\* Every slot has room in the queue of finals (MAX_CHANNELS is 4 or 5, at most 8).
ASSUME DepthAssumption ==
    /\ SlotCount \in Nat \ {0}
    /\ QueueDepth \in Nat /\ FinalDepth \in Nat
    /\ SlotCount <= FinalDepth
    /\ MaxDeliveries \in Nat /\ MaxConfigs \in Nat

Slots      == 1..SlotCount
SlotStates == {"FREE", "QUEUED", "COMPLETING", "FINAL"}
\* A result, and the command whose execution it is the result of.
Results    == [of: Cmds \cup {NoCmd}, ok: BOOLEAN]
NoResult   == [of |-> NoCmd, ok |-> FALSE]
Failed(c)  == [of |-> c, ok |-> FALSE]
\* Where a descriptor is: control queue, worker, pending responses, queue of
\* finals, report task.  Nothing depends on the order within a queue.
Places     == {"queue", "worker", "pending", "final", "report"}
Descs      == [place: Places, slot: Slots, cmd: Cmds, result: Results]
Steps      == {"idle", "scan", "claim", "admit", "replay", "resend"}
Work       == [step: Steps, cmd: Cmds \cup {NoCmd}, slot: Slots, seen: SUBSET Slots]
Idle       == [step |-> "idle", cmd |-> NoCmd, slot |-> 1, seen |-> {}]
Finals     == [cmd: Cmds \cup {NoCmd}, result: Results]

VARIABLES
    \* s_slots and s_completed_sequence
    state, cmd, result, order, sequence,
    receiver,    \* what each receiving task is doing
    descs,       \* the descriptors on their way
    publishing,  \* the Finals the report task has stored and not yet published
    \* configuration: its step, the workers that are parked, whether rx_task is,
    \* the buses that have been drained, the buses that are configured
    config, parked, rxParked, drained, live,
    \* ACKs and Finals sent; slots taken, refusals after that, executions
    acks, finals, reserved, refused, executed,
    deliveries, configs

slotVars   == <<state, cmd, result, order, sequence>>
configVars == <<config, parked, rxParked, drained, live, configs>>
countVars  == <<reserved, refused, executed>>
vars == <<slotVars, receiver, descs, publishing, configVars, acks, finals, countVars, deliveries>>

Init ==
    /\ state = [s \in Slots |-> "FREE"]
    /\ cmd = [s \in Slots |-> NoCmd]
    /\ result = [s \in Slots |-> NoResult]
    /\ order = [s \in Slots |-> 0]
    /\ sequence = 0
    /\ receiver = [r \in Receivers |-> Idle]
    /\ descs = {}
    /\ publishing = {}
    /\ config = "running"
    /\ parked = {}
    /\ rxParked = FALSE
    /\ drained = {}
    /\ live = Buses
    /\ acks = {}
    /\ finals = {}
    /\ reserved = [c \in Cmds |-> 0]
    /\ refused = [c \in Cmds |-> 0]
    /\ executed = [c \in Cmds |-> 0]
    /\ deliveries = 0
    /\ configs = 0

Suspending == config # "running"

----------------------------------------------------------------------------
(* Receiving a command: handler_channel_cmd_v2_process and reserve_slot.     *)

\* Bug: the reservation lock is not taken.
LockIgnored == TRUE

\* s_reservation_lock: held from the scan of the slots to the claim of one.
LockFree == \A r \in Receivers : receiver[r].step \notin {"scan", "claim"}

\* Bug: a slot whose command is still on its way may be taken.
AnyTaken == {s \in Slots : state[s] # "FREE"}

\* The slots that may be taken from the command they hold.
Finished == {s \in Slots : state[s] = "FINAL"}

\* The first of the oldest finished slots among those seen.
Oldest(S, s) ==
    /\ s \in S
    /\ \A t \in S : order[s] < order[t] \/ (order[s] = order[t] /\ s <= t)

First(S, s) == s \in S /\ \A t \in S : s <= t

Unused == {s \in Slots : state[s] = "FREE"}

\* Bug: a finished slot no longer answers for its command.
SameIdUnfinished(c) == {s \in Slots : state[s] \in {"QUEUED", "COMPLETING"} /\ IdOf[cmd[s]] = IdOf[c]}

\* The slots that hold a command of c's id.
SameId(c) == {s \in Slots : state[s] # "FREE" /\ IdOf[cmd[s]] = IdOf[c]}

\* A well-formed command arrives.  One for another boot, one that is past its
\* deadline and any before the clock is set is refused; the others take the lock.
Deliver(r, c) ==
    /\ receiver[r] = Idle
    /\ deliveries < MaxDeliveries
    /\ deliveries' = deliveries + 1
    /\ \/ /\ acks' = acks \cup {<<c, FALSE>>}
          /\ UNCHANGED receiver
       \/ /\ LockFree
          /\ receiver' = [receiver EXCEPT ![r] = [step |-> "scan", cmd |-> c, slot |-> 1, seen |-> Finished]]
          /\ UNCHANGED acks
    /\ UNCHANGED <<slotVars, descs, publishing, configVars, finals, countVars>>

\* The command is in no slot: write it into slot s, whose state is not changed yet.
PrepareSlot(r, s) ==
    LET c == receiver[r].cmd IN
    /\ cmd' = [cmd EXCEPT ![s] = c]
    /\ result' = [result EXCEPT ![s] = NoResult]
    /\ order' = [order EXCEPT ![s] = 0]
    /\ receiver' = [receiver EXCEPT ![r] = [@ EXCEPT !.step = "claim", !.slot = s]]
    /\ reserved' = [reserved EXCEPT ![c] = @ + 1]
    /\ UNCHANGED <<state, sequence, acks>>

\* The result of the scan.  The report task may finish slots meanwhile, and the
\* scan may have passed them before: F are the slots it has seen finished.
Reserve(r) ==
    LET c == receiver[r].cmd IN
    /\ receiver[r].step = "scan"
    /\ \/ \* a replay, or another command under the same id
          \E s \in Slots :
             /\ First(SameId(c), s)
             /\ IF cmd[s] = c
                  THEN /\ receiver' = [receiver EXCEPT ![r] = [step |-> "replay", cmd |-> c, slot |-> s, seen |-> {}]]
                       /\ UNCHANGED acks
                  ELSE /\ receiver' = [receiver EXCEPT ![r] = Idle]
                       /\ acks' = acks \cup {<<c, FALSE>>}
             /\ UNCHANGED <<slotVars, reserved>>
       \/ /\ SameId(c) = {}
          /\ \E s \in Slots : First(Unused, s) /\ PrepareSlot(r, s)
       \/ /\ SameId(c) = {} /\ Unused = {}
          /\ \E F \in SUBSET Finished, s \in Slots :
                receiver[r].seen \subseteq F /\ Oldest(F, s) /\ PrepareSlot(r, s)
       \/ \* busy
          /\ SameId(c) = {} /\ Unused = {} /\ receiver[r].seen = {}
          /\ receiver' = [receiver EXCEPT ![r] = Idle]
          /\ acks' = acks \cup {<<c, FALSE>>}
          /\ UNCHANGED <<slotVars, reserved>>
    /\ UNCHANGED <<descs, publishing, configVars, finals, refused, executed, deliveries>>

\* Bug: the state RESERVED, which was given up, comes back.
ClaimedReserved == "RESERVED"

ClaimedState == "QUEUED"

\* The prepared slot becomes visible, the lock is released.
Claim(r) ==
    /\ receiver[r].step = "claim"
    /\ state' = [state EXCEPT ![receiver[r].slot] = ClaimedState]
    /\ receiver' = [receiver EXCEPT ![r] = [@ EXCEPT !.step = "admit", !.seen = {}]]
    /\ UNCHANGED <<cmd, result, order, sequence, descs, publishing, configVars, acks, finals, countVars,
                   deliveries>>

At(place, b) == {d \in descs : d.place = place /\ BusOf[d.cmd] = b}

\* bus_manager_on_channel_cmd_v2: the bus is configured, its queue has room.
Admits(b) == b \in live /\ Cardinality(At("queue", b)) < QueueDepth

\* The slot is handed to the bus, or refused: then it becomes FINAL at once and
\* is the first to be taken again.
Admit(r) ==
    LET c == receiver[r].cmd
        s == receiver[r].slot
        admitted == Admits(BusOf[c])
    IN
    /\ receiver[r].step = "admit"
    /\ IF admitted
         THEN /\ descs' = descs \cup {[place |-> "queue", slot |-> s, cmd |-> c, result |-> NoResult]}
              /\ UNCHANGED <<state, result, refused>>
         ELSE /\ result' = [result EXCEPT ![s] = Failed(c)]
              /\ state' = [state EXCEPT ![s] = "FINAL"]
              /\ refused' = [refused EXCEPT ![c] = @ + 1]
              /\ UNCHANGED descs
    /\ acks' = acks \cup {<<c, admitted>>}
    /\ receiver' = [receiver EXCEPT ![r] = Idle]
    /\ UNCHANGED <<cmd, order, sequence, publishing, configVars, finals, reserved, executed, deliveries>>

\* A replay is acknowledged, and answered if the slot is FINAL ...
Replay(r) ==
    LET c == receiver[r].cmd IN
    /\ receiver[r].step = "replay"
    /\ acks' = acks \cup {<<c, TRUE>>}
    /\ receiver' = [receiver EXCEPT ![r] =
          IF state[receiver[r].slot] = "FINAL" THEN [@ EXCEPT !.step = "resend"] ELSE Idle]
    /\ UNCHANGED <<slotVars, descs, publishing, configVars, finals, countVars, deliveries>>

\* ... with what the slot holds by then.
Resend(r) ==
    LET s == receiver[r].slot IN
    /\ receiver[r].step = "resend"
    /\ finals' = finals \cup {[cmd |-> cmd[s], result |-> result[s]]}
    /\ receiver' = [receiver EXCEPT ![r] = Idle]
    /\ UNCHANGED <<slotVars, descs, publishing, configVars, acks, countVars, deliveries>>

----------------------------------------------------------------------------
(* bus_worker: the workers of the buses, rx_task and the queue of finals.    *)

\* Descriptor d moves on.
Moved(d, place) == (descs \ {d}) \cup {[d EXCEPT !.place = place]}

\* queue_control_final: d's final, dropped when the queue is full.
Finish(d, res) ==
    descs' = (descs \ {d}) \cup
        IF Cardinality({e \in descs : e.place = "final"}) < FinalDepth
          THEN {[d EXCEPT !.place = "final", !.result = res]} ELSE {}

\* Bug: the command is looked at, not taken out of the queue.
Peeked(d) == descs \cup {[d EXCEPT !.place = "worker"]}

\* Out of the control queue, into the worker's hands.
Received(d) == Moved(d, "worker")

workerUnchanged ==
    UNCHANGED <<slotVars, receiver, publishing, configVars, acks, finals, reserved, refused, deliveries>>

Take(b) ==
    /\ b \notin parked
    /\ At("worker", b) = {}
    /\ \E d \in At("queue", b) : descs' = Received(d)
    /\ UNCHANGED executed
    /\ workerUnchanged

\* The bus is not configured, or the worker is to be suspended while it waits for
\* an earlier response.
GiveUp(b) ==
    /\ \E d \in At("worker", b) :
          /\ b \notin live \/ (d.cmd \in Reads /\ Suspending)
          /\ Finish(d, Failed(d.cmd))
    /\ UNCHANGED executed
    /\ workerUnchanged

\* channel_cmd_v2_borrow_plan: the plan is the slot's, if the slot is in use and
\* its command has one.
Borrows(d) == state[d.slot] \in {"QUEUED", "COMPLETING"} /\ cmd[d.slot] \in Plans

\* A plan is executed to its end or its first error; a single command that
\* expects a response becomes pending.  (A response that comes before that is
\* not recognised: the command then times out.)
Execute(b) ==
    /\ \E d \in At("worker", b) :
          LET c == IF Borrows(d) THEN cmd[d.slot] ELSE d.cmd IN
          /\ b \in live
          /\ d.cmd \in Reads => At("pending", b) = {}
          /\ executed' = [executed EXCEPT ![c] = @ + 1]
          /\ \/ \E ok \in BOOLEAN :
                   /\ ok => Borrows(d) \/ d.cmd \notin Reads
                   /\ Finish(d, [of |-> c, ok |-> ok])
             \/ ~Borrows(d) /\ d.cmd \in Reads /\ descs' = Moved(d, "pending")
    /\ workerUnchanged

\* rx_task: the response is complete, overflows or is overdue.
Answer(b) ==
    /\ ~rxParked /\ b \in live
    /\ \E d \in At("pending", b), ok \in BOOLEAN : Finish(d, [of |-> d.cmd, ok |-> ok])
    /\ UNCHANGED executed
    /\ workerUnchanged

----------------------------------------------------------------------------
(* report_task: handler_channel_cmd_v2_complete.                             *)

\* The slot passes from QUEUED to COMPLETING; if it is not QUEUED the final is
\* dropped.
Complete ==
    /\ publishing = {}
    /\ \A d \in descs : d.place # "report"
    /\ \E d \in descs :
          /\ d.place = "final"
          /\ IF state[d.slot] = "QUEUED"
               THEN /\ state' = [state EXCEPT ![d.slot] = "COMPLETING"]
                    /\ descs' = Moved(d, "report")
               ELSE descs' = descs \ {d} /\ UNCHANGED state
    /\ UNCHANGED <<cmd, result, order, sequence, receiver, publishing, configVars, acks, finals, countVars,
                   deliveries>>

\* The result is stored, the slot is FINAL ...
Store ==
    /\ \E d \in descs :
          /\ d.place = "report"
          /\ result' = [result EXCEPT ![d.slot] = d.result]
          /\ order' = [order EXCEPT ![d.slot] = sequence + 1]
          /\ state' = [state EXCEPT ![d.slot] = "FINAL"]
          /\ publishing' = {[slot |-> d.slot, result |-> d.result]}
          /\ descs' = descs \ {d}
    /\ sequence' = sequence + 1
    /\ UNCHANGED <<cmd, receiver, configVars, acks, finals, countVars, deliveries>>

\* ... and the Final is sent, under the identity the slot has by then.
PublishFinal ==
    /\ \E p \in publishing : finals' = finals \cup {[cmd |-> cmd[p.slot], result |-> p.result]}
    /\ publishing' = {}
    /\ UNCHANGED <<slotVars, receiver, descs, configVars, acks, countVars, deliveries>>

----------------------------------------------------------------------------
(* A configuration transaction: bus_worker_suspend, bus_worker_discard_queued,*)
(* bus_manager_cleanup_all, bus_worker_resume.                               *)

configUnchanged == UNCHANGED <<slotVars, receiver, publishing, acks, finals, countVars, deliveries>>

Suspend ==
    /\ config = "running"
    /\ configs < MaxConfigs
    /\ configs' = configs + 1
    /\ config' = "suspending"
    /\ parked' = {}
    /\ rxParked' = FALSE
    /\ UNCHANGED <<drained, live, descs>>
    /\ configUnchanged

\* A worker that is about to take its next command, and rx_task, park; that the flag is
\* read before the bit is set is a matter of ConfigApply (Look, SetBit).
Park(b) ==
    /\ Suspending
    /\ b \notin parked
    /\ At("worker", b) = {}
    /\ parked' = parked \cup {b}
    /\ UNCHANGED <<config, rxParked, drained, live, configs, descs>>
    /\ configUnchanged

ParkRx ==
    /\ Suspending /\ ~rxParked
    /\ rxParked' = TRUE
    /\ UNCHANGED <<config, parked, drained, live, configs, descs>>
    /\ configUnchanged

\* The transaction begins when all are parked.
BeginDrain ==
    /\ config = "suspending"
    /\ parked = Buses /\ rxParked
    /\ config' = "draining"
    /\ drained' = {}
    /\ UNCHANGED <<parked, rxParked, live, configs, descs>>
    /\ configUnchanged

\* A worker did not park in time, or the new manifest is refused before the
\* transaction: all goes on as before.
Resume ==
    /\ config = "suspending"
    /\ config' = "running"
    /\ parked' = {}
    /\ rxParked' = FALSE
    /\ UNCHANGED <<drained, live, configs, descs>>
    /\ configUnchanged

\* Bug: what waits for a response is left to the reset of the pending queues.
QueuedOnly(b) == At("queue", b)

\* What discard_queued completes: queued commands and those waiting for a response.
Discardable(b) == At("queue", b) \cup At("pending", b)

\* The configuration was changed before dispatch, or before the response.
Discard(b) ==
    /\ config = "draining"
    /\ b \notin drained
    /\ \E d \in Discardable(b) : Finish(d, Failed(d.cmd))
    /\ UNCHANGED configVars
    /\ configUnchanged

Drained(b) ==
    /\ config = "draining"
    /\ b \notin drained
    /\ Discardable(b) = {}
    /\ drained' = drained \cup {b}
    /\ UNCHANGED <<config, parked, rxParked, live, configs, descs>>
    /\ configUnchanged

\* The buses are torn down, pending queues reset, and those of the new manifest,
\* of the old one after a rollback, or none are set up.
Apply ==
    /\ config = "draining"
    /\ drained = Buses
    /\ descs' = {d \in descs : d.place # "pending"}
    /\ live' \in SUBSET Buses
    /\ config' = "running"
    /\ parked' = {}
    /\ rxParked' = FALSE
    /\ drained' = {}
    /\ UNCHANGED configs
    /\ configUnchanged

----------------------------------------------------------------------------

Receive(r) == Reserve(r) \/ Claim(r) \/ Admit(r) \/ Replay(r) \/ Resend(r)
Worker(b)  == Take(b) \/ GiveUp(b) \/ Execute(b)
Report     == Complete \/ Store \/ PublishFinal
Configure  == ParkRx \/ BeginDrain \/ Resume \/ Apply \/ \E b \in Buses : Park(b) \/ Discard(b) \/ Drained(b)

Next ==
    \/ \E r \in Receivers : Receive(r) \/ \E c \in Cmds : Deliver(r, c)
    \/ \E b \in Buses : Worker(b) \/ Answer(b)
    \/ Report
    \/ Suspend \/ Configure

Spec == Init /\ [][Next]_vars

\* Every task is scheduled, responses come or time out, a suspension ends.  A
\* worker that is not parked for ever takes the next command in the end.
Fairness ==
    /\ \A r \in Receivers : WF_vars(Receive(r))
    /\ \A b \in Buses : SF_vars(Take(b)) /\ WF_vars(GiveUp(b) \/ Execute(b)) /\ SF_vars(Answer(b))
    /\ WF_vars(Report)
    /\ WF_vars(Configure)

FairSpec == Spec /\ Fairness

----------------------------------------------------------------------------
(* Properties.                                                              *)

\* Every variable has its type.
TypeOK ==
    /\ state \in [Slots -> SlotStates]
    /\ cmd \in [Slots -> Cmds \cup {NoCmd}]
    /\ result \in [Slots -> Results]
    /\ order \in [Slots -> Nat]
    /\ sequence \in Nat
    /\ receiver \in [Receivers -> Work]
    /\ descs \in SUBSET Descs
    /\ publishing \in SUBSET [slot: Slots, result: Results]
    /\ config \in {"running", "suspending", "draining"}
    /\ parked \in SUBSET Buses /\ rxParked \in BOOLEAN
    /\ drained \in SUBSET Buses /\ live \in SUBSET Buses
    /\ acks \in SUBSET (Cmds \X BOOLEAN)
    /\ finals \in SUBSET Finals
    /\ reserved \in [Cmds -> Nat] /\ refused \in [Cmds -> Nat] /\ executed \in [Cmds -> Nat]
    /\ deliveries \in 0..MaxDeliveries /\ configs \in 0..MaxConfigs

\* A slot belongs to its command as long as a descriptor of it is on its way: no
\* two descriptors share a slot, and the slot is not taken, so that the plan a
\* worker borrows and the result that is stored are those of the right command.
SlotHeld ==
    /\ \A d, e \in descs : d.slot = e.slot => d = e
    /\ \A d \in descs :
          /\ cmd[d.slot] = d.cmd
          /\ state[d.slot] = IF d.place = "report" THEN "COMPLETING" ELSE "QUEUED"

\* No final is lost (the queue of finals never overflows): a slot that is in use
\* is in the hands of its receiver or has a descriptor on its way.
NoneForgotten ==
    \A s \in Slots : state[s] \in {"QUEUED", "COMPLETING"} =>
        \/ \E r \in Receivers : receiver[r].step = "admit" /\ receiver[r].slot = s
        \/ \E d \in descs : d.slot = s

\* No two slots hold commands of the same id, whatever tasks receive them
\* concurrently: a retry finds the slot of its command as long as there is one.
UniqueCommand ==
    \A s, t \in Slots : s # t /\ state[s] # "FREE" /\ state[t] # "FREE" => IdOf[cmd[s]] # IdOf[cmd[t]]

\* The result a finished slot keeps for retries is that of its own command (from
\* prepare_slot to the claim a slot holds no result).
StoredFinalIsOwn ==
    \A s \in Slots : state[s] = "FINAL" =>
        \/ result[s].of = cmd[s]
        \/ \E r \in Receivers : receiver[r].step = "claim" /\ receiver[r].slot = s

\* A command is executed at most once for every slot it was given, and not for
\* one whose admission was refused.
OncePerSlot == \A c \in Cmds : executed[c] + refused[c] <= reserved[c]

\* A command that got a slot is finished, whatever configuration changes happen.
Finishes == \A s \in Slots : state[s] = "QUEUED" ~> state[s] = "FINAL"

----------------------------------------------------------------------------
(* What comments and documents say and the code does not do; each is refuted. *)

\* handler_channel_cmd_v2.c: "A completion owns the slot while publishing its
\* result": the Final that is sent is that of the command it names.
FinalIsOwn == \A f \in finals : f.result.of = f.cmd

\* The slots are an at-most-once inbox: a command sent twice to one boot of a node
\* is executed once.
AtMostOnce == \A c \in Cmds : executed[c] <= 1
============================================================================
