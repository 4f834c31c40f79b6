-------------------------- MODULE NodeUpdateProofs ---------------------------
(***************************************************************************)
(* Proofs about the two ways in which a node is changed while it runs: a   *)
(* new configuration (ConfigApply) and a new firmware (Ota).               *)
(*                                                                         *)
(* ConfigApply, for any number of workers, manifests and duty cycles: the  *)
(* invariant says, for every step of the handler, who is                   *)
(* stopped (Quiet; the workers, if they acknowledge promptly: Parked),     *)
(* which slots the manifests are in (Slotted), what the forward steps and  *)
(* the rollback have built (Built), what the confirmed manifest still has  *)
(* (Kept) and which duty cycle is owed (Owed).  Only that the workers are  *)
(* parked, and with it that buses are rebuilt alone, needs prompt workers. *)
(*                                                                         *)
(* Ota, for any number of tasks, versions, requests and workers: see the   *)
(* second part.                                                            *)
(***************************************************************************)
EXTENDS ConfigApply, Ota, FiniteSetTheorems, SequenceTheorems, WellFoundedInduction, TLAPS


Steps == {"idle", "clear", "request", "wait", "stage", "preinstall", "begin", "snapshot", "stop",
          "prepare", "dma", "periph", "buses", "sched", "commit", "persist", "rstop", "rdma",
          "rbuses", "rbroken", "rsched", "safe", "end", "discard", "resume", "restart"}

\* Types.
Typed ==
  /\ TypeOK /\ pc \in Steps
  /\ result \in {"none", "ok", "unchanged", "restored", "safe", "fatal"}
  /\ pc = "restart" => result = "fatal"
  /\ result = "fatal" => pc \in {"discard", "restart"}

Stopped == {"dma", "periph", "buses", "sched", "rstop", "rdma", "rbuses", "rbroken", "rsched", "safe"}

\* A bit stands for a parked worker, from the suspension to the resumption.
Parked ==
  /\ pc = "request" => bits = {} /\ \A w \in Workers : worker[w] # "saw"
  /\ pc = "wait" => \A w \in bits : worker[w] = "parked"
  /\ pc \notin {"idle", "clear", "request", "wait"} => \A w \in Workers : worker[w] = "parked"

\* The suspension, where workers are prompt, and the scheduler.
Quiet ==
  /\ requested <=> pc \notin {"idle", "clear", "request"}
  /\ PromptAck => Parked
  /\ pc \in {"prepare"} \cup Stopped => mode = "off"
  /\ pc \in Stopped => ~task

Forward == {"begin", "snapshot", "stop", "prepare", "dma", "periph", "buses", "sched", "commit",
            "rstop", "rdma", "rbuses", "rbroken", "rsched", "safe", "end"}

\* The slots: the staged manifest is never in the one a rollback reads.
Slotted ==
  /\ staged \in {None, 1 - active}
  /\ pc \in Forward \cup {"preinstall"} => staged = 1 - active
  /\ pc \in Forward \cup {"clear", "request", "wait", "stage", "preinstall"} =>
       old = IF slot[active] = Empty THEN None ELSE active

\* What the forward steps and the rollback have built.
Built ==
  /\ pc \in {"periph", "buses", "sched", "commit"} => dma = slot[1 - active]
  /\ pc \in {"buses", "sched", "commit"} => periph = slot[1 - active] /\ duty = Initial
  /\ pc \in {"sched", "commit"} => buses = slot[1 - active]
  /\ pc = "commit" => sched = slot[1 - active] /\ task /\ mode = "prepared"
  /\ pc = "persist" => confirmed = Empty /\ Runs(slot[active])
  /\ pc \in {"rbuses", "rsched"} => dma = saved.dma /\ periph = saved.periph /\ duty = saved.duty
  /\ pc = "rsched" => buses = slot[active] /\ old = active

Taken == {"prepare", "dma", "periph", "buses", "sched", "commit", "rstop", "rdma", "rbuses",
          "rbroken", "rsched", "safe"}

\* What was confirmed runs, or a rollback can bring it back.
Kept ==
  confirmed # Empty =>
    /\ slot[active] = confirmed /\ persisted = confirmed
    /\ pc \in Taken \cup {"stop"} => saved.dma = confirmed /\ saved.periph = confirmed
    /\ pc \notin Taken /\ result # "fatal" => Runs(confirmed)

\* The duty cycle that was last set is the channel's, or the snapshot's.
Owed ==
  /\ pc \in Taken \cup {"snapshot", "stop", "end"} \/ result = "fatal" => gate
  /\ pc \in Taken \cup {"stop"} => (saved.periph \in Manifests => saved.duty = wanted)
  /\ pc \notin {"buses", "sched", "commit", "rstop", "rdma", "rbroken", "safe"} /\ result # "fatal" =>
       (periph \in Manifests => duty = wanted)

IInv == Typed /\ Quiet /\ Slotted /\ Built /\ Kept /\ Owed

\* ClearBits keeps the invariant.
LEMMA ClearBitsStep == ASSUME IInv, ClearBits PROVE IInv'
<1>1. Typed'  BY ApplyAssumption DEF IInv, Typed, TypeOK, Steps, None, Loaded, ClearBits, Goto,
             message, manifests, runtime, scheduler, outcome
<1>2. Quiet'  BY DEF IInv, Quiet, Parked, Stopped, ClearBits, Goto, message, manifests, runtime,
             scheduler, outcome
<1>3. Slotted'  BY DEF IInv, Slotted, Forward, None, ClearBits, Goto, message, manifests, runtime,
             scheduler, outcome
<1>4. Built'  BY DEF IInv, Built, Runs, ClearBits, Goto, message, manifests, runtime, scheduler,
             outcome
<1>5. Kept'  BY DEF IInv, Kept, Runs, Taken, ClearBits, Goto, message, manifests, runtime,
             scheduler, outcome
<1>6. Owed'  BY DEF IInv, Owed, Taken, ClearBits, Goto, message, manifests, runtime, scheduler,
             outcome
<1> QED  BY <1>1, <1>2, <1>3, <1>4, <1>5, <1>6 DEF IInv

\* RequestSuspension keeps the invariant.
LEMMA RequestSuspensionStep == ASSUME IInv, RequestSuspension PROVE IInv'
<1>1. Typed'  BY ApplyAssumption DEF IInv, Typed, TypeOK, Steps, None, Loaded, RequestSuspension,
             Goto, message, manifests, runtime, scheduler, outcome
<1>2. Quiet'  BY DEF IInv, Quiet, Parked, Stopped, RequestSuspension, Goto, message, manifests, runtime,
             scheduler, outcome
<1>3. Slotted'  BY DEF IInv, Slotted, Forward, None, RequestSuspension, Goto, message, manifests,
             runtime, scheduler, outcome
<1>4. Built'  BY DEF IInv, Built, Runs, RequestSuspension, Goto, message, manifests, runtime,
             scheduler, outcome
<1>5. Kept'  BY DEF IInv, Kept, Runs, Taken, RequestSuspension, Goto, message, manifests, runtime,
             scheduler, outcome
<1>6. Owed'  BY DEF IInv, Owed, Taken, RequestSuspension, Goto, message, manifests, runtime,
             scheduler, outcome
<1> QED  BY <1>1, <1>2, <1>3, <1>4, <1>5, <1>6 DEF IInv

\* Suspended keeps the invariant.
LEMMA SuspendedStep == ASSUME IInv, Suspended PROVE IInv'
<1>1. Typed'  BY ApplyAssumption DEF IInv, Typed, TypeOK, Steps, None, Loaded, Suspended,
             AllAcked, Goto, message, suspension, manifests, runtime, scheduler, outcome
<1>2. Quiet'  BY DEF IInv, Quiet, Parked, Stopped, Suspended, AllAcked, Goto, message, suspension,
             manifests, runtime, scheduler, outcome
<1>3. Slotted'  BY DEF IInv, Slotted, Forward, None, Suspended, AllAcked, Goto, message,
             suspension, manifests, runtime, scheduler, outcome
<1>4. Built'  BY DEF IInv, Built, Runs, Suspended, AllAcked, Goto, message, suspension, manifests,
             runtime, scheduler, outcome
<1>5. Kept'  BY DEF IInv, Kept, Runs, Taken, Suspended, AllAcked, Goto, message, suspension,
             manifests, runtime, scheduler, outcome
<1>6. Owed'  BY DEF IInv, Owed, Taken, Suspended, AllAcked, Goto, message, suspension, manifests,
             runtime, scheduler, outcome
<1> QED  BY <1>1, <1>2, <1>3, <1>4, <1>5, <1>6 DEF IInv

\* SuspendTimesOut keeps the invariant.
LEMMA SuspendTimesOutStep == ASSUME IInv, SuspendTimesOut PROVE IInv'
<1>1. Typed'  BY ApplyAssumption DEF IInv, Typed, TypeOK, Steps, None, Loaded, SuspendTimesOut,
             Goto, message, manifests, runtime, scheduler, outcome
<1>2. Quiet'  BY DEF IInv, Quiet, Parked, Stopped, SuspendTimesOut, Goto, message, manifests, runtime,
             scheduler, outcome
<1>3. Slotted'  BY DEF IInv, Slotted, Forward, None, SuspendTimesOut, Goto, message, manifests,
             runtime, scheduler, outcome
<1>4. Built'  BY DEF IInv, Built, Runs, SuspendTimesOut, Goto, message, manifests, runtime,
             scheduler, outcome
<1>5. Kept'  BY DEF IInv, Kept, Runs, Taken, SuspendTimesOut, Goto, message, manifests, runtime,
             scheduler, outcome
<1>6. Owed'  BY DEF IInv, Owed, Taken, SuspendTimesOut, Goto, message, manifests, runtime,
             scheduler, outcome
<1> QED  BY <1>1, <1>2, <1>3, <1>4, <1>5, <1>6 DEF IInv

\* Stage keeps the invariant.
LEMMA StageStep == ASSUME IInv, NEW ok \in BOOLEAN, Stage(ok) PROVE IInv'
<1>1. Typed'  BY ApplyAssumption DEF IInv, Typed, TypeOK, Steps, None, Loaded, Stage, StageSlot,
             Goto, message, suspension, runtime, scheduler, outcome
<1>2. Quiet'  BY DEF IInv, Quiet, Parked, Stopped, Stage, StageSlot, Goto, message, suspension, runtime,
             scheduler, outcome
<1>3. Slotted'  BY DEF IInv, Slotted, Forward, None, Stage, StageSlot, Goto, message, suspension,
             runtime, scheduler, outcome
<1>4. Built'  BY DEF IInv, Built, Runs, Stage, StageSlot, Goto, message, suspension, runtime,
             scheduler, outcome
<1>5. Kept'  BY DEF IInv, Typed, TypeOK, Steps, None, Loaded, Kept, Runs, Taken, Stage, StageSlot,
             Goto, message, suspension, runtime, scheduler, outcome
<1>6. Owed'  BY DEF IInv, Owed, Taken, Stage, StageSlot, Goto, message, suspension, runtime,
             scheduler, outcome
<1> QED  BY <1>1, <1>2, <1>3, <1>4, <1>5, <1>6 DEF IInv

\* Preinstall keeps the invariant.
LEMMA PreinstallStep == ASSUME IInv, NEW ok \in BOOLEAN, Preinstall(ok) PROVE IInv'
<1>1. Typed'  BY ApplyAssumption DEF IInv, Typed, TypeOK, Steps, None, Loaded, Preinstall,
             Discard, Goto, message, suspension, manifests, runtime, scheduler, outcome
<1>2. Quiet'  BY DEF IInv, Quiet, Parked, Stopped, Preinstall, Discard, Goto, message, suspension,
             manifests, runtime, scheduler, outcome
<1>3. Slotted'  BY DEF IInv, Slotted, Forward, None, Preinstall, Discard, Goto, message,
             suspension, manifests, runtime, scheduler, outcome
<1>4. Built'  BY DEF IInv, Built, Runs, Preinstall, Discard, Goto, message, suspension, manifests,
             runtime, scheduler, outcome
<1>5. Kept'  BY DEF IInv, Typed, TypeOK, Steps, None, Loaded, Slotted, Forward, Kept, Runs, Taken,
             Preinstall, Discard, Goto, message, suspension, manifests, runtime, scheduler,
             outcome
<1>6. Owed'  BY DEF IInv, Owed, Taken, Preinstall, Discard, Goto, message, suspension, manifests,
             runtime, scheduler, outcome
<1> QED  BY <1>1, <1>2, <1>3, <1>4, <1>5, <1>6 DEF IInv

\* Begin keeps the invariant.
LEMMA BeginStep == ASSUME IInv, NEW ok \in BOOLEAN, Begin(ok) PROVE IInv'
<1>1. Typed'  BY ApplyAssumption DEF IInv, Typed, TypeOK, Steps, None, Loaded, Begin, GateFree,
             Goto, message, suspension, manifests, runtime, scheduler
<1>2. Quiet'  BY DEF IInv, Quiet, Parked, Stopped, Begin, GateFree, Goto, message, suspension, manifests,
             runtime, scheduler
<1>3. Slotted'  BY DEF IInv, Slotted, Forward, None, Begin, GateFree, Goto, message, suspension,
             manifests, runtime, scheduler
<1>4. Built'  BY DEF IInv, Built, Runs, Begin, GateFree, Goto, message, suspension, manifests,
             runtime, scheduler
<1>5. Kept'  BY DEF IInv, Typed, TypeOK, Steps, None, Loaded, Kept, Runs, Taken, Begin, GateFree,
             Goto, message, suspension, manifests, runtime, scheduler
<1>6. Owed'  BY DEF IInv, Owed, Taken, Begin, GateFree, Goto, message, suspension, manifests,
             runtime, scheduler
<1> QED  BY <1>1, <1>2, <1>3, <1>4, <1>5, <1>6 DEF IInv

\* Snapshot keeps the invariant.
LEMMA SnapshotStep == ASSUME IInv, NEW ok \in BOOLEAN, Snapshot(ok) PROVE IInv'
<1>a. ok => saved'.dma = dma /\ saved'.periph = periph /\ saved'.duty = duty
  BY DEF Snapshot
<1>b. ~ok => saved' = saved
  BY DEF Snapshot
<1>c. /\ pc = "snapshot"
      /\ ok => pc' = "stop" /\ UNCHANGED <<gate, result>>
      /\ ~ok => pc' = "discard" /\ result' = "unchanged"
  BY DEF Snapshot, Goto
<1>d. UNCHANGED <<slot, active, dma, periph, buses, duty, task, sched, mode, persisted, confirmed,
                wanted>>
  BY DEF Snapshot, manifests, runtime, scheduler
<1>1. Typed'
  <2>1. incoming' \in Loaded /\ old' \in 0 .. None /\ requested' \in BOOLEAN /\ bits' \subseteq Workers
    BY ApplyAssumption, <1>a, <1>b DEF IInv, Typed, TypeOK, Steps, None, Loaded, Snapshot, Goto,
       message, suspension, manifests, runtime, scheduler
  <2>2. worker' \in [Workers -> {"top", "saw", "parked", "busy"}]
    BY ApplyAssumption, <1>a, <1>b DEF IInv, Typed, TypeOK, Steps, None, Loaded, Snapshot, Goto,
       message, suspension, manifests, runtime, scheduler
  <2>3. slot' \in [0 .. 1 -> Loaded] /\ active' \in 0 .. 1 /\ staged' \in 0 .. None
    BY ApplyAssumption, <1>a, <1>b DEF IInv, Typed, TypeOK, Steps, None, Loaded, Snapshot, Goto,
       message, suspension, manifests, runtime, scheduler
  <2>4. {dma', periph', buses', saved'.dma, saved'.periph} \subseteq Loaded \cup {Partial}
    BY ApplyAssumption, <1>a, <1>b DEF IInv, Typed, TypeOK, Steps, None, Loaded, Snapshot, Goto,
       message, suspension, manifests, runtime, scheduler
  <2>5. {duty', wanted', saved'.duty} \subseteq Levels
    BY ApplyAssumption, <1>a, <1>b DEF IInv, Typed, TypeOK, Steps, None, Loaded, Snapshot, Goto,
       message, suspension, manifests, runtime, scheduler
  <2>6. gate' \in BOOLEAN /\ task' \in BOOLEAN /\ mode' \in {"off", "prepared", "running"}
    BY ApplyAssumption, <1>a, <1>b DEF IInv, Typed, TypeOK, Steps, None, Loaded, Snapshot, Goto,
       message, suspension, manifests, runtime, scheduler
  <2>7. sched' \in Loaded /\ {persisted', confirmed'} \subseteq Loaded
    BY ApplyAssumption, <1>a, <1>b DEF IInv, Typed, TypeOK, Steps, None, Loaded, Snapshot, Goto,
       message, suspension, manifests, runtime, scheduler
  <2>8. /\ pc' \in Steps
        /\ result' \in {"none", "ok", "unchanged", "restored", "safe", "fatal"}
        /\ pc' = "restart" => result' = "fatal"
        /\ result' = "fatal" => pc' \in {"discard", "restart"}
    BY ApplyAssumption, <1>a, <1>b DEF IInv, Typed, TypeOK, Steps, None, Loaded, Snapshot, Goto,
       message, suspension, manifests, runtime, scheduler
  <2> QED  BY <2>1, <2>2, <2>3, <2>4, <2>5, <2>6, <2>7, <2>8 DEF Typed, TypeOK
<1>2. Quiet'  BY DEF IInv, Quiet, Parked, Stopped, Snapshot, Goto, message, suspension, manifests,
             runtime, scheduler
<1>3. Slotted'  BY DEF IInv, Slotted, Forward, None, Snapshot, Goto, message, suspension,
             manifests, runtime, scheduler
<1>4. Built'  BY DEF IInv, Built, Runs, Snapshot, Goto, message, suspension, manifests, runtime,
             scheduler
<1>5. Kept'
  <2>1. CASE ok  BY <2>1, <1>a, <1>c, <1>d DEF IInv, Typed, Kept, Runs, Taken
  <2>2. CASE ~ok  BY <2>2, <1>c, <1>d DEF IInv, Typed, Kept, Runs, Taken
  <2> QED  BY <2>1, <2>2
<1>6. Owed'
  <2>1. CASE ok  BY <2>1, <1>a, <1>c, <1>d DEF IInv, Typed, Owed, Taken
  <2>2. CASE ~ok  BY <2>2, <1>c, <1>d DEF IInv, Typed, Owed, Taken
  <2> QED  BY <2>1, <2>2
<1> QED  BY <1>1, <1>2, <1>3, <1>4, <1>5, <1>6 DEF IInv

\* StopScheduler keeps the invariant.
LEMMA StopSchedulerStep == ASSUME IInv, StopScheduler PROVE IInv'
<1>1. Typed'  BY ApplyAssumption DEF IInv, Typed, TypeOK, Steps, None, Loaded, StopScheduler,
             Goto, message, suspension, manifests, runtime, outcome
<1>2. Quiet'  BY DEF IInv, Quiet, Parked, Stopped, StopScheduler, Goto, message, suspension, manifests,
             runtime, outcome
<1>3. Slotted'  BY DEF IInv, Slotted, Forward, None, StopScheduler, Goto, message, suspension,
             manifests, runtime, outcome
<1>4. Built'  BY DEF IInv, Built, Runs, StopScheduler, Goto, message, suspension, manifests,
             runtime, outcome
<1>5. Kept'  BY DEF IInv, Kept, Runs, Taken, StopScheduler, Goto, message, suspension, manifests,
             runtime, outcome
<1>6. Owed'  BY DEF IInv, Owed, Taken, StopScheduler, Goto, message, suspension, manifests,
             runtime, outcome
<1> QED  BY <1>1, <1>2, <1>3, <1>4, <1>5, <1>6 DEF IInv

\* Prepared keeps the invariant.
LEMMA PreparedStep == ASSUME IInv, Prepared PROVE IInv'
<1>1. Typed'  BY ApplyAssumption DEF IInv, Typed, TypeOK, Steps, None, Loaded, Prepared, TaskGone,
             Goto, message, suspension, manifests, runtime, outcome
<1>2. Quiet'  BY DEF IInv, Quiet, Parked, Stopped, Prepared, TaskGone, Goto, message, suspension,
             manifests, runtime, outcome
<1>3. Slotted'  BY DEF IInv, Slotted, Forward, None, Prepared, TaskGone, Goto, message,
             suspension, manifests, runtime, outcome
<1>4. Built'  BY DEF IInv, Built, Runs, Prepared, TaskGone, Goto, message, suspension, manifests,
             runtime, outcome
<1>5. Kept'  BY DEF IInv, Kept, Runs, Taken, Prepared, TaskGone, Goto, message, suspension,
             manifests, runtime, outcome
<1>6. Owed'  BY DEF IInv, Owed, Taken, Prepared, TaskGone, Goto, message, suspension, manifests,
             runtime, outcome
<1> QED  BY <1>1, <1>2, <1>3, <1>4, <1>5, <1>6 DEF IInv

\* StopTimesOut keeps the invariant.
LEMMA StopTimesOutStep == ASSUME IInv, StopTimesOut PROVE IInv'
<1>1. Typed'  BY ApplyAssumption DEF IInv, Typed, TypeOK, Steps, None, Loaded, StopTimesOut,
             TaskGone, Goto, message, suspension, manifests, runtime, scheduler
<1>2. Quiet'  BY DEF IInv, Quiet, Parked, Stopped, StopTimesOut, TaskGone, Goto, message, suspension,
             manifests, runtime, scheduler
<1>3. Slotted'  BY DEF IInv, Slotted, Forward, None, StopTimesOut, TaskGone, Goto, message,
             suspension, manifests, runtime, scheduler
<1>4. Built'  BY DEF IInv, Built, Runs, StopTimesOut, TaskGone, Goto, message, suspension,
             manifests, runtime, scheduler
<1>5. Kept'  BY DEF IInv, Kept, Runs, Taken, StopTimesOut, TaskGone, Goto, message, suspension,
             manifests, runtime, scheduler
<1>6. Owed'  BY DEF IInv, Owed, Taken, StopTimesOut, TaskGone, Goto, message, suspension,
             manifests, runtime, scheduler
<1> QED  BY <1>1, <1>2, <1>3, <1>4, <1>5, <1>6 DEF IInv

\* ApplyDma keeps the invariant.
LEMMA ApplyDmaStep == ASSUME IInv, NEW ok \in BOOLEAN, ApplyDma(ok) PROVE IInv'
<1>1. Typed'  BY ApplyAssumption DEF IInv, Typed, TypeOK, Steps, None, Loaded, Slotted, Forward,
             ApplyDma, Target, Goto, message, suspension, manifests, scheduler, outcome
<1>2. Quiet'  BY DEF IInv, Quiet, Parked, Stopped, ApplyDma, Target, Goto, message, suspension, manifests,
             scheduler, outcome
<1>3. Slotted'  BY DEF IInv, Slotted, Forward, None, ApplyDma, Target, Goto, message, suspension,
             manifests, scheduler, outcome
<1>4. Built'  BY DEF IInv, Typed, TypeOK, Steps, None, Loaded, Slotted, Forward, Built, Runs,
             ApplyDma, Target, Goto, message, suspension, manifests, scheduler, outcome
<1>5. Kept'  BY DEF IInv, Kept, Runs, Taken, ApplyDma, Target, Goto, message, suspension,
             manifests, scheduler, outcome
<1>6. Owed'  BY DEF IInv, Owed, Taken, ApplyDma, Target, Goto, message, suspension, manifests,
             scheduler, outcome
<1> QED  BY <1>1, <1>2, <1>3, <1>4, <1>5, <1>6 DEF IInv

\* ApplyPeripherals keeps the invariant.
LEMMA ApplyPeripheralsStep == ASSUME IInv, NEW ok \in BOOLEAN, ApplyPeripherals(ok)
  PROVE IInv'
<1>1. Typed'  BY ApplyAssumption DEF IInv, Typed, TypeOK, Steps, None, Loaded, Slotted, Forward,
             ApplyPeripherals, Target, Goto, message, suspension, manifests, scheduler, outcome
<1>2. Quiet'  BY DEF IInv, Quiet, Parked, Stopped, ApplyPeripherals, Target, Goto, message, suspension,
             manifests, scheduler, outcome
<1>3. Slotted'  BY DEF IInv, Slotted, Forward, None, ApplyPeripherals, Target, Goto, message,
             suspension, manifests, scheduler, outcome
<1>4. Built'  BY DEF IInv, Typed, TypeOK, Steps, None, Loaded, Slotted, Forward, Built, Runs,
             ApplyPeripherals, Target, Goto, message, suspension, manifests, scheduler, outcome
<1>5. Kept'  BY DEF IInv, Kept, Runs, Taken, ApplyPeripherals, Target, Goto, message, suspension,
             manifests, scheduler, outcome
<1>6. Owed'  BY DEF IInv, Owed, Taken, ApplyPeripherals, Target, Goto, message, suspension,
             manifests, scheduler, outcome
<1> QED  BY <1>1, <1>2, <1>3, <1>4, <1>5, <1>6 DEF IInv

\* ApplyBuses keeps the invariant.
LEMMA ApplyBusesStep == ASSUME IInv, NEW ok \in BOOLEAN, ApplyBuses(ok) PROVE IInv'
<1>1. Typed'  BY ApplyAssumption DEF IInv, Typed, TypeOK, Steps, None, Loaded, Slotted, Forward,
             ApplyBuses, Target, Goto, message, suspension, manifests, scheduler, outcome
<1>2. Quiet'  BY DEF IInv, Quiet, Parked, Stopped, ApplyBuses, Target, Goto, message, suspension,
             manifests, scheduler, outcome
<1>3. Slotted'  BY DEF IInv, Slotted, Forward, None, ApplyBuses, Target, Goto, message,
             suspension, manifests, scheduler, outcome
<1>4. Built'  BY DEF IInv, Typed, TypeOK, Steps, None, Loaded, Slotted, Forward, Built, Runs,
             ApplyBuses, Target, Goto, message, suspension, manifests, scheduler, outcome
<1>5. Kept'  BY DEF IInv, Kept, Runs, Taken, ApplyBuses, Target, Goto, message, suspension,
             manifests, scheduler, outcome
<1>6. Owed'  BY DEF IInv, Owed, Taken, ApplyBuses, Target, Goto, message, suspension, manifests,
             scheduler, outcome
<1> QED  BY <1>1, <1>2, <1>3, <1>4, <1>5, <1>6 DEF IInv

\* ApplyScheduler keeps the invariant.
LEMMA ApplySchedulerStep == ASSUME IInv, NEW ok \in BOOLEAN, ApplyScheduler(ok) PROVE
  IInv'
<1>1. Typed'  BY ApplyAssumption DEF IInv, Typed, TypeOK, Steps, None, Loaded, Slotted, Forward,
             ApplyScheduler, Target, Goto, message, suspension, manifests, runtime, outcome
<1>2. Quiet'  BY DEF IInv, Quiet, Parked, Stopped, ApplyScheduler, Target, Goto, message, suspension,
             manifests, runtime, outcome
<1>3. Slotted'  BY DEF IInv, Slotted, Forward, None, ApplyScheduler, Target, Goto, message,
             suspension, manifests, runtime, outcome
<1>4. Built'  BY DEF IInv, Typed, TypeOK, Steps, None, Loaded, Slotted, Forward, Built, Runs,
             ApplyScheduler, Target, Goto, message, suspension, manifests, runtime, outcome
<1>5. Kept'  BY DEF IInv, Kept, Runs, Taken, ApplyScheduler, Target, Goto, message, suspension,
             manifests, runtime, outcome
<1>6. Owed'  BY DEF IInv, Owed, Taken, ApplyScheduler, Target, Goto, message, suspension,
             manifests, runtime, outcome
<1> QED  BY <1>1, <1>2, <1>3, <1>4, <1>5, <1>6 DEF IInv

\* Commit keeps the invariant.
LEMMA CommitStep == ASSUME IInv, Commit PROVE IInv'
<1>a. pc = "commit" /\ staged = 1 - active /\ active \in 0 .. 1
  BY DEF Commit, IInv, Typed, TypeOK, Slotted, Forward
<1>b. active' \in 0 .. 1
  BY <1>a DEF Commit
<1>1. Typed'
  <2>1. incoming' \in Loaded /\ old' \in 0 .. None /\ requested' \in BOOLEAN /\ bits' \subseteq Workers
    BY ApplyAssumption, <1>a, <1>b DEF IInv, Typed, TypeOK, Steps, None, Loaded, Slotted, Forward,
       Commit, Goto, message, suspension, manifests, runtime, scheduler
  <2>2. worker' \in [Workers -> {"top", "saw", "parked", "busy"}]
    BY ApplyAssumption, <1>a, <1>b DEF IInv, Typed, TypeOK, Steps, None, Loaded, Slotted, Forward,
       Commit, Goto, message, suspension, manifests, runtime, scheduler
  <2>3. slot' \in [0 .. 1 -> Loaded] /\ active' \in 0 .. 1 /\ staged' \in 0 .. None
    BY ApplyAssumption, <1>a, <1>b DEF IInv, Typed, TypeOK, Steps, None, Loaded, Slotted, Forward,
       Commit, Goto, message, suspension, manifests, runtime, scheduler
  <2>4. {dma', periph', buses', saved'.dma, saved'.periph} \subseteq Loaded \cup {Partial}
    BY ApplyAssumption, <1>a, <1>b DEF IInv, Typed, TypeOK, Steps, None, Loaded, Slotted, Forward,
       Commit, Goto, message, suspension, manifests, runtime, scheduler
  <2>5. {duty', wanted', saved'.duty} \subseteq Levels
    BY ApplyAssumption, <1>a, <1>b DEF IInv, Typed, TypeOK, Steps, None, Loaded, Slotted, Forward,
       Commit, Goto, message, suspension, manifests, runtime, scheduler
  <2>6. gate' \in BOOLEAN /\ task' \in BOOLEAN /\ mode' \in {"off", "prepared", "running"}
    BY ApplyAssumption, <1>a, <1>b DEF IInv, Typed, TypeOK, Steps, None, Loaded, Slotted, Forward,
       Commit, Goto, message, suspension, manifests, runtime, scheduler
  <2>7. sched' \in Loaded /\ {persisted', confirmed'} \subseteq Loaded
    BY ApplyAssumption, <1>a, <1>b DEF IInv, Typed, TypeOK, Steps, None, Loaded, Slotted, Forward,
       Commit, Goto, message, suspension, manifests, runtime, scheduler
  <2>8. /\ pc' \in Steps
        /\ result' \in {"none", "ok", "unchanged", "restored", "safe", "fatal"}
        /\ pc' = "restart" => result' = "fatal"
        /\ result' = "fatal" => pc' \in {"discard", "restart"}
    BY ApplyAssumption, <1>a, <1>b DEF IInv, Typed, TypeOK, Steps, None, Loaded, Slotted, Forward,
       Commit, Goto, message, suspension, manifests, runtime, scheduler
  <2> QED  BY <2>1, <2>2, <2>3, <2>4, <2>5, <2>6, <2>7, <2>8 DEF Typed, TypeOK
<1>2. Quiet'  BY DEF IInv, Quiet, Parked, Stopped, Commit, Goto, message, suspension, runtime
<1>3. Slotted'  BY DEF IInv, Slotted, Forward, None, Commit, Goto, message, suspension, runtime
<1>4. Built'  BY DEF IInv, Typed, TypeOK, Steps, None, Loaded, Slotted, Forward, Built, Runs,
             Commit, Goto, message, suspension, runtime
<1>5. Kept'  BY DEF IInv, Kept, Runs, Taken, Commit, Goto, message, suspension, runtime
<1>6. Owed'  BY DEF IInv, Typed, TypeOK, Steps, None, Loaded, Built, Runs, Owed, Taken, Commit,
             Goto, message, suspension, runtime
<1> QED  BY <1>1, <1>2, <1>3, <1>4, <1>5, <1>6 DEF IInv

\* RollbackBuses keeps the invariant.
LEMMA RollbackBusesStep == ASSUME IInv, NEW ok \in BOOLEAN, RollbackBuses(ok) PROVE
  IInv'
<1>1. Typed'  BY ApplyAssumption DEF IInv, Typed, TypeOK, Steps, None, Loaded, RollbackBuses,
             Goto, message, suspension, manifests, scheduler, outcome
<1>2. Quiet'  BY DEF IInv, Quiet, Parked, Stopped, RollbackBuses, Goto, message, suspension, manifests,
             scheduler, outcome
<1>3. Slotted'  BY DEF IInv, Slotted, Forward, None, RollbackBuses, Goto, message, suspension,
             manifests, scheduler, outcome
<1>4. Built'  BY DEF IInv, Built, Runs, RollbackBuses, Goto, message, suspension, manifests,
             scheduler, outcome
<1>5. Kept'  BY DEF IInv, Kept, Runs, Taken, RollbackBuses, Goto, message, suspension, manifests,
             scheduler, outcome
<1>6. Owed'  BY DEF IInv, Owed, Taken, RollbackBuses, Goto, message, suspension, manifests,
             scheduler, outcome
<1> QED  BY <1>1, <1>2, <1>3, <1>4, <1>5, <1>6 DEF IInv

\* RestoreParts keeps the invariant.
LEMMA RestorePartsStep == ASSUME IInv, NEW ok \in BOOLEAN, NEW periphOk \in BOOLEAN,
  RestoreParts(ok, periphOk) PROVE IInv'
<1>1. Typed'  BY ApplyAssumption DEF IInv, Typed, TypeOK, Steps, None, Loaded, RestoreParts, Goto,
             message, suspension, manifests, scheduler, outcome
<1>2. Quiet'  BY DEF IInv, Quiet, Parked, Stopped, RestoreParts, Goto, message, suspension, manifests,
             scheduler, outcome
<1>3. Slotted'  BY DEF IInv, Slotted, Forward, None, RestoreParts, Goto, message, suspension,
             manifests, scheduler, outcome
<1>4. Built'  BY DEF IInv, Built, Runs, RestoreParts, Goto, message, suspension, manifests,
             scheduler, outcome
<1>5. Kept'  BY DEF IInv, Kept, Runs, Taken, RestoreParts, Goto, message, suspension, manifests,
             scheduler, outcome
<1>6. Owed'  BY DEF IInv, Owed, Taken, RestoreParts, Goto, message, suspension, manifests,
             scheduler, outcome
<1> QED  BY <1>1, <1>2, <1>3, <1>4, <1>5, <1>6 DEF IInv

\* NothingToRebuild keeps the invariant.
LEMMA NothingToRebuildStep == ASSUME IInv, NothingToRebuild PROVE IInv'
<1>1. Typed'  BY ApplyAssumption DEF IInv, Typed, TypeOK, Steps, None, Loaded, NothingToRebuild,
             Goto, message, suspension, manifests, runtime, scheduler
<1>2. Quiet'  BY DEF IInv, Quiet, Parked, Stopped, NothingToRebuild, Goto, message, suspension, manifests,
             runtime, scheduler
<1>3. Slotted'  BY DEF IInv, Slotted, Forward, None, NothingToRebuild, Goto, message, suspension,
             manifests, runtime, scheduler
<1>4. Built'  BY DEF IInv, Built, Runs, NothingToRebuild, Goto, message, suspension, manifests,
             runtime, scheduler
<1>5. Kept'  BY DEF IInv, Typed, TypeOK, Steps, None, Loaded, Slotted, Forward, Kept, Runs, Taken,
             NothingToRebuild, Goto, message, suspension, manifests, runtime, scheduler
<1>6. Owed'  BY DEF IInv, Typed, TypeOK, Steps, None, Loaded, Owed, Taken, NothingToRebuild, Goto,
             message, suspension, manifests, runtime, scheduler
<1> QED  BY <1>1, <1>2, <1>3, <1>4, <1>5, <1>6 DEF IInv

\* RestoreBuses keeps the invariant.
LEMMA RestoreBusesStep == ASSUME IInv, NEW ok \in BOOLEAN, RestoreBuses(ok) PROVE IInv'
<1>1. Typed'  BY ApplyAssumption DEF IInv, Typed, TypeOK, Steps, None, Loaded, RestoreBuses, Goto,
             message, suspension, manifests, scheduler, outcome
<1>2. Quiet'  BY DEF IInv, Quiet, Parked, Stopped, RestoreBuses, Goto, message, suspension, manifests,
             scheduler, outcome
<1>3. Slotted'  BY DEF IInv, Slotted, Forward, None, RestoreBuses, Goto, message, suspension,
             manifests, scheduler, outcome
<1>4. Built'  BY DEF IInv, Typed, TypeOK, Steps, None, Loaded, Slotted, Forward, Built, Runs,
             RestoreBuses, Goto, message, suspension, manifests, scheduler, outcome
<1>5. Kept'  BY DEF IInv, Kept, Runs, Taken, RestoreBuses, Goto, message, suspension, manifests,
             scheduler, outcome
<1>6. Owed'  BY DEF IInv, Owed, Taken, RestoreBuses, Goto, message, suspension, manifests,
             scheduler, outcome
<1> QED  BY <1>1, <1>2, <1>3, <1>4, <1>5, <1>6 DEF IInv

\* RestoreScheduler keeps the invariant.
LEMMA RestoreSchedulerStep == ASSUME IInv, NEW ok \in BOOLEAN, RestoreScheduler(ok)
  PROVE IInv'
<1>1. Typed'  BY ApplyAssumption DEF IInv, Typed, TypeOK, Steps, None, Loaded, Built, Runs,
             RestoreScheduler, Goto, message, suspension, manifests, runtime
<1>2. Quiet'  BY DEF IInv, Quiet, Parked, Stopped, RestoreScheduler, Goto, message, suspension, manifests,
             runtime
<1>3. Slotted'  BY DEF IInv, Slotted, Forward, None, RestoreScheduler, Goto, message, suspension,
             manifests, runtime
<1>4. Built'  BY DEF IInv, Built, Runs, RestoreScheduler, Goto, message, suspension, manifests,
             runtime
<1>5. Kept'  BY DEF IInv, Typed, TypeOK, Steps, None, Loaded, Built, Runs, Kept, Taken,
             RestoreScheduler, Goto, message, suspension, manifests, runtime
<1>6. Owed'  BY DEF IInv, Typed, TypeOK, Steps, None, Loaded, Owed, Taken, RestoreScheduler, Goto,
             message, suspension, manifests, runtime
<1> QED  BY <1>1, <1>2, <1>3, <1>4, <1>5, <1>6 DEF IInv

\* EnterSafeState keeps the invariant.
LEMMA EnterSafeStateStep == ASSUME IInv, EnterSafeState PROVE IInv'
<1>1. Typed'  BY ApplyAssumption DEF IInv, Typed, TypeOK, Steps, None, Loaded, EnterSafeState,
             Goto, message, suspension, manifests, scheduler
<1>2. Quiet'  BY DEF IInv, Quiet, Parked, Stopped, EnterSafeState, Goto, message, suspension, manifests,
             scheduler
<1>3. Slotted'  BY DEF IInv, Slotted, Forward, None, EnterSafeState, Goto, message, suspension,
             manifests, scheduler
<1>4. Built'  BY DEF IInv, Built, Runs, EnterSafeState, Goto, message, suspension, manifests,
             scheduler
<1>5. Kept'  BY DEF IInv, Kept, Runs, Taken, EnterSafeState, Goto, message, suspension, manifests,
             scheduler
<1>6. Owed'  BY ApplyAssumption DEF IInv, Owed, Taken, EnterSafeState, Goto, message, suspension,
             manifests, scheduler
<1> QED  BY <1>1, <1>2, <1>3, <1>4, <1>5, <1>6 DEF IInv

\* EndTransaction keeps the invariant.
LEMMA EndTransactionStep == ASSUME IInv, EndTransaction PROVE IInv'
<1>1. Typed'  BY ApplyAssumption DEF IInv, Typed, TypeOK, Steps, None, Loaded, EndTransaction,
             Goto, message, suspension, manifests, runtime, scheduler, outcome
<1>2. Quiet'  BY DEF IInv, Quiet, Parked, Stopped, EndTransaction, Goto, message, suspension, manifests,
             runtime, scheduler, outcome
<1>3. Slotted'  BY DEF IInv, Slotted, Forward, None, EndTransaction, Goto, message, suspension,
             manifests, runtime, scheduler, outcome
<1>4. Built'  BY DEF IInv, Built, Runs, EndTransaction, Goto, message, suspension, manifests,
             runtime, scheduler, outcome
<1>5. Kept'  BY DEF IInv, Kept, Runs, Taken, EndTransaction, Goto, message, suspension, manifests,
             runtime, scheduler, outcome
<1>6. Owed'  BY DEF IInv, Typed, TypeOK, Steps, None, Loaded, Owed, Taken, EndTransaction, Goto,
             message, suspension, manifests, runtime, scheduler, outcome
<1> QED  BY <1>1, <1>2, <1>3, <1>4, <1>5, <1>6 DEF IInv

\* DiscardStaged keeps the invariant.
LEMMA DiscardStagedStep == ASSUME IInv, DiscardStaged PROVE IInv'
<1>1. Typed'  BY ApplyAssumption DEF IInv, Typed, TypeOK, Steps, None, Loaded, DiscardStaged,
             Discard, Goto, message, suspension, runtime, scheduler, outcome
<1>2. Quiet'  BY DEF IInv, Quiet, Parked, Stopped, DiscardStaged, Discard, Goto, message, suspension,
             runtime, scheduler, outcome
<1>3. Slotted'  BY DEF IInv, Slotted, Forward, None, DiscardStaged, Discard, Goto, message,
             suspension, runtime, scheduler, outcome
<1>4. Built'  BY DEF IInv, Built, Runs, DiscardStaged, Discard, Goto, message, suspension,
             runtime, scheduler, outcome
<1>5. Kept'  BY DEF IInv, Typed, TypeOK, Steps, None, Loaded, Slotted, Forward, Kept, Runs, Taken,
             DiscardStaged, Discard, Goto, message, suspension, runtime, scheduler, outcome
<1>6. Owed'  BY DEF IInv, Owed, Taken, DiscardStaged, Discard, Goto, message, suspension, runtime,
             scheduler, outcome
<1> QED  BY <1>1, <1>2, <1>3, <1>4, <1>5, <1>6 DEF IInv

\* Persist keeps the invariant.
LEMMA PersistStep == ASSUME IInv, NEW ok \in BOOLEAN, Persist(ok) PROVE IInv'
<1>1. Typed'  BY ApplyAssumption DEF IInv, Typed, TypeOK, Steps, None, Loaded, Persist, Goto,
             message, suspension, manifests, runtime, scheduler
<1>2. Quiet'  BY DEF IInv, Quiet, Parked, Stopped, Persist, Goto, message, suspension, manifests, runtime,
             scheduler
<1>3. Slotted'  BY DEF IInv, Slotted, Forward, None, Persist, Goto, message, suspension,
             manifests, runtime, scheduler
<1>4. Built'  BY DEF IInv, Built, Runs, Persist, Goto, message, suspension, manifests, runtime,
             scheduler
<1>5. Kept'  BY DEF IInv, Typed, TypeOK, Steps, None, Loaded, Built, Runs, Kept, Taken, Persist,
             Goto, message, suspension, manifests, runtime, scheduler
<1>6. Owed'  BY DEF IInv, Owed, Taken, Persist, Goto, message, suspension, manifests, runtime,
             scheduler
<1> QED  BY <1>1, <1>2, <1>3, <1>4, <1>5, <1>6 DEF IInv

\* Resume keeps the invariant.
LEMMA ResumeStep == ASSUME IInv, Resume PROVE IInv'
<1>1. Typed'  BY ApplyAssumption DEF IInv, Typed, TypeOK, Steps, None, Loaded, Resume, Resumes,
             Goto, message, manifests, runtime, scheduler, outcome
<1>2. Quiet'  BY DEF IInv, Quiet, Parked, Stopped, Resume, Resumes, Goto, message, manifests, runtime,
             scheduler, outcome
<1>3. Slotted'  BY DEF IInv, Slotted, Forward, None, Resume, Resumes, Goto, message, manifests,
             runtime, scheduler, outcome
<1>4. Built'  BY DEF IInv, Built, Runs, Resume, Resumes, Goto, message, manifests, runtime,
             scheduler, outcome
<1>5. Kept'  BY DEF IInv, Kept, Runs, Taken, Resume, Resumes, Goto, message, manifests, runtime,
             scheduler, outcome
<1>6. Owed'  BY DEF IInv, Owed, Taken, Resume, Resumes, Goto, message, manifests, runtime,
             scheduler, outcome
<1> QED  BY <1>1, <1>2, <1>3, <1>4, <1>5, <1>6 DEF IInv

\* Restart keeps the invariant.
LEMMA RestartStep == ASSUME IInv, Restart PROVE IInv'
<1>a. saved'.dma = Empty /\ saved'.periph = Empty /\ saved'.duty = Initial
  BY DEF Restart, Fresh
<1>b. worker' \in [Workers -> {"top", "saw", "parked", "busy"}]
  BY DEF Restart
<1>c. slot' \in [0 .. 1 -> Loaded]
  BY DEF Restart, Loaded
<1>1. Typed'
  <2>1. incoming' \in Loaded /\ old' \in 0 .. None /\ requested' \in BOOLEAN /\ bits' \subseteq Workers
    BY ApplyAssumption, <1>a, <1>b, <1>c DEF IInv, Typed, TypeOK, Steps, None, Loaded, Restart,
       Fresh, Goto, message
  <2>2. worker' \in [Workers -> {"top", "saw", "parked", "busy"}]
    BY ApplyAssumption, <1>a, <1>b, <1>c DEF IInv, Typed, TypeOK, Steps, None, Loaded, Restart,
       Fresh, Goto, message
  <2>3. slot' \in [0 .. 1 -> Loaded] /\ active' \in 0 .. 1 /\ staged' \in 0 .. None
    BY ApplyAssumption, <1>a, <1>b, <1>c DEF IInv, Typed, TypeOK, Steps, None, Loaded, Restart,
       Fresh, Goto, message
  <2>4. {dma', periph', buses', saved'.dma, saved'.periph} \subseteq Loaded \cup {Partial}
    BY ApplyAssumption, <1>a, <1>b, <1>c DEF IInv, Typed, TypeOK, Steps, None, Loaded, Restart,
       Fresh, Goto, message
  <2>5. {duty', wanted', saved'.duty} \subseteq Levels
    BY ApplyAssumption, <1>a, <1>b, <1>c DEF IInv, Typed, TypeOK, Steps, None, Loaded, Restart,
       Fresh, Goto, message
  <2>6. gate' \in BOOLEAN /\ task' \in BOOLEAN /\ mode' \in {"off", "prepared", "running"}
    BY ApplyAssumption, <1>a, <1>b, <1>c DEF IInv, Typed, TypeOK, Steps, None, Loaded, Restart,
       Fresh, Goto, message
  <2>7. sched' \in Loaded /\ {persisted', confirmed'} \subseteq Loaded
    BY ApplyAssumption, <1>a, <1>b, <1>c DEF IInv, Typed, TypeOK, Steps, None, Loaded, Restart,
       Fresh, Goto, message
  <2>8. /\ pc' \in Steps
        /\ result' \in {"none", "ok", "unchanged", "restored", "safe", "fatal"}
        /\ pc' = "restart" => result' = "fatal"
        /\ result' = "fatal" => pc' \in {"discard", "restart"}
    BY ApplyAssumption, <1>a, <1>b, <1>c DEF IInv, Typed, TypeOK, Steps, None, Loaded, Restart,
       Fresh, Goto, message
  <2> QED  BY <2>1, <2>2, <2>3, <2>4, <2>5, <2>6, <2>7, <2>8 DEF Typed, TypeOK
<1>2. Quiet'  BY DEF IInv, Quiet, Parked, Stopped, Restart, Fresh, Goto, message
<1>3. Slotted'  BY DEF IInv, Slotted, Forward, None, Restart, Fresh, Goto, message
<1>4. Built'  BY DEF IInv, Built, Runs, Restart, Fresh, Goto, message
<1>5. Kept'  BY DEF IInv, Kept, Runs, Taken, Restart, Fresh, Goto, message
<1>6. Owed'  BY DEF IInv, Owed, Taken, Restart, Fresh, Goto, message
<1> QED  BY <1>1, <1>2, <1>3, <1>4, <1>5, <1>6 DEF IInv

\* A manifest that arrives keeps the invariant.
LEMMA DeliverStep == ASSUME IInv, NEW m \in Manifests, Deliver(m) PROVE IInv'
<1>1. Typed'  BY ApplyAssumption DEF IInv, Typed, TypeOK, Steps, None, Loaded, Deliver, suspension,
             manifests, runtime, scheduler
<1>2. Quiet'  BY DEF IInv, Quiet, Parked, Stopped, Deliver, suspension, scheduler
<1>3. Slotted'  BY DEF IInv, Slotted, Forward, None, Deliver, manifests
<1>4. Built'  BY DEF IInv, Built, Runs, Deliver, manifests, runtime, scheduler
<1>5. Kept'  BY DEF IInv, Typed, Kept, Runs, Taken, Deliver, manifests, runtime, scheduler
<1>6. Owed'  BY DEF IInv, Typed, Owed, Taken, Deliver, runtime
<1> QED  BY <1>1, <1>2, <1>3, <1>4, <1>5, <1>6 DEF IInv

\* The scheduler task's end keeps the invariant: one that is wanted does not end.
LEMMA TaskEndsStep == ASSUME IInv, TaskEnds PROVE IInv'
<1>1. Typed'
  <2>1. task' \in BOOLEAN
    BY DEF TaskEnds
  <2>2. UNCHANGED <<pc, message, suspension, manifests, gate, runtime, sched, mode, saved, outcome,
                    wanted>>
    BY DEF TaskEnds
  <2>3. Typed
    BY DEF IInv
  <2> QED  BY ONLY <2>1, <2>2, <2>3 DEF Typed, TypeOK, message, suspension, manifests, runtime,
               outcome
<1>2. Quiet'  BY DEF IInv, Quiet, Parked, Stopped, TaskEnds, suspension
<1>3. Slotted'  BY DEF IInv, Slotted, Forward, None, TaskEnds, message, manifests
<1>4. Built'  BY DEF IInv, Built, Runs, TaskEnds, message, manifests, runtime, outcome
<1>5. Kept'  BY DEF IInv, Kept, Runs, Taken, TaskEnds, manifests, runtime, outcome
<1>6. Owed'  BY DEF IInv, Owed, Taken, TaskEnds, runtime, outcome
<1> QED  BY <1>1, <1>2, <1>3, <1>4, <1>5, <1>6 DEF IInv

\* A step of a worker keeps the invariant.
LEMMA WorkStep == ASSUME IInv, NEW w \in Workers, Work(w) PROVE IInv'
<1>1. UNCHANGED <<pc, message, manifests, gate, runtime, scheduler, saved, outcome, wanted>>
      /\ requested' = requested
  BY DEF Work, Look, SetBit, Unpark, EndWork
<1>2. /\ worker \in [Workers -> {"top", "saw", "parked", "busy"}]
      /\ bits \subseteq Workers
  BY DEF IInv, Typed, TypeOK
<1>3. CASE Look(w)
  <2>1. worker' = [worker EXCEPT ![w] = IF requested THEN "saw" ELSE "busy"]
        /\ worker[w] = "top" /\ bits' = bits
    BY <1>3 DEF Look
  <2>2. Typed'  BY ONLY <2>1, <1>1, <1>2, IInv DEF IInv, Typed, TypeOK, message, manifests,
             runtime, scheduler, outcome
  <2>3. Quiet'  BY <2>1, <1>1, <1>2 DEF IInv, Quiet, Parked, Stopped, scheduler
  <2> QED  BY <2>2, <2>3, <1>1 DEF IInv, Slotted, Built, Kept, Owed, Runs, message, manifests,
             runtime, scheduler, outcome
<1>4. CASE SetBit(w)
  <2>1. worker' = [worker EXCEPT ![w] = "parked"] /\ worker[w] = "saw" /\ bits' = bits \cup {w}
    BY <1>4 DEF SetBit
  <2>2. Typed'  BY ONLY <2>1, <1>1, <1>2, IInv DEF IInv, Typed, TypeOK, message, manifests,
             runtime, scheduler, outcome
  <2>3. Quiet'  BY <2>1, <1>1, <1>2 DEF IInv, Quiet, Parked, Stopped, scheduler
  <2> QED  BY <2>2, <2>3, <1>1 DEF IInv, Slotted, Built, Kept, Owed, Runs, message, manifests,
             runtime, scheduler, outcome
<1>5. CASE Unpark(w) \/ EndWork(w)
  <2>1. PICK s \in {"top", "busy"} :
          /\ worker' = [worker EXCEPT ![w] = s] /\ bits' = bits
          /\ (worker[w] = "parked" /\ ~requested) \/ worker[w] = "busy"
    BY <1>5 DEF Unpark, EndWork
  <2>2. Typed'  BY ONLY <2>1, <1>1, <1>2, IInv DEF IInv, Typed, TypeOK, message, manifests,
             runtime, scheduler, outcome
  <2>3. Quiet'  BY <2>1, <1>1, <1>2 DEF IInv, Typed, TypeOK, Quiet, Parked, Stopped, scheduler
  <2> QED  BY <2>2, <2>3, <1>1 DEF IInv, Slotted, Built, Kept, Owed, Runs, message, manifests,
             runtime, scheduler, outcome
<1> QED  BY <1>3, <1>4, <1>5 DEF Work

\* A command to the PWM channel keeps the invariant.
LEMMA SetDutyStep == ASSUME IInv, NEW d \in Levels, SetDuty(d) PROVE IInv'
<1>1. Typed'  BY ApplyAssumption DEF IInv, Typed, TypeOK, Steps, None, Loaded, SetDuty, message,
             suspension, manifests, scheduler, outcome
<1>2. Quiet'  BY DEF IInv, Quiet, Parked, Stopped, SetDuty, suspension, scheduler
<1>3. Slotted'  BY DEF IInv, Slotted, Forward, None, SetDuty, message, manifests
<1>4. Built'  BY DEF IInv, Built, Owed, Taken, Runs, SetDuty, GateFree, message, manifests,
             scheduler, outcome
<1>5. Kept'  BY DEF IInv, Kept, Runs, Taken, SetDuty, manifests, scheduler, outcome
<1>6. Owed'  BY DEF IInv, Owed, Taken, SetDuty, GateFree, outcome
<1> QED  BY <1>1, <1>2, <1>3, <1>4, <1>5, <1>6 DEF IInv

\* No step breaks the invariant.
LEMMA InvarianceStep == ASSUME IInv, [Next]_vars PROVE IInv'
<1>1. CASE Handle
  BY <1>1,
     ClearBitsStep, RequestSuspensionStep, SuspendedStep, SuspendTimesOutStep, StageStep,
     PreinstallStep, BeginStep, SnapshotStep, StopSchedulerStep, PreparedStep, StopTimesOutStep,
     ApplyDmaStep, ApplyPeripheralsStep, ApplyBusesStep, ApplySchedulerStep, CommitStep,
     RollbackBusesStep, RestorePartsStep, NothingToRebuildStep, RestoreBusesStep,
     RestoreSchedulerStep, EnterSafeStateStep, EndTransactionStep, DiscardStagedStep, PersistStep,
     ResumeStep, RestartStep
     DEF Handle
<1>2. CASE UNCHANGED vars
  BY <1>2 DEF IInv, Typed, TypeOK, Quiet, Parked, Slotted, Built, Kept, Owed, Runs, vars, message, suspension,
     manifests, runtime, scheduler, outcome
<1> QED  BY <1>1, <1>2, DeliverStep, TaskEndsStep, WorkStep, SetDutyStep DEF Next

\* The invariant holds at first.
LEMMA InitInvariance == Init => IInv
<1> SUFFICES ASSUME Init PROVE IInv
  OBVIOUS
<1>a. saved.dma = Empty /\ saved.periph = Empty /\ saved.duty = Initial
  BY DEF Init, Fresh
<1>b. /\ worker \in [Workers -> {"top", "saw", "parked", "busy"}]
      /\ slot \in [0 .. 1 -> Loaded]
  BY DEF Init, Loaded
<1>c. TypeOK
  <2>1. {dma, periph, buses, saved.dma, saved.periph} \subseteq Loaded \cup {Partial}
    BY <1>a DEF Init, Loaded
  <2>2. {duty, wanted, saved.duty} \subseteq Levels
    BY <1>a, ApplyAssumption DEF Init
  <2>3. {persisted, confirmed} \subseteq Loaded /\ incoming \in Loaded /\ sched \in Loaded
    BY DEF Init, Loaded
  <2>4. /\ old \in 0 .. None /\ active \in 0 .. 1 /\ staged \in 0 .. None
        /\ bits \subseteq Workers /\ mode \in {"off", "prepared", "running"}
        /\ result \in {"none", "ok", "unchanged", "restored", "safe", "fatal"}
    BY DEF Init, None
  <2>5. requested \in BOOLEAN /\ gate \in BOOLEAN /\ task \in BOOLEAN
    <3>1. requested = FALSE /\ gate = FALSE /\ task = FALSE  BY DEF Init
    <3> QED  BY <3>1
  <2> QED  BY <1>b, <2>1, <2>2, <2>3, <2>4, <2>5 DEF TypeOK
<1>1. Typed  BY <1>c DEF Init, Typed, Steps
<1>2. Quiet  BY DEF Init, Quiet, Parked, Stopped
<1>3. Slotted  BY DEF Init, Slotted, Forward, None
<1>4. Built  BY DEF Init, Built
<1>5. Kept  BY DEF Init, Kept
<1>6. Owed  BY ApplyAssumption DEF Init, Fresh, Owed, Taken
<1> QED  BY <1>1, <1>2, <1>3, <1>4, <1>5, <1>6 DEF IInv

-----------------------------------------------------------------------------
\* The invariant holds in every reachable state.
THEOREM Invariance == Spec => []IInv
BY InitInvariance, InvarianceStep, PTL DEF Spec

\* The parts of the runtime, the slots and the workers keep their types.
THEOREM TypeCorrect == Spec => []TypeOK
<1>1. IInv => TypeOK  BY DEF IInv, Typed
<1> QED  BY <1>1, Invariance, PTL

\* The buses are torn down and rebuilt only while no worker and no scheduler task runs,
\* for any number of workers that acknowledge promptly.
THEOREM BusesAlone == ASSUME PromptAck PROVE Spec => RebuiltAlone
<1>1. ASSUME IInv, [Next]_vars PROVE [buses' # buses => Alone \/ pc = "restart"]_vars
  <2>1. CASE buses' = buses  BY <2>1
  <2>2. CASE buses' # buses
    <3>1. pc \in {"buses", "rstop", "rbuses", "rbroken", "safe", "restart"}
      BY <1>1, <2>2 DEF Next, Handle,
         ClearBits, RequestSuspension, Suspended, SuspendTimesOut, Stage, Preinstall, Begin,
         Snapshot, StopScheduler, Prepared, StopTimesOut, ApplyDma, ApplyPeripherals, ApplyBuses,
         ApplyScheduler, Commit, RollbackBuses, RestoreParts, NothingToRebuild, RestoreBuses,
         RestoreScheduler, EnterSafeState, EndTransaction, DiscardStaged, Persist, Resume,
         Restart, Deliver, TaskEnds, Work, SetDuty, Discard, vars, runtime
    <3> QED  BY <3>1, <1>1 DEF IInv, Quiet, Parked, Stopped, Alone
  <2> QED  BY <2>1, <2>2
<1> QED  BY <1>1, Invariance, PTL DEF Spec, RebuiltAlone

\* A confirmed configuration runs in all its parts until another is confirmed or a safe
\* state is entered, whatever steps of later configurations and of their rollbacks fail.
THEOREM ConfirmedStays == Spec => []ConfirmedRuns
<1>1. IInv => ConfirmedRuns  BY DEF IInv, Typed, Kept, Taken, ConfirmedRuns
<1> QED  BY <1>1, Invariance, PTL

\* A configuration that fails undoes no command to a peripheral.
THEOREM CommandsStay == Spec => []NoLostCommand
<1>1. IInv => NoLostCommand  BY DEF IInv, Owed, Taken, NoLostCommand
<1> QED  BY <1>1, Invariance, PTL

-----------------------------------------------------------------------------
(***************************************************************************)
(* Firmware updates.  The invariant, OtaInv, says that tasks are numbered  *)
(* without a gap and that each thread about to create one has a number left*)
(* (RoomOK); that what a thread has read and will write, and what is on    *)
(* its way, is about tasks that exist and versions that have run (JobsOK,  *)
(* LinkOK); that a success is of a version that has run (SuccessOK); that  *)
(* the node remembers what it starts while there is one task (OnceOK); and *)
(* that a channel is registered once, open (ChanOK).  A success rests on   *)
(* the chain of four facts: the node runs or ran its version (DeviceOK),   *)
(* so its Hello names such a version (MessageOK), so the task that a       *)
(* worker is about to complete has one (JobGood), so the row does.         *)
(***************************************************************************)


\* The node runs this version, or has run it.
Ran(v) == v = Factory \/ \E i \in 1 .. Len(flashed) : row[flashed[i]].ver = v

Whys    == {"", "superseded", "send", "no ack", "cancelled", "device", "hello"}
Rows    == [st : Active \cup Terminal \cup {"unused"}, ver : Versions \cup {NoVersion},
            old : BOOLEAN, done : BOOLEAN, why : Whys]
Reported == {"downloading", "installing", "failed"}
Jobs    == [at : {"idle", "supersede", "insert", "send", "refused", "rollback", "cancel",
                  "progress", "ack", "complete"},
            task : Tasks \cup {NoTask}, seen : Active \cup {""}, new : Reported \cup {""},
            ver : Versions \cup {NoVersion}]
Hellos   == [kind : {"hello"}, ver : Versions \cup {NoVersion}]
Progress == [kind : {"progress"}, task : Tasks, code : {0, 1, 3}]

\* The rows: tasks are numbered as they are created, and what the scanner may still
\* time out is in flight.
RowOK ==
  /\ row \in [Tasks -> Rows]
  /\ stale \subseteq InFlight /\ scanned \subseteq Tasks
  /\ {stable, dbFw} \subseteq Versions \cup {NoVersion}

\* There is a number for every thread that is creating a task.
RoomOK ==
  \E n \in 0 .. MaxTask :
    /\ Created = 1 .. n
    /\ IsFiniteSet(Creating) /\ Cardinality(Creating) <= MaxTask - n

\* What a thread has read and is about to write.
JobGood(j) ==
  /\ j.at \in {"send", "refused", "cancel", "progress", "ack", "complete"} => j.task \in Created
  /\ j.at \in {"send", "refused"} => j.ver = row[j.task].ver
  /\ j.at \in {"cancel", "progress"} => j.seen \in Active
  /\ j.at = "progress" => j.new \in Reported
  /\ j.at = "complete" => Ran(row[j.task].ver)

JobsOK == job \in [Threads -> Jobs] /\ \A h \in Threads : JobGood(job[h])

\* What is on its way is about tasks that exist, and a Hello says what has run.
MessageOK(m) == IF m.kind = "hello" THEN Ran(m.ver) ELSE m.task \in Created

LinkOK ==
  /\ down \in Seq(Tasks) /\ \A i \in 1 .. Len(down) : down[i] \in Created
  /\ up \in Seq(Hellos \cup Progress) /\ \A i \in 1 .. Len(up) : MessageOK(up[i])

WaitOK == waiting \subseteq Created /\ resent \in [Tasks -> 0 .. Retries]

\* The node.
DeviceOK ==
  /\ fw \in Versions \cup {NoVersion} /\ Ran(fw)
  /\ last \in Created \cup {NoTask} /\ lastStatus \in {0, 1, 3}
  /\ upgrading \in Created \cup {NoTask}
  /\ stage \in {"idle", "start", "download", "switched", "boot"} /\ (stage = "idle" <=> upgrading = NoTask)
  /\ flashed \in Seq(Tasks) /\ \A i \in 1 .. Len(flashed) : flashed[i] \in Created

SuccessOK == \A t \in Tasks : row[t].st = "success" => Ran(row[t].ver)

\* With one task, what was started is remembered.
OnceOK ==
  2 \notin Created =>
    /\ Len(flashed) <= 1
    /\ upgrading # NoTask => last # NoTask /\ flashed = <<>>
    /\ flashed # <<>> => last # NoTask

\* The channel of a task is registered once, open.
ChanOK ==
  /\ pend \subseteq Created /\ chans \in [Tasks -> 0 .. 1]
  /\ \A t \in Tasks : t \in pend \/ t \notin Created => chans[t] = 0
  /\ \A h \in Threads : job[h].at = "send" => job[h].task \notin pend /\ chans[job[h].task] = 0
  /\ \A g, h \in Threads : g # h /\ job[g].at = "send"
     /\ job[h].at = "send" => job[g].task # job[h].task

OtaInv == RowOK /\ RoomOK /\ JobsOK /\ LinkOK /\ WaitOK /\ DeviceOK /\ SuccessOK /\ OnceOK /\ ChanOK

LEMMA OtaConstants ==
    /\ MaxTask \in Nat /\ MaxTask >= 1 /\ Tasks = 1 .. MaxTask /\ NoTask \notin Tasks
    /\ Retries \in Nat /\ Factory \in Versions /\ Scanner \in Threads
    /\ Tasks \subseteq Threads /\ Callers \subseteq Threads /\ Receivers \subseteq Threads
  BY OtaAssumption DEF Tasks, NoTask, Threads

\* Tasks that exist go on to exist, for the same version, and what has run has run.
Grows ==
  /\ \A t \in Created : t \in Created' /\ row'[t].ver = row[t].ver
  /\ \A v : Ran(v) => Ran(v)'

LEMMA GrowsWithTasks ==
    ASSUME DeviceOK, flashed' = flashed,
           \A t \in Created : t \in Created' /\ row'[t].ver = row[t].ver
    PROVE  Grows
  <1>1. ASSUME NEW v, Ran(v) PROVE Ran(v)'
    <2>1. CASE v = Factory
      BY <2>1 DEF Ran
    <2>2. CASE v # Factory
      <3>1. PICK i \in 1 .. Len(flashed) : row[flashed[i]].ver = v
        BY <1>1, <2>2 DEF Ran
      <3>2. row'[flashed[i]].ver = v
        BY <3>1 DEF DeviceOK
      <3> QED  BY <3>1, <3>2 DEF Ran
    <2> QED  BY <2>1, <2>2
  <1> QED  BY <1>1 DEF Grows

\* An UPDATE of rows that exist.
LEMMA UpdatedRows ==
    ASSUME RowOK, NEW S \in SUBSET Created, NEW st \in Active \cup Terminal, NEW why \in Whys,
           Updated(S, st, why)
    PROVE  /\ row' \in [Tasks -> Rows] /\ Created' = Created
           /\ \A t \in Tasks : row'[t].ver = row[t].ver
           /\ \A t \in S : row'[t].st = st /\ row'[t].why = why
           /\ \A t \in Tasks \ S : row'[t] = row[t]
           /\ stale' \subseteq InFlight'
  <1>1. row \in [Tasks -> Rows] /\ stale \subseteq InFlight /\ S \subseteq Tasks
    BY DEF RowOK, Created
  <1>2. row' = [t \in Tasks |-> IF t \in S
                  THEN [row[t] EXCEPT !.st = st, !.old = FALSE, !.why = why,
                                      !.done = @ \/ st \in Terminal]
                  ELSE row[t]]
    BY DEF Updated
  <1>3. ASSUME NEW t \in S
        PROVE  row'[t] \in Rows /\ row'[t].st = st /\ row'[t].why = why /\ row'[t].ver = row[t].ver
    <2>1. t \in Tasks /\ row[t] \in Rows
      BY <1>1
    <2>2. row'[t] = [row[t] EXCEPT !.st = st, !.old = FALSE, !.why = why, !.done = @ \/ st \in Terminal]
      BY <1>2, <2>1
    <2>3. (row[t].done \/ st \in Terminal) \in BOOLEAN
      OBVIOUS
    <2> QED  BY <2>1, <2>2, <2>3 DEF Rows
  <1>4. ASSUME NEW t \in Tasks \ S PROVE row'[t] = row[t]
    BY <1>2
  <1>5. row' \in [Tasks -> Rows]
    <2>1. ASSUME NEW t \in Tasks PROVE row'[t] \in Rows
      BY <1>1, <1>3, <1>4
    <2> QED  BY <1>2, <2>1
  <1>6. Created' = Created
    BY <1>3, <1>4 DEF Created, Active, Terminal
  <1>7. stale' \subseteq InFlight'
    <2>1. stale' = stale \ S
      BY DEF Updated
    <2> QED  BY <1>1, <1>4, <2>1 DEF InFlight
  <1> QED  BY <1>3, <1>4, <1>5, <1>6, <1>7

\* What the server does leaves the node, and what the node does leaves the server.
LEMMA DeviceStays ==
    ASSUME DeviceOK, Grows, UNCHANGED <<fw, last, lastStatus, upgrading, stage, flashed>>
    PROVE  DeviceOK'
  BY DEF DeviceOK, Grows

LEMMA OnceStays ==
    ASSUME OnceOK, Grows, UNCHANGED <<last, upgrading, flashed>>
    PROVE  OnceOK'
  BY DEF OnceOK, Grows

LEMMA DownStays ==
    ASSUME LinkOK, Grows, NEW t \in Created, t \in Tasks, down' = down \/ down' = Append(down, t)
    PROVE  down' \in Seq(Tasks) /\ \A i \in 1 .. Len(down') : down'[i] \in Created'
  <1>1. down \in Seq(Tasks) /\ \A i \in 1 .. Len(down) : down[i] \in Created'
    BY DEF LinkOK, Grows
  <1>2. CASE down' = Append(down, t)
    <2>1. /\ Append(down, t) \in Seq(Tasks) /\ Len(Append(down, t)) = Len(down) + 1
          /\ \A i \in 1 .. Len(down) : Append(down, t)[i] = down[i]
          /\ Append(down, t)[Len(down) + 1] = t
      BY <1>1, AppendProperties
    <2>2. Len(down) \in Nat
      BY <1>1, LenProperties
    <2>3. t \in Created'
      BY DEF Grows
    <2>4. ASSUME NEW i \in 1 .. Len(down) + 1 PROVE Append(down, t)[i] \in Created'
      <3>1. CASE i = Len(down) + 1
        BY <2>1, <2>3, <3>1
      <3>2. CASE i # Len(down) + 1
        <4>1. i \in 1 .. Len(down)
          BY <2>2, <3>2
        <4> QED  BY <1>1, <2>1, <4>1
      <3> QED  BY <3>1, <3>2
    <2> QED  BY <1>2, <2>1, <2>4
  <1> QED  BY <1>1, <1>2

LEMMA UpStays ==
    ASSUME LinkOK, Grows, up' = up \/ (up # <<>> /\ up' = Tail(up))
    PROVE  up' \in Seq(Hellos \cup Progress) /\ \A i \in 1 .. Len(up') : MessageOK(up[i])'
  <1>1. up \in Seq(Hellos \cup Progress) /\ Len(up) \in Nat
    BY LenProperties DEF LinkOK
  <1>2. ASSUME NEW m, MessageOK(m) PROVE MessageOK(m)'
    BY <1>2 DEF MessageOK, Grows
  <1>3. \A i \in 1 .. Len(up) : MessageOK(up[i])
    BY DEF LinkOK
  <1>4. CASE up' = up
    <2>1. ASSUME NEW i \in 1 .. Len(up') PROVE MessageOK(up[i])'
      <3>1. PICK m : m = up[i]
        OBVIOUS
      <3>2. MessageOK(m)' /\ up'[i] = m
        BY <1>2, <1>3, <1>4, <2>1, <3>1
      <3> QED  BY <3>2 DEF MessageOK
    <2> QED  BY <1>1, <1>4, <2>1
  <1>5. CASE up # <<>> /\ up' = Tail(up)
    <2>1. /\ Tail(up) \in Seq(Hellos \cup Progress) /\ Len(Tail(up)) = Len(up) - 1
          /\ \A i \in 1 .. Len(Tail(up)) : Tail(up)[i] = up[i + 1]
      BY <1>1, <1>5, HeadTailProperties
    <2>2. Len(up') = Len(up) - 1 /\ \A i \in 1 .. Len(up) - 1 : up'[i] = up[i + 1]
      BY <1>5, <2>1
    <2>3. ASSUME NEW i \in 1 .. Len(up') PROVE MessageOK(up[i])'
      <3>1. i + 1 \in 1 .. Len(up) /\ up'[i] = up[i + 1]
        BY <1>1, <2>2
      <3>2. PICK m : m = up[i + 1]
        OBVIOUS
      <3>3. MessageOK(m)' /\ up'[i] = m
        BY <1>2, <1>3, <3>1, <3>2
      <3> QED  BY <3>3 DEF MessageOK
    <2> QED  BY <1>5, <2>1, <2>3
  <1> QED  BY <1>4, <1>5

\* The first message of the node.
LEMMA FirstUp ==
    ASSUME LinkOK, up # <<>>
    PROVE  Head(up) \in Hellos \cup Progress /\ MessageOK(Head(up))
  <1>1. up \in Seq(Hellos \cup Progress)
    BY DEF LinkOK
  <1>2. Head(up) \in Hellos \cup Progress /\ Head(up) = up[1]
    BY <1>1, HeadTailProperties
  <1>3. 1 \in 1 .. Len(up)
    BY <1>1, EmptySeq
  <1> QED  BY <1>2, <1>3 DEF LinkOK

LEMMA JobsNow ==
    ASSUME JobsOK, Grows, NEW h \in Threads, NEW j \in Jobs, Now(h, j), JobGood(j)'
    PROVE  JobsOK'
  <1>1. job \in [Threads -> Jobs] /\ job' = [job EXCEPT ![h] = j]
    BY DEF JobsOK, Now
  <1>2. ASSUME NEW g \in Threads PROVE JobGood(job[g])'
    <2>1. CASE g = h
      BY <1>1, <2>1 DEF JobGood
    <2>2. CASE g # h
      <3>1. job'[g] = job[g] /\ JobGood(job[g])
        BY <1>1, <2>2 DEF JobsOK
      <3> QED  BY <3>1 DEF JobGood, Grows
    <2> QED  BY <2>1, <2>2
  <1>3. job' \in [Threads -> Jobs]
    BY <1>1
  <1>4. \A g \in Threads : JobGood(job[g])'
    BY <1>2
  <1> QED  BY <1>3, <1>4 DEF JobsOK

LEMMA JobsStay ==
    ASSUME JobsOK, Grows, job' = job
    PROVE  JobsOK'
  BY DEF JobsOK, JobGood, Grows

LEMMA IdleGood ==
    IdleJob \in Jobs /\ JobGood(IdleJob) /\ JobGood(IdleJob)'
  BY DEF IdleJob, Jobs, JobGood

-----------------------------------------------------------------------------
(* Numbers for the tasks. *)

Makes(j) == j.at \in {"supersede", "insert"}

LEMMA RoomStays ==
    ASSUME RoomOK, Created' = Created, Creating' \subseteq Creating
    PROVE  RoomOK'
  <1>1. PICK n \in 0 .. MaxTask : /\ Created = 1 .. n
                                 /\ IsFiniteSet(Creating) /\ Cardinality(Creating) <= MaxTask - n
    BY DEF RoomOK
  <1>2. IsFiniteSet(Creating') /\ Cardinality(Creating') <= Cardinality(Creating)
    BY <1>1, FS_Subset
  <1>3. Cardinality(Creating) \in Nat /\ Cardinality(Creating') \in Nat
    BY <1>1, <1>2, FS_CardinalityType
  <1>4. Cardinality(Creating') <= MaxTask - n
    BY <1>1, <1>2, <1>3, OtaConstants
  <1> QED  BY <1>1, <1>2, <1>4 DEF RoomOK

LEMMA RoomTaken ==
    ASSUME RoomOK, Room, Created' = Created, NEW h, Creating' \subseteq Creating \cup {h}
    PROVE  RoomOK'
  <1>1. PICK n \in 0 .. MaxTask : /\ Created = 1 .. n
                                 /\ IsFiniteSet(Creating) /\ Cardinality(Creating) <= MaxTask - n
    BY DEF RoomOK
  <1>2. Tasks \ Created = n + 1 .. MaxTask
    BY <1>1, OtaConstants
  <1>3. Cardinality(n + 1 .. MaxTask) = MaxTask - n
    <2>1. n + 1 \in Int /\ MaxTask \in Int
      BY OtaConstants
    <2>2. Cardinality(n + 1 .. MaxTask) = IF n + 1 > MaxTask THEN 0 ELSE MaxTask - (n + 1) + 1
      BY <2>1, FS_Interval
    <2> QED  BY <2>2, OtaConstants
  <1>4. IsFiniteSet(Creating \cup {h})
        /\ Cardinality(Creating \cup {h}) \in {Cardinality(Creating), Cardinality(Creating) + 1}
    BY <1>1, FS_AddElement
  <1>5. IsFiniteSet(Creating') /\ Cardinality(Creating') <= Cardinality(Creating \cup {h})
    BY <1>4, FS_Subset
  <1>6. Cardinality(Creating) \in Nat /\ Cardinality(Creating') \in Nat
    BY <1>1, <1>5, FS_CardinalityType
  <1>7. MaxTask - n > Cardinality(Creating)
    BY <1>2, <1>3 DEF Room
  <1>8. Cardinality(Creating') <= MaxTask - n
    BY <1>4, <1>5, <1>6, <1>7, OtaConstants
  <1> QED  BY <1>1, <1>5, <1>8 DEF RoomOK

\* The number a new task gets is free, and is the next one.
LEMMA NextNumber ==
    ASSUME RoomOK, NEW h \in Creating
    PROVE  /\ Cardinality(Created) + 1 \in Tasks /\ Cardinality(Created) + 1 \notin Created
           /\ Created \cup {Cardinality(Created) + 1} = 1 .. Cardinality(Created) + 1
           /\ Cardinality(Created) \in Nat /\ IsFiniteSet(Creating)
           /\ Cardinality(Creating \ {h}) <= MaxTask - (Cardinality(Created) + 1)
  <1>1. PICK n \in 0 .. MaxTask : /\ Created = 1 .. n
                                 /\ IsFiniteSet(Creating) /\ Cardinality(Creating) <= MaxTask - n
    BY DEF RoomOK
  <1>2. Cardinality(Created) = n
    <2>1. Cardinality(1 .. n) = IF 1 > n THEN 0 ELSE n - 1 + 1
      <3>1. 1 \in Int /\ n \in Int
        OBVIOUS
      <3> QED  BY <3>1, FS_Interval
    <2> QED  BY <1>1, <2>1
  <1>3. Cardinality(Creating \ {h}) = Cardinality(Creating) - 1 /\ Cardinality(Creating) \in Nat
    BY <1>1, FS_RemoveElement, FS_CardinalityType
  <1>4. Cardinality(Creating) >= 1
    <2>1. Cardinality(Creating) # 0
      BY <1>1, FS_EmptySet
    <2> QED  BY <1>3, <2>1
  <1>5. n + 1 \in 1 .. MaxTask /\ n + 1 \notin 1 .. n /\ 1 .. n \cup {n + 1} = 1 .. n + 1
    BY <1>1, <1>3, <1>4, OtaConstants
  <1>6. Cardinality(Creating) - 1 <= MaxTask - (n + 1)
    BY <1>1, <1>3, OtaConstants
  <1> QED  BY <1>1, <1>2, <1>3, <1>5, <1>6, OtaConstants

LEMMA CreatingNow ==
    ASSUME JobsOK, NEW h \in Threads, NEW j \in Jobs, Now(h, j)
    PROVE  /\ Creating' \subseteq Creating \cup {h}
           /\ ~Makes(j) \/ Makes(job[h]) => Creating' \subseteq Creating
           /\ ~Makes(j) => Creating' = Creating \ {h}
  <1>1. /\ job'[h] = j /\ \A g \in Threads : g # h => job'[g] = job[g]
    BY DEF JobsOK, Now
  <1> QED  BY <1>1 DEF Creating, Makes

(* The channels of the waiters. *)

LEMMA ChanStays ==
    ASSUME ChanOK, Created \subseteq Created', pend' \subseteq pend, chans' = chans,
           \A h \in Threads : job'[h].at = "send" => job'[h] = job[h]
    PROVE  ChanOK'
  BY DEF ChanOK

LEMMA ChanClosed ==
    ASSUME ChanOK, Created' = Created, NEW t \in Tasks, CloseChan(t),
           \A h \in Threads : job'[h].at = "send" => job'[h] = job[h]
    PROVE  ChanOK'
  <1>1. pend' = pend \ {t} /\ chans' = IF t \in pend THEN [chans EXCEPT ![t] = @ + 1] ELSE chans
    BY DEF CloseChan
  <1>2. CASE t \notin pend
    <2>1. chans' = chans /\ pend' \subseteq pend
      BY <1>1, <1>2
    <2> QED  BY <2>1, ChanStays
  <1>3. CASE t \in pend
    <2>1. chans \in [Tasks -> 0 .. 1] /\ chans[t] = 0 /\ t \in Created
      BY <1>3 DEF ChanOK
    <2>2. /\ chans' = [chans EXCEPT ![t] = chans[t] + 1] /\ chans[t] + 1 = 1
      BY <1>1, <1>3, <2>1
    <2>3. chans' \in [Tasks -> 0 .. 1] /\ \A u \in Tasks : u # t => chans'[u] = chans[u]
      BY <2>1, <2>2
    <2>4. pend' \subseteq Created' /\ \A u \in Tasks : u \in pend' \/ u \notin Created' => chans'[u] = 0
      BY <1>1, <2>1, <2>3 DEF ChanOK
    <2>5. ASSUME NEW h \in Threads, job'[h].at = "send"
          PROVE  job'[h].task \notin pend' /\ chans'[job'[h].task] = 0
      <3>1. job'[h] = job[h] /\ job[h].task \notin pend /\ chans[job[h].task] = 0
        BY <2>5 DEF ChanOK
      <3>2. job[h].task # t
        BY <1>3, <3>1
      <3>3. chans'[job[h].task] = chans[job[h].task]
        BY <2>1, <2>2, <3>2
      <3> QED  BY <1>1, <3>1, <3>3
    <2>6. \A g, h \in Threads : g # h /\ job'[g].at = "send"
          /\ job'[h].at = "send" => job'[g].task # job'[h].task
      BY DEF ChanOK
    <2> QED  BY <2>3, <2>4, <2>5, <2>6 DEF ChanOK
  <1> QED  BY <1>2, <1>3

LEMMA NoNewSender ==
    ASSUME JobsOK, NEW h \in Threads, NEW j \in Jobs, Now(h, j), j.at # "send"
    PROVE  \A g \in Threads : job'[g].at = "send" => job'[g] = job[g]
  BY DEF JobsOK, Now

\* The newest of some tasks is one of them.
LEMMA LeastNumber ==
    ASSUME NEW T \in SUBSET Nat, T # {}
    PROVE  \E n \in T : \A k \in T : n <= k
  <1>1. IsWellFoundedOn(OpToRel(<, Nat), Nat)
    BY NatLessThanWellFounded
  <1>2. PICK n \in T : \A k \in T : ~(<<k, n>> \in OpToRel(<, Nat))
    BY <1>1, WFMin
  <1>3. \A k \in T : ~(k < n)
    BY <1>2 DEF OpToRel
  <1> QED  BY <1>3

LEMMA NewestIsOne ==
    ASSUME NEW S \in SUBSET Tasks, S # {}
    PROVE  Newest(S) \in S
  <1> DEFINE T == {MaxTask - t : t \in S}
  <1>1. T \in SUBSET Nat /\ T # {}
    <2>1. \A t \in S : MaxTask - t \in Nat
      BY OtaConstants
    <2>2. \A t \in S : MaxTask - t \in T
      OBVIOUS
    <2> QED  BY <2>1, <2>2
  <1>2. PICK n \in T : \A k \in T : n <= k
    <2> HIDE DEF T
    <2> QED  BY <1>1, LeastNumber
  <1>3. PICK t \in S : n = MaxTask - t
    BY <1>2
  <1>4. \A u \in S : u <= t
    <2>1. \A u \in S : n <= MaxTask - u
      BY <1>2
    <2> QED  BY <1>3, <2>1, OtaConstants
  <1> QED  BY <1>4 DEF Newest

\* Where rows and history stay, so do the tasks.
LEMMA RowsStay ==
    ASSUME RowOK, DeviceOK, SuccessOK, row' = row, flashed' = flashed
    PROVE  Grows /\ Created' = Created /\ InFlight' = InFlight /\ SuccessOK'
  <1>1. Created' = Created /\ InFlight' = InFlight
    BY DEF Created, InFlight
  <1>2. Grows
    BY <1>1, GrowsWithTasks
  <1> QED  BY <1>1, <1>2 DEF SuccessOK, Grows

-----------------------------------------------------------------------------
(* The server's steps. *)

\* What a step of the server leaves alone.
NodeStays == UNCHANGED <<fw, last, lastStatus, upgrading, stage, flashed>>

\* The channels after a step: none is registered, one may be closed.
ChansMove == \/ pend' \subseteq pend /\ chans' = chans
             \/ \E t \in Tasks : CloseChan(t)

LEMMA ChansMoved ==
    ASSUME ChanOK, Created' = Created, ChansMove,
           \A h \in Threads : job'[h].at = "send" => job'[h] = job[h]
    PROVE  ChanOK'
  <1>1. CASE pend' \subseteq pend /\ chans' = chans
    BY <1>1, ChanStays
  <1>2. CASE \E t \in Tasks : CloseChan(t)
    BY <1>2, ChanClosed
  <1> QED  BY <1>1, <1>2 DEF ChansMove

\* Messages to the node are about tasks, and one from it may have been taken.
LinkMoves ==
  /\ down' = down \/ \E t \in Created : down' = Append(down, t)
  /\ up' = up \/ (up # <<>> /\ up' = Tail(up))

LEMMA LinkMoved ==
    ASSUME LinkOK, Grows, LinkMoves
    PROVE  LinkOK'
  <1>1. down' \in Seq(Tasks) /\ \A i \in 1 .. Len(down') : down'[i] \in Created'
    <2>1. CASE down' = down
      BY <2>1 DEF LinkOK, Grows
    <2>2. CASE \E t \in Created : down' = Append(down, t)
      <3>1. PICK t \in Created : down' = Append(down, t)
        BY <2>2
      <3>2. t \in Tasks
        BY DEF Created
      <3> QED  BY <3>1, <3>2, DownStays
    <2> QED  BY <2>1, <2>2 DEF LinkMoves
  <1>2. up' \in Seq(Hellos \cup Progress) /\ \A i \in 1 .. Len(up') : MessageOK(up[i])'
    BY UpStays DEF LinkMoves
  <1> QED  BY <1>1, <1>2 DEF LinkOK

\* A step that only changes what a thread does.
LEMMA JobStep ==
    ASSUME OtaInv, row' = row, stale' = stale, scanned' = scanned,
           {stable', dbFw'} \subseteq Versions \cup {NoVersion},
           ChansMove, waiting' = waiting, resent' = resent, LinkMoves, NodeStays,
           NEW h \in Threads, NEW j \in Jobs, Now(h, j), JobGood(j), j.at # "send",
           Makes(j) => Room
    PROVE  OtaInv'
  <1>1. RowOK /\ RoomOK /\ JobsOK /\ LinkOK /\ WaitOK /\ DeviceOK /\ SuccessOK /\ OnceOK /\ ChanOK
    BY DEF OtaInv
  <1>2. Grows /\ Created' = Created /\ InFlight' = InFlight /\ SuccessOK'
    BY <1>1, RowsStay DEF NodeStays
  <1>3. RowOK'
    BY <1>1, <1>2 DEF RowOK
  <1>4. RoomOK'
    <2>1. CASE Makes(j)
      BY <1>1, <1>2, <2>1, CreatingNow, RoomTaken
    <2>2. CASE ~Makes(j)
      BY <1>1, <1>2, <2>2, CreatingNow, RoomStays
    <2> QED  BY <2>1, <2>2
  <1>5. JobsOK'
    <2>1. JobGood(j)'
      BY <1>2 DEF JobGood, Grows
    <2> QED  BY <1>1, <1>2, <2>1, JobsNow
  <1>6. ChanOK'
    <2>1. \A g \in Threads : job'[g].at = "send" => job'[g] = job[g]
      BY <1>1, NoNewSender
    <2> QED  BY <1>1, <1>2, <2>1, ChansMoved
  <1>7. LinkOK' /\ WaitOK'
    BY <1>1, <1>2, LinkMoved DEF WaitOK
  <1>8. DeviceOK' /\ OnceOK'
    BY <1>1, <1>2, DeviceStays, OnceStays DEF NodeStays
  <1> QED  BY <1>2, <1>3, <1>4, <1>5, <1>6, <1>7, <1>8 DEF OtaInv

\* A step that changes neither the rows nor what a thread does.
LEMMA StillStep ==
    ASSUME OtaInv, row' = row, job' = job, stale' \subseteq InFlight, scanned' \subseteq Tasks,
           {stable', dbFw'} \subseteq Versions \cup {NoVersion},
           ChansMove, waiting' \subseteq waiting, resent' \in [Tasks -> 0 .. Retries],
           LinkMoves, NodeStays
    PROVE  OtaInv'
  <1>1. RowOK /\ RoomOK /\ JobsOK /\ LinkOK /\ WaitOK /\ DeviceOK /\ SuccessOK /\ OnceOK /\ ChanOK
    BY DEF OtaInv
  <1>2. Grows /\ Created' = Created /\ InFlight' = InFlight /\ SuccessOK'
    BY <1>1, RowsStay DEF NodeStays
  <1>3. RowOK'
    BY <1>1, <1>2 DEF RowOK
  <1>4. RoomOK'
    <2>1. Creating' \subseteq Creating
      BY DEF Creating
    <2> QED  BY <1>1, <1>2, <2>1, RoomStays
  <1>5. JobsOK'
    BY <1>1, <1>2, JobsStay
  <1>6. ChanOK'
    BY <1>1, <1>2, ChansMoved
  <1>7. LinkOK' /\ WaitOK'
    BY <1>1, <1>2, LinkMoved DEF WaitOK
  <1>8. DeviceOK' /\ OnceOK'
    BY <1>1, <1>2, DeviceStays, OnceStays DEF NodeStays
  <1> QED  BY <1>2, <1>3, <1>4, <1>5, <1>6, <1>7, <1>8 DEF OtaInv

\* A step that updates rows of tasks that exist, and changes what a thread does.
LEMMA WriteStep ==
    ASSUME OtaInv, NEW S \in SUBSET Created, NEW st \in Active \cup Terminal, NEW why \in Whys,
           Updated(S, st, why), st = "success" => \A t \in S : Ran(row[t].ver),
           scanned' \subseteq scanned, {stable', dbFw'} \subseteq Versions \cup {NoVersion},
           ChansMove, waiting' \subseteq waiting, resent' = resent, down' = down, up' = up, NodeStays,
           NEW h \in Threads, NEW j \in Jobs, Now(h, j), j.at # "send",
           Makes(j) => Makes(job[h]),
           j.at \notin {"refused", "cancel", "progress", "complete"},
           j.at = "ack" => j.task \in Created
    PROVE  OtaInv'
  <1>1. RowOK /\ RoomOK /\ JobsOK /\ LinkOK /\ WaitOK /\ DeviceOK /\ SuccessOK /\ OnceOK /\ ChanOK
    BY DEF OtaInv
  <1>2. /\ row' \in [Tasks -> Rows] /\ Created' = Created
        /\ \A t \in Tasks : row'[t].ver = row[t].ver
        /\ \A t \in S : row'[t].st = st /\ row'[t].why = why
        /\ \A t \in Tasks \ S : row'[t] = row[t]
        /\ stale' \subseteq InFlight'
    BY <1>1, UpdatedRows
  <1>3. Grows
    BY <1>1, <1>2, GrowsWithTasks DEF NodeStays, Created
  <1>4. RowOK'
    BY <1>1, <1>2 DEF RowOK
  <1>5. RoomOK'
    BY <1>1, <1>2, CreatingNow, RoomStays
  <1>6. JobsOK'
    <2>1. JobGood(j)'
      BY <1>2 DEF JobGood
    <2> QED  BY <1>1, <1>3, <2>1, JobsNow
  <1>7. ChanOK'
    <2>1. \A g \in Threads : job'[g].at = "send" => job'[g] = job[g]
      BY <1>1, NoNewSender
    <2> QED  BY <1>1, <1>2, <2>1, ChansMoved
  <1>8. LinkOK' /\ WaitOK'
    <2>1. LinkMoves
      BY DEF LinkMoves
    <2> QED  BY <1>1, <1>2, <1>3, <2>1, LinkMoved DEF WaitOK
  <1>9. DeviceOK' /\ OnceOK'
    BY <1>1, <1>3, DeviceStays, OnceStays DEF NodeStays
  <1>10. SuccessOK'
    <2>1. ASSUME NEW t \in Tasks, row'[t].st = "success" PROVE Ran(row[t].ver)
      <3>1. CASE t \in S
        BY <1>2, <2>1, <3>1
      <3>2. CASE t \notin S
        BY <1>1, <1>2, <2>1, <3>2 DEF SuccessOK
      <3> QED  BY <3>1, <3>2
    <2>2. \A t \in Tasks : \A v : row'[t].st = "success" /\ v = row'[t].ver => Ran(v)'
      BY <1>2, <1>3, <2>1 DEF Grows
    <2> QED  BY <2>2 DEF SuccessOK
  <1> QED  BY <1>4, <1>5, <1>6, <1>7, <1>8, <1>9, <1>10 DEF OtaInv

LEMMA Parts ==
    ASSUME OtaInv
    PROVE  /\ RowOK /\ RoomOK /\ JobsOK /\ LinkOK /\ WaitOK /\ DeviceOK /\ SuccessOK /\ OnceOK /\ ChanOK
           /\ row \in [Tasks -> Rows] /\ job \in [Threads -> Jobs]
           /\ \A h \in Threads : job[h] \in Jobs /\ JobGood(job[h])
           /\ Created \subseteq Tasks /\ InFlight \subseteq Created
           /\ stale \subseteq InFlight /\ scanned \subseteq Tasks
           /\ {stable, dbFw} \subseteq Versions \cup {NoVersion}
           /\ waiting \subseteq Created /\ resent \in [Tasks -> 0 .. Retries]
  BY DEF OtaInv, RowOK, JobsOK, WaitOK, Created, InFlight, Active

LEMMA RequestStep ==
    ASSUME OtaInv, NEW h \in Callers, NEW v \in Versions, Request(h, v)
    PROVE  OtaInv'
  <1>1. /\ row' = row /\ stale' = stale /\ scanned' = scanned /\ stable' = stable /\ dbFw' = dbFw
        /\ waiting' = waiting /\ resent' = resent /\ ChansMove /\ LinkMoves /\ NodeStays
    BY DEF Request, server, waits, device, NodeStays, ChansMove, LinkMoves
  <1>2. PICK j \in Jobs : j = [IdleJob EXCEPT !.at = "supersede", !.ver = v]
    BY DEF IdleJob, Jobs
  <1>3. j.at = "supersede" /\ Now(h, j) /\ Room /\ JobGood(j)
    BY <1>2 DEF Request, IdleJob, JobGood
  <1> QED  BY <1>1, <1>3, JobStep, OtaConstants, Parts

LEMMA RollbackStep ==
    ASSUME OtaInv, NEW h \in Threads, Rollback(h)
    PROVE  OtaInv'
  <1>1. /\ row' = row /\ stale' = stale /\ scanned' = scanned /\ stable' = stable /\ dbFw' = dbFw
        /\ waiting' = waiting /\ resent' = resent /\ ChansMove /\ LinkMoves /\ NodeStays
    BY DEF Rollback, server, waits, device, NodeStays, ChansMove, LinkMoves
  <1>2. CASE Now(h, IdleJob)
    <2>1. IdleJob.at # "send" /\ ~Makes(IdleJob)
      BY DEF IdleJob, Makes
    <2> QED  BY <1>1, <1>2, <2>1, JobStep, IdleGood, Parts
  <1>3. CASE Room /\ Now(h, [IdleJob EXCEPT !.at = "supersede", !.ver = stable])
    <2>1. PICK j \in Jobs : j = [IdleJob EXCEPT !.at = "supersede", !.ver = stable]
      BY Parts DEF IdleJob, Jobs
    <2>2. j.at = "supersede" /\ Now(h, j) /\ Room /\ JobGood(j)
      BY <1>3, <2>1 DEF IdleJob, JobGood
    <2> QED  BY <1>1, <2>2, JobStep, Parts
  <1> QED  BY <1>2, <1>3 DEF Rollback

LEMMA CancelStep ==
    ASSUME OtaInv, NEW h \in Callers, NEW t \in Tasks, Cancel(h, t)
    PROVE  OtaInv'
  <1>1. /\ row' = row /\ stale' = stale /\ scanned' = scanned /\ stable' = stable /\ dbFw' = dbFw
        /\ waiting' = waiting /\ resent' = resent /\ ChansMove /\ LinkMoves /\ NodeStays
    BY DEF Cancel, server, waits, device, NodeStays, ChansMove, LinkMoves
  <1>2. row[t].st \in {"pending", "downloading"} /\ t \in Created /\ row[t].st \in Active
    BY DEF Cancel, Created, Active
  <1>3. PICK j \in Jobs : j = [IdleJob EXCEPT !.at = "cancel", !.task = t, !.seen = row[t].st]
    BY <1>2 DEF IdleJob, Jobs
  <1>4. j.at = "cancel" /\ j.task = t /\ j.seen = row[t].st /\ Now(h, j)
    BY <1>3 DEF Cancel, IdleJob
  <1>5. JobGood(j) /\ ~Makes(j) /\ j.at # "send"
    BY <1>2, <1>4 DEF JobGood, Makes
  <1> QED  BY <1>1, <1>4, <1>5, JobStep, OtaConstants, Parts

LEMMA SupersedeStep ==
    ASSUME OtaInv, NEW h \in Threads, Supersede(h)
    PROVE  OtaInv'
  <1>1. /\ scanned' = scanned /\ stable' = stable /\ dbFw' = dbFw
        /\ waiting' = waiting /\ resent' = resent /\ ChansMove /\ down' = down /\ up' = up /\ NodeStays
    BY DEF Supersede, waits, device, NodeStays, ChansMove
  <1>2. Updated(InFlight, "failed", "superseded") /\ InFlight \subseteq Created
        /\ "failed" \in Active \cup Terminal /\ "superseded" \in Whys
    BY Parts DEF Supersede, Terminal, Whys
  <1>3. PICK j \in Jobs : j = [job[h] EXCEPT !.at = "insert"]
    BY Parts DEF Jobs
  <1>4. j.at = "insert" /\ Now(h, j) /\ Makes(job[h])
    <2>1. job[h] \in Jobs
      BY Parts
    <2> QED  BY <1>3, <2>1 DEF Supersede, Jobs, Makes
  <1> QED  BY <1>1, <1>2, <1>4, WriteStep, Parts

LEMMA ExhaustStep ==
    ASSUME OtaInv, NEW t \in Tasks, Exhaust(t)
    PROVE  OtaInv'
  <1>1. /\ scanned' = scanned /\ stable' = stable /\ dbFw' = dbFw /\ waiting' = waiting \ {t}
        /\ pend' = pend \ {t} /\ chans' = chans
        /\ resent' = resent /\ down' = down /\ up' = up /\ NodeStays
    BY DEF Exhaust, device, NodeStays
  <1>2. ChansMove /\ LinkMoves
    BY <1>1 DEF ChansMove, LinkMoves
  <1>3. CASE StillActive(t)
    <2>1. Updated({t}, "failed", "no ack") /\ {t} \subseteq Created
          /\ "failed" \in Active \cup Terminal /\ "no ack" \in Whys
      BY <1>3, Parts DEF Exhaust, StillActive, Created, Active, Terminal, Whys
    <2>2. PICK j \in Jobs : j = [IdleJob EXCEPT !.at = "rollback"]
      BY DEF Jobs, IdleJob
    <2>3. j.at = "rollback" /\ Now(t, j) /\ ~Makes(j)
      BY <1>3, <2>2 DEF Exhaust, IdleJob, Makes
    <2>4. t \in Threads /\ waiting' \subseteq waiting /\ scanned' \subseteq scanned
      BY <1>1, OtaConstants
    <2> QED  BY <1>1, <1>2, <2>1, <2>3, <2>4, WriteStep, Parts
  <1>4. CASE ~StillActive(t)
    <2>1. row' = row /\ stale' = stale /\ job' = job /\ waiting' \subseteq waiting
      BY <1>1, <1>4 DEF Exhaust, Untouched
    <2> QED  BY <1>1, <1>2, <2>1, StillStep, Parts
  <1> QED  BY <1>3, <1>4

LEMMA TimeOutStep ==
    ASSUME OtaInv, NEW t \in Tasks, TimeOut(t)
    PROVE  OtaInv'
  <1>1. /\ scanned' = scanned \ {t} /\ stable' = stable /\ dbFw' = dbFw /\ waiting' = waiting
        /\ pend' = pend /\ chans' = chans
        /\ resent' = resent /\ down' = down /\ up' = up /\ NodeStays
    BY DEF TimeOut, waits, device, NodeStays
  <1>2. ChansMove /\ LinkMoves /\ scanned' \subseteq scanned
    BY <1>1 DEF ChansMove, LinkMoves
  <1>3. CASE StillStale(t)
    <2>1. Updated({t}, "timeout", "") /\ {t} \subseteq Created
          /\ "timeout" \in Active \cup Terminal /\ "" \in Whys
      BY <1>3, Parts DEF TimeOut, StillStale, Terminal, Whys
    <2>2. PICK j \in Jobs : j = [IdleJob EXCEPT !.at = "rollback"]
      BY DEF Jobs, IdleJob
    <2>3. j.at = "rollback" /\ Now(Scanner, j) /\ ~Makes(j)
      BY <1>3, <2>2 DEF TimeOut, IdleJob, Makes
    <2> QED  BY <1>1, <1>2, <2>1, <2>3, WriteStep, Parts, OtaConstants
  <1>4. CASE ~StillStale(t)
    <2>1. row' = row /\ stale' = stale /\ job' = job /\ waiting' \subseteq waiting
      BY <1>1, <1>4 DEF TimeOut, Untouched
    <2> QED  BY <1>1, <1>2, <2>1, StillStep, Parts
  <1> QED  BY <1>3, <1>4

LEMMA ScanStep ==
    ASSUME OtaInv, Scan
    PROVE  OtaInv'
  <1>1. /\ row' = row /\ job' = job /\ stable' = stable /\ dbFw' = dbFw
        /\ waiting' = waiting /\ resent' = resent /\ ChansMove /\ LinkMoves /\ NodeStays
    BY DEF Scan, waits, device, NodeStays, ChansMove, LinkMoves
  <1>2. stale' \subseteq InFlight /\ scanned' \subseteq Tasks
    BY DEF Scan, InFlight, TimeoutProne, Active
  <1> QED  BY <1>1, <1>2, StillStep, Parts

LEMMA AckedStep ==
    ASSUME OtaInv, NEW t \in Tasks, Acked(t)
    PROVE  OtaInv'
  <1>1. /\ row' = row /\ job' = job /\ stale' = stale /\ scanned' = scanned /\ stable' = stable
           /\ dbFw' = dbFw
        /\ waiting' \subseteq waiting /\ resent' = resent /\ ChansMove /\ LinkMoves /\ NodeStays
    BY DEF Acked, waits, device, NodeStays, ChansMove, LinkMoves
  <1> QED  BY <1>1, StillStep, Parts

LEMMA ResendStep ==
    ASSUME OtaInv, NEW t \in Tasks, Resend(t)
    PROVE  OtaInv'
  <1>1. /\ row' = row /\ job' = job /\ stale' = stale /\ scanned' = scanned /\ stable' = stable
           /\ dbFw' = dbFw
        /\ waiting' = waiting /\ ChansMove /\ NodeStays /\ up' = up
    BY DEF Resend, device, NodeStays, ChansMove
  <1>2. t \in Created
    BY Parts DEF Resend, Waiting
  <1>3. LinkMoves
    BY <1>1, <1>2 DEF Resend, Publishes, LinkMoves
  <1>4. resent' \in [Tasks -> 0 .. Retries]
    <2>1. resent \in [Tasks -> 0 .. Retries] /\ resent[t] < Retries
          /\ resent' = [resent EXCEPT ![t] = resent[t] + 1]
      BY Parts DEF Resend
    <2>2. resent[t] + 1 \in 0 .. Retries
      BY <2>1, OtaConstants
    <2> QED  BY <2>1, <2>2
  <1> QED  BY <1>1, <1>3, <1>4, StillStep, Parts

LEMMA ConfirmCancelStep ==
    ASSUME OtaInv, NEW h \in Threads, ConfirmCancel(h)
    PROVE  OtaInv'
  <1>1. /\ scanned' = scanned /\ stable' = stable /\ dbFw' = dbFw /\ waiting' = waiting
        /\ resent' = resent /\ down' = down /\ up' = up /\ NodeStays /\ ChansMove
    BY DEF ConfirmCancel, waits, device, NodeStays, ChansMove
  <1>2. PICK t \in Created : t = job[h].task
    <2>1. JobGood(job[h])
      BY Parts
    <2> QED  BY <2>1 DEF ConfirmCancel, JobGood
  <1>3. CASE AsRead(h)
    <2>1. Updated({t}, "failed", "cancelled")
          /\ "failed" \in Active \cup Terminal /\ "cancelled" \in Whys
      BY <1>2, <1>3 DEF ConfirmCancel, Terminal, Whys
    <2>2. t \in Tasks
      BY DEF Created
    <2>3. PICK j \in Jobs : j = [IdleJob EXCEPT !.at = "ack", !.task = t]
      BY <2>2 DEF Jobs, IdleJob
    <2>4. j.at = "ack" /\ j.task = t
      BY <2>3 DEF IdleJob
    <2>5. Now(h, j) /\ ~Makes(j)
      BY <1>2, <1>3, <2>3, <2>4 DEF ConfirmCancel, Makes
    <2> QED  BY <1>1, <1>2, <2>1, <2>4, <2>5, WriteStep, Parts
  <1>4. CASE ~AsRead(h)
    <2>1. row' = row /\ stale' = stale /\ Now(h, IdleJob) /\ LinkMoves
      BY <1>1, <1>4 DEF ConfirmCancel, Untouched, LinkMoves
    <2>2. IdleJob.at = "idle" /\ ~Makes(IdleJob)
      BY DEF IdleJob, Makes
    <2> QED  BY <1>1, <2>1, <2>2, JobStep, Parts, IdleGood
  <1> QED  BY <1>3, <1>4

LEMMA ReadProgressStep ==
    ASSUME OtaInv, NEW h \in Threads, NEW t \in Tasks, NEW code \in {0, 1, 3}, ReadProgress(h, t, code)
    PROVE  OtaInv'
  <1>1. /\ row' = row /\ stale' = stale /\ scanned' = scanned /\ stable' = stable /\ dbFw' = dbFw
        /\ waiting' = waiting /\ resent' = resent /\ ChansMove /\ LinkMoves /\ NodeStays
    BY DEF ReadProgress, Take, server, waits, device, NodeStays, ChansMove, LinkMoves
  <1>2. t \in Created
    <2>1. up # <<>> /\ Head(up) = [kind |-> "progress", task |-> t, code |-> code]
      BY DEF ReadProgress, Take
    <2>2. MessageOK(Head(up))
      BY <2>1, FirstUp, Parts
    <2> QED  BY <2>1, <2>2 DEF MessageOK
  <1>3. CASE row[t].st \in Terminal
    <2>1. job' = job
      BY <1>3 DEF ReadProgress
    <2> QED  BY <1>1, <2>1, StillStep, Parts
  <1>4. CASE row[t].st \notin Terminal
    <2>1. row[t].st \in Active /\ StatusOf(code) \in Reported
      <3>1. row[t] \in Rows
        BY Parts
      <3>2. StatusOf(code) \in Reported
        BY DEF StatusOf, Reported
      <3> QED  BY <1>2, <1>4, <3>1, <3>2 DEF Rows, Created
    <2>2. PICK j \in Jobs : j = [IdleJob EXCEPT !.at = "progress", !.task = t, !.seen = row[t].st,
                                               !.new = StatusOf(code)]
      BY <2>1 DEF Jobs, IdleJob
    <2>3. j.at = "progress" /\ j.task = t /\ j.seen = row[t].st /\ j.new = StatusOf(code)
      BY <2>2 DEF IdleJob
    <2>4. Now(h, j) /\ JobGood(j) /\ ~Makes(j)
      BY <1>2, <1>4, <2>1, <2>2, <2>3 DEF ReadProgress, JobGood, Makes
    <2> QED  BY <1>1, <2>3, <2>4, JobStep, Parts
  <1> QED  BY <1>3, <1>4

LEMMA WriteProgressStep ==
    ASSUME OtaInv, NEW h \in Threads, WriteProgress(h)
    PROVE  OtaInv'
  <1>1. /\ scanned' = scanned /\ stable' = stable /\ dbFw' = dbFw /\ waiting' = waiting
        /\ resent' = resent /\ down' = down /\ up' = up /\ NodeStays /\ ChansMove
    BY DEF WriteProgress, waits, device, NodeStays, ChansMove
  <1>2. PICK k \in Jobs : k = job[h] /\ k.at = "progress" /\ k.task \in Created /\ k.new \in Reported
    <2>1. JobGood(job[h]) /\ job[h] \in Jobs
      BY Parts
    <2> QED  BY <2>1 DEF WriteProgress, JobGood
  <1>3. CASE AsRead(h)
    <2>1. Updated({k.task}, k.new, "device") /\ k.new \in Active \cup Terminal /\ "device" \in Whys
          /\ k.new # "success"
      BY <1>2, <1>3 DEF WriteProgress, Active, Terminal, Whys, Reported
    <2>2. PICK j \in Jobs : j = [k EXCEPT !.at = "ack"]
      BY <1>2 DEF Jobs
    <2>3. j.at = "ack" /\ j.task = k.task /\ Now(h, j) /\ ~Makes(j)
      BY <1>2, <1>3, <2>2 DEF WriteProgress, Jobs, Makes
    <2> QED  BY <1>1, <1>2, <2>1, <2>3, WriteStep, Parts
  <1>4. CASE ~AsRead(h)
    <2>1. row' = row /\ stale' = stale /\ Now(h, IdleJob) /\ LinkMoves
      BY <1>1, <1>4 DEF WriteProgress, Untouched, LinkMoves
    <2>2. IdleJob.at = "idle" /\ ~Makes(IdleJob)
      BY DEF IdleJob, Makes
    <2> QED  BY <1>1, <2>1, <2>2, JobStep, Parts, IdleGood
  <1> QED  BY <1>3, <1>4

LEMMA AckStep ==
    ASSUME OtaInv, NEW h \in Threads, Ack(h)
    PROVE  OtaInv'
  <1>1. /\ row' = row /\ stale' = stale /\ scanned' = scanned /\ stable' = stable /\ dbFw' = dbFw
        /\ waiting' = waiting /\ resent' = resent /\ LinkMoves /\ NodeStays
    BY DEF Ack, waits, device, NodeStays, LinkMoves
  <1>2. ChansMove
    <2>1. JobGood(job[h])
      BY Parts
    <2>2. job[h].task \in Tasks
      BY <2>1, Parts DEF Ack, JobGood
    <2> QED  BY <2>2 DEF Ack, ChansMove
  <1>3. PICK j \in Jobs : Now(h, j) /\ j.at \in {"idle", "rollback"}
    <2>1. [IdleJob EXCEPT !.at = "rollback"] \in Jobs
          /\ [IdleJob EXCEPT !.at = "rollback"].at = "rollback"
      BY DEF IdleJob, Jobs
    <2>2. IdleJob \in Jobs /\ IdleJob.at = "idle"
      BY DEF IdleJob, Jobs
    <2> QED  BY <2>1, <2>2 DEF Ack
  <1>4. JobGood(j) /\ ~Makes(j)
    BY <1>3 DEF JobGood, Makes
  <1> QED  BY <1>1, <1>2, <1>3, <1>4, JobStep, Parts

LEMMA ReadHelloStep ==
    ASSUME OtaInv, NEW h \in Threads, NEW v \in Versions, ReadHello(h, v)
    PROVE  OtaInv'
  <1>1. /\ row' = row /\ stale' = stale /\ scanned' = scanned /\ stable' = stable /\ dbFw' = v
        /\ waiting' = waiting /\ resent' = resent /\ ChansMove /\ LinkMoves /\ NodeStays
    BY DEF ReadHello, Take, waits, device, NodeStays, ChansMove, LinkMoves
  <1>2. Ran(v)
    <2>1. up # <<>> /\ Head(up) = [kind |-> "hello", ver |-> v]
      BY DEF ReadHello, Take
    <2>2. MessageOK(Head(up))
      BY <2>1, FirstUp, Parts
    <2> QED  BY <2>1, <2>2 DEF MessageOK
  <1>3. CASE InFlight # {} /\ IsTarget(Newest(InFlight), v)
    <2>1. PICK t \in InFlight : t = Newest(InFlight) /\ row[t].ver = v
      BY <1>3, NewestIsOne DEF InFlight, IsTarget
    <2>2. t \in Created /\ t \in Tasks
      BY <2>1, Parts
    <2>3. PICK j \in Jobs : j = [IdleJob EXCEPT !.at = "complete", !.task = t]
      BY <2>2 DEF Jobs, IdleJob
    <2>4. j.at = "complete" /\ j.task = t /\ Now(h, j)
      BY <1>3, <2>1, <2>3 DEF ReadHello, IdleJob
    <2>5. JobGood(j) /\ ~Makes(j)
      BY <1>2, <2>1, <2>2, <2>4 DEF JobGood, Makes
    <2> QED  BY <1>1, <2>4, <2>5, JobStep, Parts
  <1>4. CASE ~(InFlight # {} /\ IsTarget(Newest(InFlight), v))
    <2>1. job' = job
      BY <1>4 DEF ReadHello
    <2> QED  BY <1>1, <2>1, StillStep, Parts
  <1> QED  BY <1>3, <1>4

LEMMA CompleteStep ==
    ASSUME OtaInv, NEW h \in Threads, Complete(h)
    PROVE  OtaInv'
  <1>1. /\ scanned' = scanned /\ dbFw' = dbFw /\ waiting' = waiting
        /\ resent' = resent /\ down' = down /\ up' = up /\ NodeStays /\ ChansMove /\ Now(h, IdleJob)
    BY DEF Complete, waits, device, NodeStays, ChansMove
  <1>2. PICK t \in Created : t = job[h].task /\ Ran(row[t].ver)
    <2>1. JobGood(job[h])
      BY Parts
    <2> QED  BY <2>1 DEF Complete, JobGood
  <1>3. Updated({t}, "success", "hello") /\ "success" \in Active \cup Terminal /\ "hello" \in Whys
    BY <1>2 DEF Complete, Terminal, Whys
  <1>4. stable' \in Versions \cup {NoVersion}
    <2>1. row[t] \in Rows /\ stable' = row[t].ver
      BY <1>2, Parts DEF Complete
    <2> QED  BY <2>1 DEF Rows
  <1>5. IdleJob.at = "idle" /\ ~Makes(IdleJob)
    BY DEF IdleJob, Makes
  <1> QED  BY <1>1, <1>2, <1>3, <1>4, <1>5, WriteStep, Parts, IdleGood

LEMMA InsertStep ==
    ASSUME OtaInv, NEW h \in Threads, Insert(h)
    PROVE  OtaInv'
  <1>1. RowOK /\ RoomOK /\ JobsOK /\ LinkOK /\ WaitOK /\ DeviceOK /\ SuccessOK /\ OnceOK /\ ChanOK
    BY Parts
  <1>2. PICK t : t = Cardinality(Created) + 1
    OBVIOUS
  <1>3. PICK x : x = [Unused EXCEPT !.st = "pending", !.ver = job[h].ver]
    OBVIOUS
  <1>4. PICK j : j = [job[h] EXCEPT !.at = "send", !.task = t]
    OBVIOUS
  <1>5. row' = [row EXCEPT ![t] = x] /\ Now(h, j)
    BY <1>2, <1>3, <1>4 DEF Insert
  <1>6. /\ stale' = stale /\ scanned' = scanned /\ stable' = stable /\ dbFw' = dbFw /\ pend' = pend
        /\ chans' = chans /\ waiting' = waiting /\ resent' = resent /\ LinkMoves /\ NodeStays
    BY DEF Insert, waits, device, NodeStays, LinkMoves
  <1>7. h \in Creating /\ job[h] \in Jobs
    BY Parts DEF Insert, Creating
  <1>8. /\ t \in Tasks /\ t \notin Created /\ Created \cup {t} = 1 .. t /\ t \in Nat
        /\ IsFiniteSet(Creating) /\ Cardinality(Creating \ {h}) <= MaxTask - t
    BY <1>1, <1>2, <1>7, NextNumber
  <1>9. x \in Rows /\ x.st = "pending" /\ x.ver = job[h].ver
    BY <1>3, <1>7 DEF Unused, Rows, Jobs, Active, Whys
  <1>10. j \in Jobs /\ j.at = "send" /\ j.task = t /\ j.ver = job[h].ver /\ ~Makes(j)
    BY <1>4, <1>7, <1>8 DEF Jobs, Makes
  <1>11. /\ row' \in [Tasks -> Rows] /\ row'[t] = x /\ \A u \in Tasks : u # t => row'[u] = row[u]
    BY <1>5, <1>8, <1>9, Parts
  <1>12. Created' = Created \cup {t}
    BY <1>8, <1>9, <1>11 DEF Created
  <1>13. Grows
    BY <1>1, <1>6, <1>8, <1>11, <1>12, Parts, GrowsWithTasks DEF NodeStays
  <1>14. RowOK'
    <2>1. InFlight \subseteq InFlight'
      BY <1>8, <1>11, Parts DEF InFlight
    <2> QED  BY <1>1, <1>6, <1>11, <2>1 DEF RowOK
  <1>15. RoomOK'
    <2>1. Creating' = Creating \ {h}
      BY <1>1, <1>5, <1>10, CreatingNow
    <2>2. IsFiniteSet(Creating') /\ Cardinality(Creating') <= MaxTask - t
      BY <1>8, <2>1, FS_RemoveElement
    <2>3. t \in 0 .. MaxTask /\ Created' = 1 .. t
      BY <1>8, <1>12, OtaConstants
    <2> QED  BY <2>2, <2>3 DEF RoomOK
  <1>16. JobsOK'
    <2>1. JobGood(j)'
      BY <1>9, <1>10, <1>11, <1>12 DEF JobGood
    <2> QED  BY <1>1, <1>5, <1>10, <1>13, <2>1, JobsNow
  <1>17. LinkOK' /\ WaitOK'
    BY <1>1, <1>6, <1>12, <1>13, LinkMoved DEF WaitOK
  <1>18. DeviceOK' /\ OnceOK'
    BY <1>1, <1>6, <1>13, DeviceStays, OnceStays DEF NodeStays
  <1>19. SuccessOK'
    <2>1. ASSUME NEW u \in Tasks, row'[u].st = "success" PROVE Ran(row[u].ver) /\ row'[u] = row[u]
      BY <1>1, <1>9, <1>11, <2>1 DEF SuccessOK
    <2>2. \A u \in Tasks : \A v : row'[u].st = "success" /\ v = row'[u].ver => Ran(v)'
      BY <1>13, <2>1 DEF Grows
    <2> QED  BY <2>2 DEF SuccessOK
  <1>20. ChanOK'
    <2>1. job'[h] = j /\ \A g \in Threads : g # h => job'[g] = job[g]
      BY <1>1, <1>5 DEF JobsOK, Now
    <2>2. t \notin pend /\ chans[t] = 0
      BY <1>1, <1>8 DEF ChanOK
    <2>3. \A g \in Threads : job[g].at = "send" => job[g].task # t
      BY <1>8, Parts DEF JobGood
    <2>4. pend' \subseteq Created' /\ chans' \in [Tasks -> 0 .. 1]
          /\ \A u \in Tasks : u \in pend' \/ u \notin Created' => chans'[u] = 0
      BY <1>1, <1>6, <1>12 DEF ChanOK
    <2>5. \A g \in Threads : job'[g].at = "send" => job'[g].task \notin pend'
          /\ chans'[job'[g].task] = 0
      BY <1>1, <1>6, <1>10, <2>1, <2>2 DEF ChanOK
    <2>6. \A f, g \in Threads : f # g /\ job'[f].at = "send"
          /\ job'[g].at = "send" => job'[f].task # job'[g].task
      BY <1>1, <1>10, <2>1, <2>3 DEF ChanOK
    <2> QED  BY <2>4, <2>5, <2>6 DEF ChanOK
  <1> QED  BY <1>14, <1>15, <1>16, <1>17, <1>18, <1>19, <1>20 DEF OtaInv

LEMMA SendStep ==
    ASSUME OtaInv, NEW h \in Threads, Send(h)
    PROVE  OtaInv'
  <1>1. RowOK /\ RoomOK /\ JobsOK /\ LinkOK /\ WaitOK /\ DeviceOK /\ SuccessOK /\ OnceOK /\ ChanOK
    BY Parts
  <1>2. /\ row' = row /\ stale' = stale /\ scanned' = scanned /\ stable' = stable /\ dbFw' = dbFw
        /\ chans' = chans /\ resent' = resent /\ up' = up /\ NodeStays
    BY DEF Send, device, NodeStays
  <1>3. PICK t \in Created : t = job[h].task /\ job[h].ver = row[t].ver
    <2>1. JobGood(job[h])
      BY Parts
    <2> QED  BY <2>1 DEF Send, JobGood
  <1>4. t \in Tasks /\ job[h] \in Jobs /\ job[h].at = "send"
    BY Parts DEF Send
  <1>5. CASE Publishes(t) /\ pend' = pend \cup {t} /\ waiting' = waiting \cup {t} /\ Now(h, IdleJob)
    <2>1. Grows /\ Created' = Created /\ InFlight' = InFlight /\ SuccessOK'
      BY <1>1, <1>2, RowsStay DEF NodeStays
    <2>2. LinkMoves
      BY <1>2, <1>5 DEF LinkMoves, Publishes
    <2>3. LinkOK' /\ WaitOK'
      BY <1>1, <1>2, <1>5, <2>1, <2>2, LinkMoved DEF WaitOK
    <2>4. RowOK'
      BY <1>1, <1>2, <2>1 DEF RowOK
    <2>5. RoomOK'
      <3>1. ~Makes(IdleJob)
        BY DEF Makes, IdleJob
      <3> QED  BY <1>1, <1>5, <2>1, <3>1, IdleGood, CreatingNow, RoomStays
    <2>6. JobsOK'
      BY <1>1, <1>5, <2>1, IdleGood, JobsNow
    <2>7. DeviceOK' /\ OnceOK'
      BY <1>1, <1>2, <2>1, DeviceStays, OnceStays DEF NodeStays
    <2>8. ChanOK'
      <3>1. job'[h].at = "idle" /\ \A g \in Threads : g # h => job'[g] = job[g]
        BY <1>1, <1>5 DEF JobsOK, Now, IdleJob
      <3>2. chans[t] = 0
        BY <1>1, <1>3, <1>4 DEF ChanOK
      <3>3. pend' \subseteq Created' /\ chans' \in [Tasks -> 0 .. 1]
            /\ \A u \in Tasks : u \in pend' \/ u \notin Created' => chans'[u] = 0
        BY <1>1, <1>2, <1>5, <2>1, <3>2 DEF ChanOK
      <3>4. \A g \in Threads : job'[g].at = "send" => job'[g].task \notin pend'
            /\ chans'[job'[g].task] = 0
        BY <1>1, <1>2, <1>3, <1>4, <1>5, <3>1 DEF ChanOK
      <3>5. \A f, g \in Threads : f # g /\ job'[f].at = "send"
            /\ job'[g].at = "send" => job'[f].task # job'[g].task
        BY <1>1, <3>1 DEF ChanOK
      <3> QED  BY <3>3, <3>4, <3>5 DEF ChanOK
    <2> QED  BY <2>1, <2>3, <2>4, <2>5, <2>6, <2>7, <2>8 DEF OtaInv
  <1>6. CASE /\ Now(h, IF h \in Callers THEN [job[h] EXCEPT !.at = "refused"] ELSE IdleJob)
             /\ pend' = pend /\ waiting' = waiting /\ down' = down
    <2>1. PICK j \in Jobs : Now(h, j) /\ JobGood(j) /\ j.at \in {"refused", "idle"}
      <3>1. CASE h \in Callers
        <4>1. PICK j \in Jobs : j = [job[h] EXCEPT !.at = "refused"]
          BY <1>4 DEF Jobs
        <4>2. j.at = "refused" /\ j.task = t /\ j.ver = row[t].ver /\ Now(h, j)
          BY <1>3, <1>4, <1>6, <3>1, <4>1 DEF Jobs
        <4> QED  BY <1>3, <4>2 DEF JobGood
      <3>2. CASE h \notin Callers
        <4>1. Now(h, IdleJob) /\ IdleJob.at = "idle"
          BY <1>6, <3>2 DEF IdleJob
        <4> QED  BY <4>1, IdleGood
      <3> QED  BY <3>1, <3>2
    <2>2. ChansMove /\ LinkMoves /\ ~Makes(j)
      BY <1>2, <1>6, <2>1 DEF ChansMove, LinkMoves, Makes
    <2> QED  BY <1>2, <1>6, <2>1, <2>2, JobStep, Parts
  <1> QED  BY <1>3, <1>5, <1>6 DEF Send

\* A step that changes the rows and neither their number nor their version.
LEMMA RowStep ==
    ASSUME OtaInv, row' \in [Tasks -> Rows], Created' = Created,
           \A t \in Tasks : row'[t].ver = row[t].ver
           /\ (row'[t].st = "success" => row[t].st = "success"),
           stale' \subseteq InFlight', scanned' = scanned, stable' = stable, dbFw' = dbFw,
           ChansMove, waiting' = waiting, resent' = resent, LinkMoves, NodeStays,
           NEW h \in Threads, Now(h, IdleJob) \/ job' = job
    PROVE  OtaInv'
  <1>1. RowOK /\ RoomOK /\ JobsOK /\ LinkOK /\ WaitOK /\ DeviceOK /\ SuccessOK /\ OnceOK /\ ChanOK
    BY Parts
  <1>2. Grows
    BY <1>1, GrowsWithTasks, Parts DEF NodeStays
  <1>3. RowOK'
    BY <1>1 DEF RowOK
  <1>4. ~Makes(IdleJob) /\ IdleJob.at # "send"
    BY DEF Makes, IdleJob
  <1>5. RoomOK'
    <2>1. Creating' \subseteq Creating
      BY <1>1, <1>4, IdleGood, CreatingNow DEF Creating
    <2> QED  BY <1>1, <2>1, RoomStays
  <1>6. JobsOK'
    BY <1>1, <1>2, IdleGood, JobsNow, JobsStay
  <1>7. LinkOK' /\ WaitOK'
    BY <1>1, <1>2, LinkMoved DEF WaitOK
  <1>8. DeviceOK' /\ OnceOK'
    BY <1>1, <1>2, DeviceStays, OnceStays DEF NodeStays
  <1>9. SuccessOK'
    <2>1. \A t \in Tasks : \A v : row'[t].st = "success" /\ v = row'[t].ver => Ran(v)'
      BY <1>1, <1>2 DEF SuccessOK, Grows
    <2> QED  BY <2>1 DEF SuccessOK
  <1>10. ChanOK'
    <2>1. \A g \in Threads : job'[g].at = "send" => job'[g] = job[g]
      BY <1>1, <1>4, IdleGood, NoNewSender
    <2> QED  BY <1>1, <2>1, ChansMoved
  <1> QED  BY <1>3, <1>5, <1>6, <1>7, <1>8, <1>9, <1>10 DEF OtaInv

LEMMA RecordRefusedStep ==
    ASSUME OtaInv, NEW h \in Threads, RecordRefused(h)
    PROVE  OtaInv'
  <1>1. PICK t \in Created : t = job[h].task /\ job[h].ver = row[t].ver
    <2>1. JobGood(job[h])
      BY Parts
    <2> QED  BY <2>1 DEF RecordRefused, JobGood
  <1>2. t \in Tasks /\ row[t] \in Rows /\ row \in [Tasks -> Rows]
    BY Parts
  <1>3. PICK x : x = [Unused EXCEPT !.st = "failed", !.ver = job[h].ver, !.why = "send"]
    OBVIOUS
  <1>4. x \in Rows /\ x.st = "failed" /\ x.ver = row[t].ver
    BY <1>1, <1>2, <1>3 DEF Unused, Rows, Terminal, Whys
  <1>5. row' = [row EXCEPT ![t] = x] /\ stale' = stale \ {t} /\ Now(h, IdleJob)
    BY <1>1, <1>3 DEF RecordRefused
  <1>6. row' \in [Tasks -> Rows] /\ row'[t] = x /\ \A u \in Tasks : u # t => row'[u] = row[u]
    BY <1>2, <1>4, <1>5
  <1>7. Created' = Created
    BY <1>1, <1>4, <1>6 DEF Created
  <1>8. stale' \subseteq InFlight'
    BY <1>5, <1>6, Parts DEF InFlight
  <1>9. \A u \in Tasks : row'[u].ver = row[u].ver /\ (row'[u].st = "success" => row[u].st = "success")
    BY <1>4, <1>6
  <1>10. /\ scanned' = scanned /\ stable' = stable /\ dbFw' = dbFw /\ waiting' = waiting
            /\ resent' = resent
         /\ ChansMove /\ LinkMoves /\ NodeStays
    BY DEF RecordRefused, waits, device, NodeStays, ChansMove, LinkMoves
  <1> QED  BY <1>5, <1>6, <1>7, <1>8, <1>9, <1>10, RowStep

LEMMA AgeStep ==
    ASSUME OtaInv, NEW t \in Tasks, Age(t)
    PROVE  OtaInv'
  <1>1. row[t] \in Rows /\ row \in [Tasks -> Rows]
    BY Parts
  <1>2. PICK x : x = [row[t] EXCEPT !.old = TRUE]
    OBVIOUS
  <1>3. x \in Rows /\ x.st = row[t].st /\ x.ver = row[t].ver
    BY <1>1, <1>2 DEF Rows
  <1>4. row' = [row EXCEPT ![t] = x]
    BY <1>2 DEF Age
  <1>5. row' \in [Tasks -> Rows] /\ row'[t] = x /\ \A u \in Tasks : u # t => row'[u] = row[u]
    BY <1>1, <1>3, <1>4
  <1>6. \A u \in Tasks : row'[u].st = row[u].st /\ row'[u].ver = row[u].ver
    BY <1>3, <1>5
  <1>7. Created' = Created /\ InFlight' = InFlight
    BY <1>6 DEF Created, InFlight
  <1>8. /\ scanned' = scanned /\ stable' = stable /\ dbFw' = dbFw /\ waiting' = waiting
           /\ resent' = resent
        /\ stale' = stale /\ job' = job /\ ChansMove /\ LinkMoves /\ NodeStays
    BY DEF Age, waits, device, NodeStays, ChansMove, LinkMoves
  <1>9. stale' \subseteq InFlight'
    BY <1>7, <1>8, Parts
  <1> QED  BY <1>5, <1>6, <1>7, <1>8, <1>9, RowStep, OtaConstants

-----------------------------------------------------------------------------
(* The node's steps, and those of the link. *)

ServerStays ==
  UNCHANGED <<row, stale, scanned, stable, dbFw, pend, chans, waiting, resent>>

LEMMA NodeStep ==
    ASSUME OtaInv, ServerStays, job' = job, Grows, LinkOK', DeviceOK', OnceOK'
    PROVE  OtaInv'
  <1>1. RowOK /\ RoomOK /\ JobsOK /\ LinkOK /\ WaitOK /\ DeviceOK /\ SuccessOK /\ OnceOK /\ ChanOK
    BY Parts
  <1>2. Created' = Created /\ InFlight' = InFlight
    BY DEF Created, InFlight, ServerStays
  <1>3. RowOK' /\ WaitOK'
    BY <1>1, <1>2 DEF RowOK, WaitOK, ServerStays
  <1>4. RoomOK'
    <2>1. Creating' \subseteq Creating
      BY DEF Creating
    <2> QED  BY <1>1, <1>2, <2>1, RoomStays
  <1>5. JobsOK'
    BY <1>1, JobsStay
  <1>6. SuccessOK'
    BY <1>1 DEF SuccessOK, Grows, ServerStays
  <1>7. ChanOK'
    <2>1. Created \subseteq Created' /\ pend' \subseteq pend /\ chans' = chans
      BY <1>2 DEF ServerStays
    <2> QED  BY <1>1, <2>1, ChanStays
  <1> QED  BY <1>3, <1>4, <1>5, <1>6, <1>7 DEF OtaInv

\* Where rows stay, the history may be continued.
LEMMA HistoryGrows ==
    ASSUME OtaInv, row' = row,
           flashed' = flashed \/ (flashed' = Append(flashed, upgrading) /\ upgrading \in Tasks)
    PROVE  Grows
  <1>1. flashed \in Seq(Tasks) /\ Len(flashed) \in Nat
    BY Parts, LenProperties DEF DeviceOK
  <1>2. Created' = Created
    BY DEF Created
  <1>3. ASSUME NEW i \in 1 .. Len(flashed) PROVE i \in 1 .. Len(flashed') /\ flashed'[i] = flashed[i]
    <2>1. CASE flashed' = flashed
      BY <2>1
    <2>2. CASE flashed' = Append(flashed, upgrading) /\ upgrading \in Tasks
      <3>1. Len(flashed') = Len(flashed) + 1 /\ flashed'[i] = flashed[i]
        BY <1>1, <2>2, AppendProperties
      <3> QED  BY <1>1, <3>1
    <2> QED  BY <2>1, <2>2
  <1>4. ASSUME NEW v, Ran(v) PROVE Ran(v)'
    BY <1>3, <1>4 DEF Ran
  <1> QED  BY <1>2, <1>4 DEF Grows

\* The node takes the first command and reports, or does either.
Heard == down' = down \/ (down # <<>> /\ down' = Tail(down))
Said  == \/ up' = up
         \/ \E t \in Created, code \in {0, 1, 3} : Report(t, code)

LEMMA LinkHeard ==
    ASSUME LinkOK, Grows, Heard, Said
    PROVE  LinkOK'
  <1>1. /\ down \in Seq(Tasks) /\ Len(down) \in Nat /\ \A i \in 1 .. Len(down) : down[i] \in Created
        /\ up \in Seq(Hellos \cup Progress) /\ Len(up) \in Nat
    BY LenProperties DEF LinkOK
  <1>2. down' \in Seq(Tasks) /\ \A i \in 1 .. Len(down') : down'[i] \in Created'
    <2>1. CASE down' = down
      BY <1>1, <2>1 DEF Grows
    <2>2. CASE down # <<>> /\ down' = Tail(down)
      <3>1. /\ down' \in Seq(Tasks) /\ Len(down') = Len(down) - 1
            /\ \A i \in 1 .. Len(down') : down'[i] = down[i + 1]
        BY <1>1, <2>2, HeadTailProperties
      <3>2. ASSUME NEW i \in 1 .. Len(down') PROVE down'[i] \in Created'
        <4>1. i + 1 \in 1 .. Len(down) /\ down'[i] = down[i + 1]
          BY <1>1, <3>1
        <4> QED  BY <1>1, <4>1 DEF Grows
      <3> QED  BY <3>1, <3>2
    <2> QED  BY <2>1, <2>2 DEF Heard
  <1>3. CASE up' = up
    <2>1. up' \in Seq(Hellos \cup Progress) /\ \A i \in 1 .. Len(up') : MessageOK(up[i])'
      BY <1>3, UpStays
    <2> QED  BY <1>2, <2>1 DEF LinkOK
  <1>4. CASE up' # up /\ \E t \in Created, code \in {0, 1, 3} : Report(t, code)
    <2>1. PICK t \in Created, code \in {0, 1, 3} : up' = Append(up, [kind |-> "progress", task |-> t, code |-> code])
      BY <1>4 DEF Report
    <2>2. PICK m : m = [kind |-> "progress", task |-> t, code |-> code]
      OBVIOUS
    <2>3. m \in Hellos \cup Progress /\ m.kind = "progress" /\ m.task \in Created'
      BY <2>2 DEF Progress, Created, Grows
    <2>4. /\ up' \in Seq(Hellos \cup Progress) /\ Len(up') = Len(up) + 1
          /\ \A i \in 1 .. Len(up) : up'[i] = up[i]
          /\ up'[Len(up) + 1] = m
      BY <1>1, <2>1, <2>2, <2>3, AppendProperties
    <2>5. ASSUME NEW i \in 1 .. Len(up') PROVE MessageOK(up[i])'
      <3>1. CASE i = Len(up) + 1
        BY <2>3, <2>4, <3>1 DEF MessageOK
      <3>2. CASE i # Len(up) + 1
        <4>1. i \in 1 .. Len(up)
          BY <1>1, <2>4, <3>2
        <4>2. PICK n : n = up[i]
          OBVIOUS
        <4>3. up'[i] = n /\ MessageOK(n)
          BY <2>4, <4>1, <4>2 DEF LinkOK
        <4> QED  BY <4>3 DEF MessageOK, Grows
      <3> QED  BY <3>1, <3>2
    <2> QED  BY <1>2, <2>4, <2>5 DEF LinkOK
  <1> QED  BY <1>3, <1>4 DEF Said

\* A link that broke.
LEMMA LinkGone ==
    ASSUME down' = <<>>, up' = <<>>
    PROVE  LinkOK'
  BY EmptySeq DEF LinkOK

\* The first command on its way is for a task that exists.
LEMMA FirstDown ==
    ASSUME OtaInv, down # <<>>
    PROVE  Head(down) \in Created /\ Head(down) \in Tasks /\ Head(down) # NoTask
  <1>1. down \in Seq(Tasks) /\ \A i \in 1 .. Len(down) : down[i] \in Created
    BY Parts DEF LinkOK
  <1>2. Head(down) \in Tasks /\ Head(down) = down[1] /\ 1 \in 1 .. Len(down)
    BY <1>1, HeadTailProperties, EmptySeq
  <1> QED  BY <1>1, <1>2, OtaConstants

LEMMA ReplayStep ==
    ASSUME OtaInv, Replay
    PROVE  OtaInv'
  <1>1. ServerStays /\ job' = job /\ NodeStays /\ Heard /\ down # <<>>
    BY DEF Replay, Receive, server, waits, device, ServerStays, NodeStays, Heard
  <1>2. Grows /\ DeviceOK' /\ OnceOK'
    BY <1>1, Parts, RowsStay, DeviceStays, OnceStays DEF ServerStays, NodeStays
  <1>3. Said
    BY <1>1, FirstDown, Parts DEF Replay, DeviceOK, Said
  <1> QED  BY <1>1, <1>2, <1>3, NodeStep, LinkHeard, Parts

LEMMA BusyStep ==
    ASSUME OtaInv, Busy
    PROVE  OtaInv'
  <1>1. ServerStays /\ job' = job /\ NodeStays /\ Heard /\ Said
    BY DEF Busy, Receive, server, waits, device, ServerStays, NodeStays, Heard, Said
  <1>2. Grows /\ DeviceOK' /\ OnceOK'
    BY <1>1, Parts, RowsStay, DeviceStays, OnceStays DEF ServerStays, NodeStays
  <1> QED  BY <1>1, <1>2, NodeStep, LinkHeard, Parts

LEMMA RefuseMemoryStep ==
    ASSUME OtaInv, RefuseMemory
    PROVE  OtaInv'
  <1>1. ServerStays /\ job' = job /\ Heard /\ Said /\ down # <<>> /\ fw' = fw /\ upgrading' = upgrading
        /\ upgrading = NoTask /\ stage' = stage /\ flashed' = flashed
        /\ last' = Head(down) /\ lastStatus' = 0
    BY DEF RefuseMemory, Receive, Remember, server, waits, ServerStays, Heard, Said
  <1>2. Grows
    BY <1>1, Parts, RowsStay DEF ServerStays
  <1>3. last' \in Created /\ last' \in Created' /\ last' # NoTask
    BY <1>1, <1>2, FirstDown DEF Grows
  <1>4. DeviceOK'
    BY <1>1, <1>2, <1>3, Parts DEF DeviceOK, Grows
  <1>5. OnceOK'
    BY <1>1, <1>2, <1>3, Parts DEF OnceOK, Grows
  <1> QED  BY <1>1, <1>2, <1>4, <1>5, NodeStep, LinkHeard, Parts

\* While there is one task, every task is that one.
LEMMA OnlyOne ==
    ASSUME OtaInv, 2 \notin Created, NEW t \in Created, NEW u \in Created
    PROVE  t = u
  <1>1. PICK n \in 0 .. MaxTask : Created = 1 .. n
    BY Parts DEF RoomOK
  <1> QED  BY <1>1, OtaConstants

LEMMA StartStep ==
    ASSUME OtaInv, Start
    PROVE  OtaInv'
  <1>1. PICK t : t = Head(down)
    OBVIOUS
  <1>2. ServerStays /\ job' = job /\ Heard /\ Said /\ down # <<>> /\ fw' = fw /\ upgrading' = t
        /\ last # t /\ stage' = "start" /\ flashed' = flashed
        /\ last' = t /\ lastStatus' = 0
    BY <1>1 DEF Start, Receive, Remember, Remembered, server, waits, ServerStays, Heard, Said
  <1>3. Grows
    BY <1>2, Parts, RowsStay DEF ServerStays
  <1>4. t \in Created /\ t \in Created' /\ t # NoTask
    BY <1>1, <1>2, <1>3, FirstDown DEF Grows
  <1>5. DeviceOK'
    BY <1>2, <1>3, <1>4, Parts DEF DeviceOK, Grows
  <1>6. OnceOK'
    <2>1. SUFFICES ASSUME 2 \notin Created' PROVE flashed = <<>>
      BY <1>2, <1>4, Parts, EmptySeq DEF OnceOK, DeviceOK
    <2>2. 2 \notin Created
      BY <1>3, <2>1 DEF Grows
    <2>3. last = NoTask \/ last = t
      BY <1>4, <2>2, OnlyOne, Parts DEF DeviceOK
    <2> QED  BY <1>2, <2>2, <2>3, Parts DEF OnceOK
  <1> QED  BY <1>2, <1>3, <1>5, <1>6, NodeStep, LinkHeard, Parts

LEMMA DownloadStep ==
    ASSUME OtaInv, Download
    PROVE  OtaInv'
  <1>1. ServerStays /\ job' = job /\ Heard /\ fw' = fw /\ upgrading' = upgrading
        /\ stage \in {"start", "download"} /\ stage' = "download"
        /\ last' = last /\ flashed' = flashed /\ lastStatus' \in {0, lastStatus} /\ Report(upgrading, 0)
    BY DEF Download, server, waits, ServerStays, Heard
  <1>2. Grows
    BY <1>1, Parts, RowsStay DEF ServerStays
  <1>3. upgrading \in Created /\ upgrading # NoTask
    BY <1>1, Parts DEF DeviceOK
  <1>4. Said
    BY <1>1, <1>3 DEF Said
  <1>5. DeviceOK'
    BY <1>1, <1>2, <1>3, Parts DEF DeviceOK, Grows
  <1>6. OnceOK'
    BY <1>1, <1>2, Parts DEF OnceOK, Grows
  <1> QED  BY <1>1, <1>2, <1>4, <1>5, <1>6, NodeStep, LinkHeard, Parts

LEMMA DownloadFailsStep ==
    ASSUME OtaInv, DownloadFails
    PROVE  OtaInv'
  <1>1. ServerStays /\ job' = job /\ Heard /\ fw' = fw /\ upgrading' = NoTask /\ stage' = "idle"
        /\ last' = last /\ flashed' = flashed /\ lastStatus' \in {3, lastStatus} /\ Report(upgrading, 3)
    BY DEF DownloadFails, Ended, server, waits, ServerStays, Heard
  <1>2. Grows
    BY <1>1, Parts, RowsStay DEF ServerStays
  <1>3. upgrading \in Created
    BY Parts DEF DownloadFails, DeviceOK
  <1>4. Said
    BY <1>1, <1>3 DEF Said
  <1>5. DeviceOK'
    BY <1>1, <1>2, Parts DEF DeviceOK, Grows
  <1>6. OnceOK'
    BY <1>1, <1>2, Parts DEF OnceOK, Grows
  <1> QED  BY <1>1, <1>2, <1>4, <1>5, <1>6, NodeStep, LinkHeard, Parts

LEMMA SetBootStep ==
    ASSUME OtaInv, SetBoot
    PROVE  OtaInv'
  <1>1. ServerStays /\ job' = job /\ Heard /\ Said /\ fw' = fw /\ upgrading' = upgrading
        /\ stage = "download" /\ stage' = "switched"
        /\ last' = last /\ flashed' = flashed /\ lastStatus' = lastStatus
    BY DEF SetBoot, server, waits, ServerStays, Heard, Said
  <1>2. Grows
    BY <1>1, Parts, RowsStay DEF ServerStays
  <1>3. DeviceOK'
    BY <1>1, <1>2, Parts DEF DeviceOK, Grows
  <1>4. OnceOK'
    BY <1>1, <1>2, Parts DEF OnceOK, Grows
  <1> QED  BY <1>1, <1>2, <1>3, <1>4, NodeStep, LinkHeard, Parts

LEMMA InstallStep ==
    ASSUME OtaInv, Install
    PROVE  OtaInv'
  <1>1. ServerStays /\ job' = job /\ Heard /\ fw' = fw /\ upgrading' = upgrading
        /\ stage = "switched" /\ stage' = "boot"
        /\ last' = last /\ flashed' = flashed /\ lastStatus' \in {1, lastStatus} /\ Report(upgrading, 1)
    BY DEF Install, server, waits, ServerStays, Heard
  <1>2. Grows
    BY <1>1, Parts, RowsStay DEF ServerStays
  <1>3. upgrading \in Created /\ upgrading # NoTask
    BY <1>1, Parts DEF DeviceOK
  <1>4. Said
    BY <1>1, <1>3 DEF Said
  <1>5. DeviceOK'
    BY <1>1, <1>2, <1>3, Parts DEF DeviceOK, Grows
  <1>6. OnceOK'
    BY <1>1, <1>2, Parts DEF OnceOK, Grows
  <1> QED  BY <1>1, <1>2, <1>4, <1>5, <1>6, NodeStep, LinkHeard, Parts

LEMMA RebootStep ==
    ASSUME OtaInv, Reboot
    PROVE  OtaInv'
  <1>1. ServerStays /\ job' = job /\ down' = <<>> /\ up' = <<>> /\ upgrading' = NoTask
        /\ stage' = "idle"
        /\ last' = last /\ lastStatus' = lastStatus
    BY DEF Reboot, Ended, server, waits, ServerStays
  <1>2. LinkOK' /\ row' = row
    BY <1>1, LinkGone DEF ServerStays
  <1>3. CASE fw' = fw /\ flashed' = flashed
    <2>1. Grows
      BY <1>2, <1>3, RowsStay, Parts
    <2>2. DeviceOK'
      BY <1>1, <1>3, <2>1, Parts DEF DeviceOK, Grows
    <2>3. OnceOK'
      BY <1>1, <1>3, <2>1, Parts DEF OnceOK, Grows
    <2> QED  BY <1>1, <1>2, <2>1, <2>2, <2>3, NodeStep
  <1>4. CASE stage \in {"switched", "boot"} /\ fw' = row[upgrading].ver /\ flashed' = Append(flashed, upgrading)
    <2>1. upgrading \in Created /\ upgrading \in Tasks /\ upgrading # NoTask /\ flashed \in Seq(Tasks)
          /\ Len(flashed) \in Nat /\ row[upgrading] \in Rows
             /\ \A i \in 1 .. Len(flashed) : flashed[i] \in Created
      BY <1>4, Parts, LenProperties DEF DeviceOK
    <2>2. Grows
      BY <1>2, <1>4, <2>1, HistoryGrows
    <2>3. /\ flashed' \in Seq(Tasks) /\ Len(flashed') = Len(flashed) + 1
          /\ \A i \in 1 .. Len(flashed) : flashed'[i] = flashed[i]
          /\ flashed'[Len(flashed) + 1] = upgrading
      BY <1>4, <2>1, AppendProperties
    <2>4. Len(flashed) + 1 \in 1 .. Len(flashed')
      BY <2>1, <2>3
    <2>5. row'[flashed'[Len(flashed) + 1]].ver = fw'
      BY <1>2, <1>4, <2>3
    <2>6. Ran(fw)' /\ fw' \in Versions \cup {NoVersion}
      BY <1>4, <2>1, <2>4, <2>5 DEF Ran, Rows
    <2>7. ASSUME NEW i \in 1 .. Len(flashed') PROVE flashed'[i] \in Created'
      <3>1. CASE i = Len(flashed) + 1
        BY <2>1, <2>2, <2>3, <3>1 DEF Grows
      <3>2. CASE i # Len(flashed) + 1
        <4>1. i \in 1 .. Len(flashed)
          BY <2>1, <2>3, <3>2
        <4> QED  BY <2>1, <2>2, <2>3, <4>1 DEF Grows
      <3> QED  BY <3>1, <3>2
    <2>8. DeviceOK'
      BY <1>1, <2>2, <2>3, <2>6, <2>7, Parts DEF DeviceOK, Grows
    <2>9. OnceOK'
      <3>1. SUFFICES ASSUME 2 \notin Created' PROVE Len(flashed') <= 1 /\ last # NoTask
        BY <1>1 DEF OnceOK
      <3>2. 2 \notin Created
        BY <2>2, <3>1 DEF Grows
      <3>3. last # NoTask /\ flashed = <<>>
        BY <2>1, <3>2, Parts DEF OnceOK
      <3>4. Len(flashed) = 0
        BY <3>3
      <3> QED  BY <2>3, <3>3, <3>4
    <2> QED  BY <1>1, <1>2, <2>2, <2>8, <2>9, NodeStep
  <1> QED  BY <1>3, <1>4 DEF Reboot

LEMMA ServerRestartStep ==
    ASSUME OtaInv, ServerRestart
    PROVE  OtaInv'
  <1>1. RowOK /\ RoomOK /\ JobsOK /\ LinkOK /\ WaitOK /\ DeviceOK /\ SuccessOK /\ OnceOK /\ ChanOK
    BY Parts
  <1>2. row' = row /\ stable' = stable /\ dbFw' = dbFw /\ resent' = resent /\ NodeStays
        /\ stale' = {} /\ scanned' = {} /\ pend' = {} /\ waiting' = {} /\ down' = <<>> /\ up' = <<>>
    BY DEF ServerRestart, device, NodeStays
  <1>3. Grows /\ Created' = Created /\ InFlight' = InFlight /\ SuccessOK'
    BY <1>1, <1>2, RowsStay DEF NodeStays
  <1>4. job' \in [Threads -> Jobs] /\ \A h \in Threads : job'[h].at = "idle"
    <2>1. PICK j \in Jobs : j = IdleJob /\ j.at = "idle"
      BY IdleGood DEF IdleJob
    <2>2. job' = [h \in Threads |-> j]
      BY <2>1 DEF ServerRestart
    <2> QED  BY <2>1, <2>2
  <1>5. JobsOK'
    <2>1. \A h \in Threads : JobGood(job[h])'
      BY <1>4 DEF JobGood
    <2> QED  BY <1>4, <2>1 DEF JobsOK
  <1>6. RoomOK'
    <2>1. Creating' \subseteq Creating
      BY <1>4 DEF Creating
    <2> QED  BY <1>1, <1>3, <2>1, RoomStays
  <1>7. RowOK' /\ WaitOK' /\ LinkOK'
    BY <1>1, <1>2, <1>3, LinkGone DEF RowOK, WaitOK
  <1>8. DeviceOK' /\ OnceOK'
    BY <1>1, <1>2, <1>3, DeviceStays, OnceStays DEF NodeStays
  <1>9. ChanOK'
    <2>1. chans' = [t \in Tasks |-> 0]
      BY DEF ServerRestart
    <2>2. \A h \in Threads : job'[h].at # "send"
      BY <1>4
    <2> QED  BY <1>2, <2>1, <2>2 DEF ChanOK
  <1> QED  BY <1>3, <1>5, <1>6, <1>7, <1>8, <1>9 DEF OtaInv

LEMMA DisconnectStep ==
    ASSUME OtaInv, Disconnect
    PROVE  OtaInv'
  <1>1. ServerStays /\ job' = job /\ NodeStays /\ down' = <<>> /\ up' = <<>>
    BY DEF Disconnect, server, waits, device, ServerStays, NodeStays
  <1>2. Grows /\ DeviceOK' /\ OnceOK'
    BY <1>1, Parts, RowsStay, DeviceStays, OnceStays DEF ServerStays, NodeStays
  <1> QED  BY <1>1, <1>2, NodeStep, LinkGone

LEMMA ConnectStep ==
    ASSUME OtaInv, Connect
    PROVE  OtaInv'
  <1>1. ServerStays /\ job' = job /\ NodeStays /\ down' = down
    BY DEF Connect, server, waits, device, ServerStays, NodeStays
  <1>2. Grows /\ DeviceOK' /\ OnceOK'
    BY <1>1, Parts, RowsStay, DeviceStays, OnceStays DEF ServerStays, NodeStays
  <1>3. LinkOK'
    <2>1. PICK m : m = [kind |-> "hello", ver |-> fw]
      OBVIOUS
    <2>2. up' = <<m>> /\ m \in Hellos \cup Progress /\ m.kind = "hello" /\ m.ver = fw
      BY <2>1, Parts DEF Connect, DeviceOK, Hellos
    <2>3. MessageOK(m)'
      BY <1>2, <2>2, Parts DEF MessageOK, DeviceOK, Grows
    <2>4. up' \in Seq(Hellos \cup Progress) /\ Len(up') = 1 /\ up'[1] = m
      BY <2>2
    <2>5. \A i \in 1 .. Len(up') : MessageOK(up[i])'
      BY <2>3, <2>4 DEF MessageOK
    <2>6. down' \in Seq(Tasks) /\ \A i \in 1 .. Len(down') : down'[i] \in Created'
      BY <1>1, <1>2, Parts DEF LinkOK, Grows
    <2> QED  BY <2>4, <2>5, <2>6 DEF LinkOK
  <1> QED  BY <1>1, <1>2, <1>3, NodeStep

LEMMA OtaStutter ==
    ASSUME OtaInv, UNCHANGED otaVars
    PROVE  OtaInv'
  <1>1. ServerStays /\ job' = job /\ NodeStays /\ Heard /\ Said
    BY DEF otaVars, server, waits, device, ServerStays, NodeStays, Heard, Said
  <1>2. Grows /\ DeviceOK' /\ OnceOK'
    BY <1>1, Parts, RowsStay, DeviceStays, OnceStays DEF ServerStays, NodeStays
  <1> QED  BY <1>1, <1>2, NodeStep, LinkHeard, Parts

-----------------------------------------------------------------------------
(* The theorems. *)

LEMMA OtaFirst ==
    ASSUME OtaInit
    PROVE  OtaInv
  <1>1. row = [t \in Tasks |-> Unused] /\ stale = {} /\ scanned = {} /\ pend = {} /\ waiting = {}
        /\ dbFw = Factory /\ stable \in {NoVersion, Factory} /\ down = <<>> /\ up = <<>>
        /\ fw = Factory /\ last = NoTask /\ lastStatus = 0 /\ upgrading = NoTask /\ stage = "idle"
        /\ flashed = <<>> /\ chans = [t \in Tasks |-> 0] /\ resent = [t \in Tasks |-> 0]
    BY DEF OtaInit
  <1>2. PICK x : x = Unused
    OBVIOUS
  <1>3. x \in Rows /\ x.st = "unused" /\ row = [t \in Tasks |-> x]
    BY <1>1, <1>2 DEF Rows, Unused, Whys
  <1>4. row \in [Tasks -> Rows] /\ \A t \in Tasks : row[t].st = "unused"
    BY <1>3
  <1>5. Created = {}
    BY <1>4 DEF Created
  <1>6. job \in [Threads -> Jobs] /\ \A h \in Threads : job[h].at = "idle"
    <2>1. PICK j \in Jobs : j = IdleJob /\ j.at = "idle"
      BY IdleGood DEF IdleJob
    <2>2. job = [h \in Threads |-> j]
      BY <2>1 DEF OtaInit
    <2> QED  BY <2>1, <2>2
  <1>7. RowOK
    BY <1>1, <1>4, OtaConstants DEF RowOK
  <1>8. RoomOK
    <2>1. Creating = {}
      BY <1>6 DEF Creating
    <2>2. IsFiniteSet(Creating) /\ Cardinality(Creating) = 0
      BY <2>1, FS_EmptySet
    <2>3. 0 \in 0 .. MaxTask /\ 0 <= MaxTask - 0 /\ 1 .. 0 = {}
      BY OtaConstants
    <2> QED  BY <1>5, <2>2, <2>3 DEF RoomOK
  <1>9. JobsOK
    BY <1>6 DEF JobsOK, JobGood
  <1>10. LinkOK
    BY <1>1, EmptySeq DEF LinkOK
  <1>11. WaitOK
    <2>1. 0 \in 0 .. Retries
      BY OtaConstants
    <2> QED  BY <1>1, <2>1 DEF WaitOK
  <1>12. DeviceOK
    BY <1>1, EmptySeq, OtaConstants DEF DeviceOK, Ran
  <1>13. SuccessOK
    BY <1>4 DEF SuccessOK
  <1>14. OnceOK
    BY <1>1, EmptySeq DEF OnceOK
  <1>15. ChanOK
    BY <1>1, <1>6 DEF ChanOK
  <1> QED  BY <1>7, <1>8, <1>9, <1>10, <1>11, <1>12, <1>13, <1>14, <1>15 DEF OtaInv

LEMMA WorkingStep ==
    ASSUME OtaInv, NEW h \in Threads, Working(h)
    PROVE  OtaInv'
  <1>1. CASE Supersede(h)
    BY <1>1, SupersedeStep
  <1>2. CASE Insert(h)
    BY <1>2, InsertStep
  <1>3. CASE Send(h)
    BY <1>3, SendStep
  <1>4. CASE RecordRefused(h)
    BY <1>4, RecordRefusedStep
  <1>5. CASE Rollback(h)
    BY <1>5, RollbackStep
  <1>6. CASE ConfirmCancel(h)
    BY <1>6, ConfirmCancelStep
  <1>7. CASE \E t \in Tasks : \E code \in {0, 1, 3} : ReadProgress(h, t, code)
    BY <1>7, ReadProgressStep
  <1>8. CASE \E v \in Versions : ReadHello(h, v)
    BY <1>8, ReadHelloStep
  <1>9. CASE WriteProgress(h)
    BY <1>9, WriteProgressStep
  <1>10. CASE Ack(h)
    BY <1>10, AckStep
  <1>11. CASE Complete(h)
    BY <1>11, CompleteStep
  <1> QED
    BY <1>1, <1>2, <1>3, <1>4, <1>5, <1>6, <1>7, <1>8, <1>9, <1>10, <1>11, Zenon DEF Working

LEMMA OtaNextStep ==
    ASSUME OtaInv, OtaNext
    PROVE  OtaInv'
  <1>1. CASE \E h \in Threads : Working(h)
    BY <1>1, WorkingStep
  <1>2. CASE \E h \in Callers : \E v \in Versions : Request(h, v)
    BY <1>2, RequestStep
  <1>3. CASE \E h \in Callers : \E t \in Tasks : Cancel(h, t)
    BY <1>3, CancelStep
  <1>4. CASE \E t \in Tasks : Waiter(t) \/ Age(t)
    BY <1>4, AckedStep, ResendStep, ExhaustStep, AgeStep DEF Waiter
  <1>5. CASE Scanning
    BY <1>5, ScanStep, TimeOutStep DEF Scanning
  <1>6. CASE Node
    BY <1>6, ReplayStep, BusyStep, RefuseMemoryStep, StartStep, DownloadStep, DownloadFailsStep,
       SetBootStep, InstallStep, RebootStep DEF Node, RestartNew
  <1>7. CASE Reboot \/ ServerRestart \/ Disconnect \/ Connect
    BY <1>7, RebootStep, ServerRestartStep, DisconnectStep, ConnectStep
  <1> QED  BY <1>1, <1>2, <1>3, <1>4, <1>5, <1>6, <1>7, Zenon DEF OtaNext

\* OtaInv is an invariant of the update of one node.
THEOREM OtaInvariance == OtaSpec => []OtaInv
  <1>1. OtaInit => OtaInv
    BY OtaFirst
  <1>2. OtaInv /\ [OtaNext]_otaVars => OtaInv'
    BY OtaNextStep, OtaStutter
  <1> QED  BY <1>1, <1>2, PTL DEF OtaSpec

\* The types, and which tasks have a waiter or an upgrade at all.
THEOREM OtaTypes == OtaSpec => []OtaTypeOK
  <1>1. ASSUME OtaInv PROVE OtaTypeOK
    <2>1. \A t \in Tasks : row[t].st \in Active \cup Terminal \cup {"unused"}
                           /\ row[t].ver \in Versions \cup {NoVersion}
      <3>1. \A t \in Tasks : row[t] \in Rows
        BY <1>1, Parts
      <3> QED  BY <3>1 DEF Rows
    <2>2. stale \subseteq Tasks /\ scanned \subseteq Tasks /\ pend \subseteq Tasks
          /\ waiting \subseteq Created /\ resent \in [Tasks -> 0 .. Retries]
      BY <1>1, Parts DEF ChanOK
    <2>3. /\ last \in Tasks \cup {NoTask} /\ upgrading \in Tasks \cup {NoTask}
          /\ stage \in {"idle", "start", "download", "switched", "boot"} /\ (stage = "idle") = (upgrading = NoTask)
      BY <1>1, Parts DEF DeviceOK
    <2> QED  BY <2>1, <2>2, <2>3 DEF OtaTypeOK
  <1> QED  BY <1>1, OtaInvariance, PTL

\* No task is reported a success unless the node booted its version: whatever Hellos were
\* delayed, tasks superseded and servers restarted meanwhile (ota.go:676-727).
THEOREM SuccessEvidenced == OtaSpec => []SuccessIsEvidenced
  <1>1. ASSUME OtaInv PROVE SuccessIsEvidenced
    <2>1. SuccessOK /\ DOMAIN flashed = 1 .. Len(flashed)
      BY <1>1, Parts, LenProperties DEF DeviceOK
    <2> QED  BY <2>1 DEF SuccessOK, Ran, SuccessIsEvidenced
  <1> QED  BY <1>1, OtaInvariance, PTL

\* A task whose command is sent again is flashed once, unless there was another
\* (ota.c:309-330).
THEOREM FlashedOnce == OtaSpec => []NoRepeatedFlash
  <1>1. ASSUME OtaInv PROVE NoRepeatedFlash
    <2>1. DOMAIN flashed = 1 .. Len(flashed) /\ Len(flashed) \in Nat
      BY <1>1, Parts, LenProperties DEF DeviceOK
    <2>2. SUFFICES ASSUME NEW i \in 1 .. Len(flashed), NEW j \in 1 .. Len(flashed), i # j
                   PROVE  Cardinality(Created) > 1
      BY <2>1 DEF NoRepeatedFlash
    <2>3. ~(Len(flashed) <= 1)
      BY <2>1, <2>2
    <2>4. 2 \in Created
      BY <1>1, <2>3, Parts DEF OnceOK
    <2>5. PICK n \in 0 .. MaxTask : Created = 1 .. n
      BY <1>1, Parts DEF RoomOK
    <2>6. Cardinality(1 .. n) = IF 1 > n THEN 0 ELSE n - 1 + 1
      <3>1. 1 \in Int /\ n \in Int
        OBVIOUS
      <3> QED  BY <3>1, FS_Interval
    <2>7. 2 <= n
      BY <2>4, <2>5
    <2> QED  BY <2>5, <2>6, <2>7
  <1> QED  BY <1>1, OtaInvariance, PTL

\* The channel of a task is closed at most once: the waiter, the progress reports and the
\* cancellation that may all want to close it find it registered once (ota.go:776-777).
THEOREM ChannelsClosedOnce == OtaSpec => []ClosedOnce
  <1>1. ASSUME OtaInv PROVE ClosedOnce
    <2>1. chans \in [Tasks -> 0 .. 1]
      BY <1>1, Parts DEF ChanOK
    <2> QED  BY <2>1 DEF ClosedOnce
  <1> QED  BY <1>1, OtaInvariance, PTL

\* A verdict that is not saved over.
Firm == \A t \in Tasks : row[t].st \in Terminal /\ row'[t] # row[t] => row'[t].why \in {"hello", "send"}

LEMMA ActiveOnly ==
    ASSUME NEW S, NEW st, NEW why, Updated(S, st, why), \A t \in S : row[t].st \in Active
    PROVE  Firm
  <1>1. ASSUME NEW t \in Tasks, row[t].st \in Terminal PROVE row'[t] = row[t]
    <2>1. t \notin S
      BY <1>1 DEF Active, Terminal
    <2> QED  BY <2>1 DEF Updated
  <1> QED  BY <1>1 DEF Firm

LEMMA UpdatedWhy ==
    ASSUME NEW u \in Tasks, row[u] \in Rows, NEW st, NEW why, Updated({u}, st, why)
    PROVE  row'[u].why = why
  <1>1. row'[u] = [row[u] EXCEPT !.st = st, !.old = FALSE, !.why = why, !.done = @ \/ st \in Terminal]
    BY DEF Updated
  <1> QED  BY <1>1 DEF Rows

LEMMA FirmWorking ==
    ASSUME OtaInv, NEW h \in Threads, Working(h)
    PROVE  Firm
  <1>1. JobGood(job[h]) /\ job[h] \in Jobs /\ row \in [Tasks -> Rows]
    BY Parts
  <1>2. CASE row' = row
    BY <1>2 DEF Firm
  <1>3. CASE Supersede(h)
    <2>1. Updated(InFlight, "failed", "superseded") /\ \A t \in InFlight : row[t].st \in Active
      BY <1>3 DEF Supersede, InFlight
    <2> QED  BY <2>1, ActiveOnly
  <1>4. CASE Insert(h)
    <2>1. h \in Creating
      BY <1>4 DEF Insert, Creating
    <2>2. PICK u : u = Cardinality(Created) + 1 /\ u \in Tasks /\ u \notin Created
      BY <2>1, NextNumber, Parts
    <2>3. row[u].st = "unused"
      BY <2>2 DEF Created
    <2>4. PICK x : row' = [row EXCEPT ![u] = x]
      BY <1>4, <2>2 DEF Insert
    <2>5. \A t \in Tasks : t # u => row'[t] = row[t]
      BY <1>1, <2>4
    <2> QED  BY <2>3, <2>5 DEF Firm, Terminal
  <1>5. CASE RecordRefused(h)
    <2>1. PICK u, x : row' = [row EXCEPT ![u] = x]
          /\ x = [Unused EXCEPT !.st = "failed", !.ver = job[h].ver, !.why = "send"]
      BY <1>5 DEF RecordRefused
    <2>2. x.why = "send"
      BY <2>1 DEF Unused
    <2>3. \A t \in Tasks : row'[t] = row[t] \/ row'[t] = x
      BY <1>1, <2>1
    <2> QED  BY <2>2, <2>3 DEF Firm
  <1>6. CASE ConfirmCancel(h)
    <2>1. CASE ~AsRead(h)
      BY <1>2, <1>6, <2>1 DEF ConfirmCancel, Untouched
    <2>2. CASE AsRead(h)
      <3>1. row[job[h].task].st \in Active /\ Updated({job[h].task}, "failed", "cancelled")
        BY <1>1, <1>6, <2>2 DEF ConfirmCancel, AsRead, JobGood
      <3> QED  BY <3>1, ActiveOnly
    <2> QED  BY <2>1, <2>2
  <1>7. CASE WriteProgress(h)
    <2>1. CASE ~AsRead(h)
      BY <1>2, <1>7, <2>1 DEF WriteProgress, Untouched
    <2>2. CASE AsRead(h)
      <3>1. row[job[h].task].st \in Active /\ Updated({job[h].task}, job[h].new, "device")
        BY <1>1, <1>7, <2>2 DEF WriteProgress, AsRead, JobGood
      <3> QED  BY <3>1, ActiveOnly
    <2> QED  BY <2>1, <2>2
  <1>8. CASE Complete(h)
    <2>1. PICK u : u = job[h].task /\ u \in Created
      BY <1>1, <1>8 DEF Complete, JobGood
    <2>2. Updated({u}, "success", "hello")
      BY <1>8, <2>1 DEF Complete
    <2>3. row'[u].why = "hello"
      BY <1>1, <2>1, <2>2, UpdatedWhy DEF Created
    <2>4. \A t \in Tasks : t # u => row'[t] = row[t]
      BY <2>2 DEF Updated
    <2> QED  BY <2>3, <2>4 DEF Firm
  <1>9. Send(h) \/ Rollback(h) \/ Ack(h) => row' = row
    BY DEF Send, Rollback, Ack, server
  <1>10. (\E t \in Tasks : \E code \in {0, 1, 3} : ReadProgress(h, t, code)) => row' = row
    BY DEF ReadProgress, server
  <1>11. (\E v \in Versions : ReadHello(h, v)) => row' = row
    BY DEF ReadHello
  <1> QED
    BY <1>2, <1>3, <1>4, <1>5, <1>6, <1>7, <1>8, <1>9, <1>10, <1>11, Zenon DEF Working

LEMMA FirmStep ==
    ASSUME OtaInv, OtaNext
    PROVE  Firm
  <1>1. CASE row' = row
    BY <1>1 DEF Firm
  <1>2. CASE \E h \in Threads : Working(h)
    BY <1>2, FirmWorking
  <1>3. CASE \E t \in Tasks : Exhaust(t)
    <2>1. PICK t \in Tasks : Exhaust(t)
      BY <1>3
    <2>2. CASE StillActive(t)
      <3>1. Updated({t}, "failed", "no ack") /\ row[t].st \in Active
        BY <2>1, <2>2 DEF Exhaust, StillActive
      <3> QED  BY <3>1, ActiveOnly
    <2>3. CASE ~StillActive(t)
      BY <1>1, <2>1, <2>3 DEF Exhaust, Untouched
    <2> QED  BY <2>2, <2>3
  <1>4. CASE \E t \in Tasks : TimeOut(t)
    <2>1. PICK t \in Tasks : TimeOut(t)
      BY <1>4
    <2>2. CASE StillStale(t)
      <3>1. Updated({t}, "timeout", "") /\ row[t].st \in Active
        BY <2>1, <2>2, Parts DEF TimeOut, StillStale, InFlight
      <3> QED  BY <3>1, ActiveOnly
    <2>3. CASE ~StillStale(t)
      BY <1>1, <2>1, <2>3 DEF TimeOut, Untouched
    <2> QED  BY <2>2, <2>3
  <1>5. CASE \E t \in Tasks : Age(t)
    <2>1. PICK u \in Tasks : Age(u)
      BY <1>5
    <2>2. PICK x : row' = [row EXCEPT ![u] = x] /\ row[u].st \in Active
      BY <2>1 DEF Age
    <2>3. \A t \in Tasks : t # u => row'[t] = row[t]
      BY <2>2, Parts
    <2> QED  BY <2>2, <2>3 DEF Firm, Active, Terminal
  <1>6. (\E h \in Callers : \E v \in Versions : Request(h, v)) => row' = row
    BY DEF Request, server
  <1>7. (\E h \in Callers : \E t \in Tasks : Cancel(h, t)) => row' = row
    BY DEF Cancel, server
  <1>8. \A t \in Tasks : Acked(t) \/ Resend(t) => row' = row
    BY DEF Acked, Resend
  <1>9. Scan => row' = row
    BY DEF Scan
  <1>10. Node \/ Reboot \/ ServerRestart \/ Disconnect \/ Connect => row' = row
    BY DEF Node, RestartNew, Replay, Busy, RefuseMemory, Start, Download, DownloadFails, SetBoot, Install, Reboot,
       ServerRestart, Disconnect, Connect, server
  <1> QED
    BY <1>1, <1>2, <1>3, <1>4, <1>5, <1>6, <1>7, <1>8, <1>9, <1>10, Zenon DEF OtaNext, Scanning, Waiter

\* Whoever read a task before it got its verdict, and writes after, leaves the verdict:
\* time-outs, cancellations, reports and waiters alike (ota.go:594, 651-656).
THEOREM VerdictsStay == OtaSpec => VerdictStays
  <1>1. ASSUME OtaInv, [OtaNext]_otaVars
        PROVE  [\A t \in Tasks : row[t].st \in Terminal /\ row'[t] # row[t]
                  => row'[t].why \in {"hello", "send"}]_otaVars
    BY <1>1, FirmStep DEF Firm
  <1>2. OtaInv /\ [OtaNext]_otaVars
          => [\A t \in Tasks : row[t].st \in Terminal /\ row'[t] # row[t]
                => row'[t].why \in {"hello", "send"}]_otaVars
    BY <1>1
  <1> QED  BY <1>2, OtaInvariance, PTL DEF OtaSpec, VerdictStays
====
