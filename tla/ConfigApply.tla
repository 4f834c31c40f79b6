----------------------------- MODULE ConfigApply -----------------------------
(***************************************************************************)
(* The node's configuration transaction: handle_config_applied             *)
(* (app_callbacks.c) suspends the bus workers, stages the manifest in the  *)
(* inactive one of two slots and runs config_apply_transaction_execute,    *)
(* which stops the scheduler, rebuilds DMA, peripherals and buses, starts  *)
(* the scheduler again and commits; a step that fails is rolled back, a    *)
(* rollback that fails ends in a safe state, and where not even that can   *)
(* be reached the node restarts.                                           *)
(*                                                                         *)
(* One device link delivers manifests, one after the other (the second one *)
(* of debug builds is left out, and with it the configuration lock, which  *)
(* only this handler takes).  A part of the runtime holds a manifest,      *)
(* Empty, or Partial when its rebuilding broke off.  The log stream cannot *)
(* fail a transaction (log_stream_apply_state) and is left out.            *)
(***************************************************************************)
EXTENDS Naturals

CONSTANTS
  Workers,     \* rx_task and the command tasks
  Manifests,
  Empty, Partial,
  Levels,      \* duty cycles of a PWM channel
  Initial,     \* ... and the one every manifest starts it with
  PromptAck    \* a worker that read the suspension flag sets its bit before the
               \* next suspension begins

ASSUME ApplyAssumption ==
  /\ Empty \notin Manifests /\ Partial \notin Manifests /\ Empty # Partial
  /\ Initial \in Levels /\ PromptAck \in BOOLEAN

VARIABLES
  pc,          \* step of handle_config_applied
  incoming,    \* the manifest in the message
  old,         \* the slot active_cfg points to; None unless had_old
  requested, bits,     \* s_suspend_requested, s_suspend_events
  worker,      \* each worker: top of its loop, flag read, parked, busy
  slot, active, staged,    \* s_manifests, s_active_idx, s_staged_idx
  gate,        \* s_transaction_mutex is held
  dma, periph, buses,      \* the runtime
  duty,        \* duty cycle of the PWM channel, where periph is a manifest
  task, sched, mode,       \* scheduler task; its manifest; s_prepared and s_running
  saved,       \* snapshot of the transaction
  persisted,   \* manifest_id in flash
  result,      \* the transaction's outcome
  confirmed,   \* history: last manifest confirmed, nothing having taken it down
  wanted       \* history: duty cycle set by the last command, or the last configuration in force

suspension == <<requested, bits, worker>>
manifests  == <<slot, active, staged>>
runtime    == <<dma, periph, buses, duty>>
scheduler  == <<task, sched, mode>>
message    == <<incoming, old>>
outcome    == <<persisted, result, confirmed>>
vars == <<pc, message, suspension, manifests, gate, runtime, scheduler, saved,
          outcome, wanted>>

None == 2
Loaded == Manifests \cup {Empty}
Fresh  == [dma |-> Empty, periph |-> Empty, duty |-> Initial]
Target == slot[staged]

Goto(p) == pc' = p

-----------------------------------------------------------------------------
(* The bus workers: wait_if_suspended at the top of their loops.           *)

Look(w) ==
  /\ worker[w] = "top"
  /\ worker' = [worker EXCEPT ![w] = IF requested THEN "saw" ELSE "busy"]
  /\ UNCHANGED <<requested, bits>>

SetBit(w) ==
  /\ worker[w] = "saw"
  /\ bits' = bits \cup {w}
  /\ worker' = [worker EXCEPT ![w] = "parked"]
  /\ UNCHANGED requested

Unpark(w) ==
  /\ worker[w] = "parked" /\ ~requested
  /\ worker' = [worker EXCEPT ![w] = "busy"]
  /\ UNCHANGED <<requested, bits>>

EndWork(w) ==
  /\ worker[w] = "busy"
  /\ worker' = [worker EXCEPT ![w] = "top"]
  /\ UNCHANGED <<requested, bits>>

Work(w) ==
  /\ Look(w) \/ SetBit(w) \/ Unpark(w) \/ EndWork(w)
  /\ UNCHANGED <<pc, message, manifests, gate, runtime, scheduler, saved, outcome, wanted>>

\* scheduler_task leaves its loop, or the wait for its activation, and deletes itself.
\* SCHED_PREPARE_TIMEOUT_MS is longer than anything between preparation and activation.
TaskEnds ==
  /\ task /\ mode = "off"
  /\ task' = FALSE
  /\ UNCHANGED <<pc, message, suspension, manifests, gate, runtime, sched, mode, saved,
                 outcome, wanted>>

\* mutant: a command does not wait for a transaction.
GateIgnored == TRUE

GateFree == ~gate

\* A command to the PWM channel holds the gate from its first to its last access.
SetDuty(d) ==
  /\ GateFree /\ periph \in Manifests
  /\ duty' = d /\ wanted' = d
  /\ UNCHANGED <<pc, message, suspension, manifests, gate, dma, periph, buses, scheduler, saved,
                 outcome>>

-----------------------------------------------------------------------------
(* Before the transaction.                                                 *)

\* The manifest arrives; active_cfg is read, and Phase A may refuse.
Deliver(m) ==
  /\ pc = "idle"
  /\ incoming' = m
  /\ old' = IF slot[active] = Empty THEN None ELSE active
  /\ result' = "none"
  /\ pc' \in {"idle", "clear"}
  /\ UNCHANGED <<suspension, manifests, gate, runtime, scheduler, saved, persisted, confirmed,
                 wanted>>

ClearBits ==
  /\ pc = "clear" /\ (PromptAck => \A w \in Workers : worker[w] # "saw")
  /\ bits' = {}
  /\ Goto("request")
  /\ UNCHANGED <<message, requested, worker, manifests, gate, runtime, scheduler, saved,
                 outcome, wanted>>

RequestSuspension ==
  /\ pc = "request"
  /\ requested' = TRUE
  /\ Goto("wait")
  /\ UNCHANGED <<message, bits, worker, manifests, gate, runtime, scheduler, saved, outcome,
                 wanted>>

\* mutant: the first bit is enough.
AnyAcked == bits # {}

AllAcked == bits = Workers

Suspended ==
  /\ pc = "wait" /\ AllAcked
  /\ Goto("stage")
  /\ UNCHANGED <<message, suspension, manifests, gate, runtime, scheduler, saved, outcome,
                 wanted>>

\* Rejecting ConfigManifest: worker suspend timeout.
SuspendTimesOut ==
  /\ pc = "wait" /\ bits # Workers
  /\ requested' = FALSE /\ bits' = {}
  /\ Goto("idle")
  /\ UNCHANGED <<message, worker, manifests, gate, runtime, scheduler, saved, outcome, wanted>>

\* mutant: the manifest is parsed into the slot that is in use.
StageSlotActive == active

StageSlot == 1 - active

Discard ==
  /\ slot' = IF staged = None THEN slot ELSE [slot EXCEPT ![staged] = Empty]
  /\ staged' = None
  /\ UNCHANGED active

\* config_mgr_stage_manifest; a manifest that does not parse leaves the slot empty.
Stage(ok) ==
  /\ pc = "stage"
  /\ slot' = [slot EXCEPT ![StageSlot] = IF ok THEN incoming ELSE Empty]
  /\ staged' = IF ok THEN StageSlot ELSE None
  /\ Goto(IF ok THEN "preinstall" ELSE "resume")
  /\ UNCHANGED <<message, suspension, active, gate, runtime, scheduler, saved, outcome, wanted>>

\* The arena, and the UART drivers, which stay installed.
Preinstall(ok) ==
  /\ pc = "preinstall"
  /\ IF ok THEN Goto("begin") /\ UNCHANGED manifests ELSE Goto("resume") /\ Discard
  /\ UNCHANGED <<message, suspension, gate, runtime, scheduler, saved, outcome, wanted>>

-----------------------------------------------------------------------------
(* config_apply_transaction_execute.                                       *)

\* periph_owner_transaction_begin, after the second look at the memory.
Begin(ok) ==
  /\ pc = "begin" /\ GateFree
  /\ gate' = ok
  /\ IF ok THEN Goto("snapshot") /\ UNCHANGED result
           ELSE Goto("discard") /\ result' = "unchanged"
  /\ UNCHANGED <<message, suspension, manifests, runtime, scheduler, saved, persisted, confirmed,
                 wanted>>

Snapshot(ok) ==
  /\ pc = "snapshot"
  /\ IF ok
       THEN /\ saved' = [dma |-> dma, periph |-> periph, duty |-> duty]
            /\ Goto("stop") /\ UNCHANGED <<gate, result>>
       ELSE /\ Goto("discard") /\ gate' = FALSE /\ result' = "unchanged"
            /\ UNCHANGED saved
  /\ UNCHANGED <<message, suspension, manifests, runtime, scheduler, persisted, confirmed, wanted>>

\* scheduler_stop clears the flags and waits for the task.
StopScheduler ==
  /\ pc = "stop"
  /\ mode' = "off"
  /\ Goto("prepare")
  /\ UNCHANGED <<message, suspension, manifests, gate, runtime, task, sched, saved, outcome,
                 wanted>>

\* mutant: it does not wait.
TaskTold == mode = "off"

TaskGone == ~task

Prepared ==
  /\ pc = "prepare" /\ TaskGone
  /\ sched' = Empty
  /\ Goto("dma")
  /\ UNCHANGED <<message, suspension, manifests, gate, runtime, task, mode, saved, outcome,
                 wanted>>

\* The task has not ended within a second: CONFIG_APPLY_FATAL.
StopTimesOut ==
  /\ pc = "prepare" /\ ~TaskGone
  /\ result' = "fatal" /\ Goto("discard")
  /\ UNCHANGED <<message, suspension, manifests, gate, runtime, scheduler, saved, persisted,
                 confirmed, wanted>>

\* The memory gate refuses (the part stays), or the rebuilding breaks off.
ApplyDma(ok) ==
  /\ pc = "dma"
  /\ IF ok THEN dma' = Target /\ Goto("periph")
           ELSE dma' \in {dma, Partial} /\ Goto("rstop")
  /\ UNCHANGED <<message, suspension, manifests, gate, periph, buses, duty, scheduler, saved,
                 outcome, wanted>>

\* handler_periph_apply_configs_locked rolls itself back, or clears everything.
ApplyPeripherals(ok) ==
  /\ pc = "periph"
  /\ IF ok THEN periph' = Target /\ duty' = Initial /\ Goto("buses")
           ELSE periph' \in {periph, Empty, Partial} /\ UNCHANGED duty /\ Goto("rstop")
  /\ UNCHANGED <<message, suspension, manifests, gate, dma, buses, scheduler, saved, outcome,
                 wanted>>

\* bus_manager_apply_manifest: its plan is rejected, the cleanup fails, a channel fails
\* and all are cleaned up, or only the pruning of unused drivers fails.
ApplyBuses(ok) ==
  /\ pc = "buses"
  /\ IF ok THEN buses' = Target /\ Goto("sched")
           ELSE buses' \in {buses, Empty, Partial, Target} /\ Goto("rstop")
  /\ UNCHANGED <<message, suspension, manifests, gate, dma, periph, duty, scheduler, saved,
                 outcome, wanted>>

\* scheduler_prepare: the task exists and waits to be activated.
ApplyScheduler(ok) ==
  /\ pc = "sched"
  /\ task' = ok
  /\ sched' = IF ok THEN Target ELSE Empty
  /\ mode' = IF ok THEN "prepared" ELSE "off"
  /\ Goto(IF ok THEN "commit" ELSE "rstop")
  /\ UNCHANGED <<message, suspension, manifests, gate, runtime, saved, outcome, wanted>>

\* config_mgr_commit_staged_manifest, scheduler_activate, periph_owner_transaction_end.
Commit ==
  /\ pc = "commit"
  /\ active' = staged /\ staged' = None
  /\ mode' = "running"
  /\ gate' = FALSE
  /\ result' = "ok" /\ confirmed' = Empty /\ wanted' = Initial
  /\ Goto("persist")
  /\ UNCHANGED <<message, suspension, slot, runtime, task, sched, saved, persisted>>

-----------------------------------------------------------------------------
(* rollback.                                                               *)

\* No failure up to here leaves a task behind; the bus workers' queues are emptied, and
\* the buses are cleaned up, or not all of them.
RollbackBuses(ok) ==
  /\ pc = "rstop" /\ ~task
  /\ buses' = IF ok THEN Empty ELSE Partial
  /\ Goto(IF ok THEN "rdma" ELSE "safe")
  /\ UNCHANGED <<message, suspension, manifests, gate, dma, periph, duty, scheduler, saved,
                 outcome, wanted>>

\* tx_restore_dma and tx_restore_peripherals: the second runs though the first failed.
RestoreParts(dmaOk, periphOk) ==
  /\ pc = "rdma"
  /\ dma' = IF dmaOk THEN saved.dma ELSE Partial
  /\ IF periphOk
       THEN periph' = saved.periph /\ duty' = saved.duty
       ELSE periph' \in {periph, Empty, Partial} /\ UNCHANGED duty
  /\ Goto(IF dmaOk /\ periphOk THEN "rbuses" ELSE "rbroken")
  /\ UNCHANGED <<message, suspension, manifests, gate, buses, scheduler, saved, outcome, wanted>>

\* Without an old manifest the runtime was empty, and stays so.
NothingToRebuild ==
  /\ pc \in {"rbuses", "rbroken"} /\ old = None
  /\ result' = IF pc = "rbuses" THEN "restored" ELSE result
  /\ Goto(IF pc = "rbuses" THEN "end" ELSE "safe")
  /\ UNCHANGED <<message, suspension, manifests, gate, runtime, scheduler, saved, persisted,
                 confirmed, wanted>>

RestoreBuses(ok) ==
  /\ pc \in {"rbuses", "rbroken"} /\ old # None
  /\ IF ok THEN buses' = slot[old] ELSE buses' \in {buses, Partial, slot[old]}
  /\ Goto(IF ok /\ pc = "rbuses" THEN "rsched" ELSE "safe")
  /\ UNCHANGED <<message, suspension, manifests, gate, dma, periph, duty, scheduler, saved,
                 outcome, wanted>>

\* scheduler_start_manifest: old_manifest is applied, so the task is active at once.
RestoreScheduler(ok) ==
  /\ pc = "rsched"
  /\ task' = ok
  /\ mode' = IF ok THEN "running" ELSE "off"
  /\ sched' = IF ok THEN slot[old] ELSE Empty
  /\ result' = IF ok THEN "restored" ELSE result
  /\ Goto(IF ok THEN "end" ELSE "safe")
  /\ UNCHANGED <<message, suspension, manifests, gate, runtime, saved, persisted, confirmed,
                 wanted>>

\* tx_safe_state: there is no scheduler left to stop; every part is emptied, or is not.
EnterSafeState ==
  /\ pc = "safe" /\ ~task
  /\ dma' \in {Empty, Partial} /\ periph' \in {Empty, Partial} /\ buses' \in {Empty, Partial}
  /\ IF dma' = Empty /\ periph' = Empty /\ buses' = Empty
       THEN result' = "safe" /\ Goto("end")
       ELSE result' = "fatal" /\ Goto("discard")
  /\ confirmed' = Empty
  /\ UNCHANGED <<message, suspension, manifests, gate, duty, scheduler, saved, persisted, wanted>>

EndTransaction ==
  /\ pc = "end"
  /\ gate' = FALSE
  /\ Goto("discard")
  /\ UNCHANGED <<message, suspension, manifests, runtime, scheduler, saved, outcome, wanted>>

-----------------------------------------------------------------------------
(* After the transaction.                                                  *)

\* A fatal outcome keeps the gate and the suspension until the node restarts.
DiscardStaged ==
  /\ pc = "discard"
  /\ Discard
  /\ Goto(IF result = "fatal" THEN "restart" ELSE "resume")
  /\ UNCHANGED <<message, suspension, gate, runtime, scheduler, saved, outcome, wanted>>

\* sync_manager_on_config_applied, then ConfigResult: a success, or, the manifest being
\* in force all the same, a failure.
Persist(ok) ==
  /\ pc = "persist"
  /\ IF ok THEN persisted' = slot[active] /\ confirmed' = slot[active]
           ELSE UNCHANGED <<persisted, confirmed>>
  /\ Goto("resume")
  /\ UNCHANGED <<message, suspension, manifests, gate, runtime, scheduler, saved, result, wanted>>

\* mutant: the workers are resumed after a success only.
ResumesOnSuccess == result = "ok"

Resumes == TRUE

Resume ==
  /\ pc = "resume"
  /\ requested' = (requested /\ ~Resumes)
  /\ bits' = IF Resumes THEN {} ELSE bits
  /\ Goto("idle")
  /\ UNCHANGED <<message, worker, manifests, gate, runtime, scheduler, saved, outcome, wanted>>

\* The configuration is not kept in flash: only the id of the last one confirmed is.
Restart ==
  /\ pc = "restart"
  /\ Goto("idle")
  /\ requested' = FALSE /\ bits' = {} /\ worker' = [w \in Workers |-> "top"]
  /\ slot' = [i \in 0 .. 1 |-> Empty] /\ active' = 0 /\ staged' = None
  /\ gate' = FALSE
  /\ dma' = Empty /\ periph' = Empty /\ buses' = Empty /\ duty' = Initial
  /\ task' = FALSE /\ sched' = Empty /\ mode' = "off"
  /\ confirmed' = Empty /\ wanted' = Initial /\ result' = "none" /\ saved' = Fresh
  /\ UNCHANGED <<message, persisted>>

-----------------------------------------------------------------------------
Init ==
  /\ pc = "idle" /\ incoming = Empty /\ old = None
  /\ requested = FALSE /\ bits = {} /\ worker = [w \in Workers |-> "top"]
  /\ slot = [i \in 0 .. 1 |-> Empty] /\ active = 0 /\ staged = None
  /\ gate = FALSE
  /\ dma = Empty /\ periph = Empty /\ buses = Empty /\ duty = Initial
  /\ task = FALSE /\ sched = Empty /\ mode = "off"
  /\ saved = Fresh /\ persisted = Empty /\ result = "none"
  /\ confirmed = Empty /\ wanted = Initial

Handle ==
  \/ ClearBits \/ RequestSuspension \/ Suspended \/ SuspendTimesOut
  \/ \E ok \in BOOLEAN :
       \/ Stage(ok) \/ Preinstall(ok) \/ Begin(ok) \/ Snapshot(ok)
       \/ ApplyDma(ok) \/ ApplyPeripherals(ok) \/ ApplyBuses(ok) \/ ApplyScheduler(ok)
       \/ RollbackBuses(ok) \/ RestoreBuses(ok) \/ RestoreScheduler(ok) \/ Persist(ok)
       \/ \E periphOk \in BOOLEAN : RestoreParts(ok, periphOk)
  \/ StopScheduler \/ Prepared \/ StopTimesOut
  \/ Commit \/ NothingToRebuild \/ EnterSafeState \/ EndTransaction
  \/ DiscardStaged \/ Resume \/ Restart

Next ==
  \/ \E m \in Manifests : Deliver(m)
  \/ Handle \/ TaskEnds
  \/ \E w \in Workers : Work(w)
  \/ \E d \in Levels : SetDuty(d)

\* Every task runs.  Manifests do not keep arriving in the millisecond in which a parked
\* worker looks at the flag again: strong fairness.
Fairness ==
  /\ WF_vars(Handle) /\ WF_vars(TaskEnds)
  /\ \A w \in Workers : WF_vars(Work(w)) /\ SF_vars(Unpark(w) /\ Work(w))

Spec == Init /\ [][Next]_vars /\ Fairness

-----------------------------------------------------------------------------
(* Properties.                                                             *)

\* Types.
TypeOK ==
  /\ incoming \in Loaded /\ old \in 0 .. None
  /\ requested \in BOOLEAN /\ bits \subseteq Workers
  /\ worker \in [Workers -> {"top", "saw", "parked", "busy"}]
  /\ slot \in [0 .. 1 -> Loaded] /\ active \in 0 .. 1 /\ staged \in 0 .. None
  /\ gate \in BOOLEAN
  /\ {dma, periph, buses, saved.dma, saved.periph} \subseteq Loaded \cup {Partial}
  /\ {duty, wanted, saved.duty} \subseteq Levels
  /\ task \in BOOLEAN /\ mode \in {"off", "prepared", "running"} /\ sched \in Loaded
  /\ {persisted, confirmed} \subseteq Loaded
  /\ result \in {"none", "ok", "unchanged", "restored", "safe", "fatal"}

Alone == (\A w \in Workers : worker[w] = "parked") /\ ~task

\* The buses are torn down and rebuilt only while every worker waits at the top of its
\* loop and no scheduler task exists (bus_worker_suspend, tx_prepare).
RebuiltAlone == [][buses' # buses => Alone \/ pc = "restart"]_vars

Runs(m) ==
  /\ dma = m /\ periph = m /\ buses = m
  /\ sched = m /\ task /\ mode = "running" /\ slot[active] = m

\* When no configuration is being applied, the last one confirmed to the server runs in
\* all its parts, is the one a rollback would go back to and the one kept in flash,
\* whatever configurations have failed since.
ConfirmedRuns == pc = "idle" /\ confirmed # Empty => Runs(confirmed) /\ persisted = confirmed

\* The PWM channel has the duty cycle of the last command on it: a configuration that
\* fails does not undo a command that came before it.
NoLostCommand == ~gate /\ periph \in Manifests => duty = wanted

\* Every worker that parked goes on working (bus_worker_resume on every way out).
WorkersResume == \A w \in Workers : worker[w] = "parked" ~> worker[w] # "parked"

\* What the comment at the end of config_apply_transaction_execute says of the outcomes
\* that are not fatal.  It does not hold: after a safe state the old manifest is still the
\* active one, and the rollback of the next failure "restores" buses and scheduler from
\* it, but DMA and peripherals from the empty snapshot.
OutcomesConsistent ==
  result \in {"restored", "safe"} /\ pc = "idle" =>
    \A a, b \in {dma, periph, buses, sched} : a = b
=============================================================================
