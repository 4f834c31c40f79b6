-------------------------------- MODULE Ota --------------------------------
(***************************************************************************)
(* Firmware updates of one node: the tasks of backend/internal/ota/ota.go, *)
(* the goroutines that wait for the node's acknowledgement and send the    *)
(* command again, the time-out scanner, automatic rollback, cancellation,  *)
(* and the node's side (handler_data.c, ota.c): duplicate detection in     *)
(* flash memory, the memory gate, the download, the restart.               *)
(*                                                                         *)
(* A statement of the database is one step.  A link keeps order and loses  *)
(* what is on its way when it breaks.  The node sends the wire codes 0     *)
(* (downloading), 1 (installing) and 3 (failed); a success reaches the     *)
(* server as the Hello of the new firmware.  Time is left out but for two  *)
(* facts: a task is stale when nothing wrote it for 30 minutes, and by     *)
(* then its waits, which takes two and a half, has ended.                 *)
(***************************************************************************)
EXTENDS Naturals, Sequences, FiniteSets

CONSTANTS
  MaxTask,     \* bound: tasks that are created, 1 .. MaxTask
  Versions,    \* firmware versions
  Factory,     \* the one the node runs at first
  NoVersion,
  FailMax,     \* rollbackFailMax
  Retries,     \* ackMaxRetries
  Callers,     \* API requests that may run at once
  Receivers,   \* workers that handle the node's frames
  Scanner,     \* the time-out scanner
  MaxLink      \* bound: messages of the node on their way

Tasks == 1 .. MaxTask
NoTask  == 0
\* The goroutine that waits for the acknowledgement of task t goes by its number.
Threads == Callers \cup Receivers \cup {Scanner} \cup Tasks

ASSUME OtaAssumption ==
  /\ {MaxTask, FailMax, Retries, MaxLink} \subseteq Nat \ {0}
  /\ Factory \in Versions /\ NoVersion \notin Versions

VARIABLES
  row,        \* ota_tasks
  stale,      \* the tasks scanTimeouts has read and no one has written since
  scanned,    \* ... and has yet to look at
  stable,     \* version of the success completed last
  dbFw,       \* nodes.firmware_version
  job,        \* what each thread is doing
  pend, chans,    \* pendingCmds; chans[t]: how often the channel was closed
  waiting, resent,     \* the tasks whose waiter runs; how often it sent again
  linked, down, up,    \* the link, and the messages on it
  fw, last, lastStatus,    \* node: running firmware; replay_id, replay_status in flash
  upgrading, stage,        \* node: the ota_task and where it is
  started, flashed         \* history: tasks the node has started; booted, in order

waits  == <<waiting, resent>>
server == <<row, stale, scanned, stable, dbFw, pend, chans, waits>>
device == <<fw, last, lastStatus, upgrading, stage, started, flashed>>
otaVars   == <<server, job, linked, down, up, device>>

Active   == {"pending", "downloading", "verifying", "installing"}
Terminal == {"success", "failed", "timeout"}
\* mutant: a task that installs is left to the node.
TimeoutProneDownload == {"pending", "downloading"}

TimeoutProne == {"pending", "downloading", "installing"}

Unused  == [st |-> "unused", ver |-> NoVersion, old |-> FALSE, done |-> FALSE, why |-> ""]
IdleJob == [at |-> "idle", task |-> NoTask, seen |-> "", new |-> "", ver |-> NoVersion]
Free(h) == job[h].at = "idle"
Now(h, j) == job' = [job EXCEPT ![h] = j]

Created == {t \in Tasks : row[t].st # "unused"}
InFlight == {t \in Tasks : row[t].st \in Active}

\* An UPDATE of the rows S; updated_at changes with it, and completed_at where the
\* new status is a verdict.
Updated(S, st, why) ==
  /\ row' = [t \in Tasks |-> IF t \in S
               THEN [row[t] EXCEPT !.st = st, !.old = FALSE, !.why = why,
                                   !.done = @ \/ st \in Terminal]
               ELSE row[t]]
  /\ stale' = stale \ S

Untouched == UNCHANGED <<row, stale>>

\* Closing the channel of a task that is registered.
CloseChan(t) ==
  /\ chans' = IF t \in pend THEN [chans EXCEPT ![t] = @ + 1] ELSE chans
  /\ pend' = pend \ {t}

Publishes(t) == linked /\ down' = Append(down, t)

-----------------------------------------------------------------------------
(* CreateTask and SendOtaCommand, by whatever thread.                      *)

Creating == {h \in Threads : job[h].at \in {"supersede", "insert"}}
Room == Cardinality(Tasks \ Created) > Cardinality(Creating)

Request(h, v) ==
  /\ h \in Callers /\ Free(h) /\ Room
  /\ Now(h, [IdleJob EXCEPT !.at = "supersede", !.ver = v])
  /\ UNCHANGED <<server, linked, down, up, device>>

Supersede(h) ==
  /\ job[h].at = "supersede"
  /\ Updated(InFlight, "failed", "superseded")
  /\ Now(h, [job[h] EXCEPT !.at = "insert"])
  /\ UNCHANGED <<scanned, stable, dbFw, pend, chans, waits, linked, down, up, device>>

Insert(h) ==
  /\ job[h].at = "insert"
  /\ LET t == Cardinality(Created) + 1 IN
       /\ row' = [row EXCEPT ![t] = [Unused EXCEPT !.st = "pending", !.ver = job[h].ver]]
       /\ Now(h, [job[h] EXCEPT !.at = "send", !.task = t])
  /\ UNCHANGED <<stale, scanned, stable, dbFw, pend, chans, waits, linked, down, up, device>>

\* The pending channel, the first publication and the waiter; a refused publication
\* is the API's to record, and nobody's after a rollback.
Send(h) ==
  LET t == job[h].task IN
  /\ job[h].at = "send"
  /\ \/ /\ Publishes(t)
        /\ pend' = pend \cup {t}
        /\ waiting' = waiting \cup {t}
        /\ Now(h, IdleJob)
     \/ /\ ~linked
        /\ Now(h, IF h \in Callers THEN [job[h] EXCEPT !.at = "refused"] ELSE IdleJob)
        /\ UNCHANGED <<pend, waiting, down>>
  /\ UNCHANGED <<row, stale, scanned, stable, dbFw, chans, resent, linked, up, device>>

\* db.Save of the row as it was inserted: completed_at stays empty.
RecordRefused(h) ==
  LET t == job[h].task IN
  /\ job[h].at = "refused"
  /\ row' = [row EXCEPT ![t] = [Unused EXCEPT !.st = "failed", !.ver = job[h].ver, !.why = "send"]]
  /\ stale' = stale \ {t}
  /\ Now(h, IdleJob)
  /\ UNCHANGED <<scanned, stable, dbFw, pend, chans, waits, linked, down, up, device>>

-----------------------------------------------------------------------------
(* maybeAutoRollback and AutoRollback; what they read is read at once.     *)

Failures == {t \in Tasks : row[t].st \in {"failed", "timeout"} /\ row[t].done}

Rollback(h) ==
  /\ job[h].at = "rollback"
  /\ Now(h, IF /\ Cardinality(Failures) >= FailMax
               /\ stable \notin {NoVersion, dbFw} /\ Room
            THEN [IdleJob EXCEPT !.at = "supersede", !.ver = stable] ELSE IdleJob)
  /\ UNCHANGED <<server, linked, down, up, device>>

-----------------------------------------------------------------------------
(* The waiter of a task.                                                   *)

Waiting(t) == t \in waiting /\ Free(t)

Acked(t) ==
  /\ Waiting(t) /\ chans[t] > 0
  /\ waiting' = waiting \ {t}
  /\ UNCHANGED <<row, stale, scanned, stable, dbFw, job, pend, chans, resent, linked, down, up, device>>

\* No acknowledgement within ackTimeout and the back-off: once more.
Resend(t) ==
  /\ Waiting(t) /\ resent[t] < Retries
  /\ resent' = [resent EXCEPT ![t] = @ + 1]
  /\ Publishes(t) \/ (~linked /\ UNCHANGED down)
  /\ UNCHANGED <<row, stale, scanned, stable, dbFw, job, pend, chans, waiting, linked, up, device>>

\* mutant: the task is failed whatever became of it.
Anyway(t) == TRUE

\* The condition of the last UPDATE.
StillActive(t) == row[t].st \in Active

\* None after the last resend: the task has failed.
Exhaust(t) ==
  /\ Waiting(t) /\ resent[t] = Retries
  /\ waiting' = waiting \ {t}
  /\ pend' = pend \ {t}
  /\ IF StillActive(t)
     THEN /\ Updated({t}, "failed", "no ack")
          /\ Now(t, [IdleJob EXCEPT !.at = "rollback"])
     ELSE Untouched /\ UNCHANGED job
  /\ UNCHANGED <<scanned, stable, dbFw, chans, resent, linked, down, up, device>>

-----------------------------------------------------------------------------
(* The scanner.                                                            *)

Scan ==
  /\ Free(Scanner) /\ scanned = {}
  /\ scanned' = {t \in Tasks : row[t].st \in TimeoutProne /\ row[t].old}
  /\ scanned' # {}
  /\ stale' = scanned'
  /\ UNCHANGED <<row, stable, dbFw, job, pend, chans, waits, linked, down, up, device>>

\* WHERE status = ? AND updated_at = ?, as they were read.
StillStale(t) == t \in stale

TimeOut(t) ==
  /\ Free(Scanner) /\ t \in scanned
  /\ scanned' = scanned \ {t}
  /\ IF StillStale(t)
     THEN /\ Updated({t}, "timeout", "")
          /\ Now(Scanner, [IdleJob EXCEPT !.at = "rollback"])
     ELSE Untouched /\ UNCHANGED job
  /\ UNCHANGED <<stable, dbFw, pend, chans, waits, linked, down, up, device>>

\* Thirty minutes without a write.
Age(t) ==
  /\ row[t].st \in Active /\ ~row[t].old
  /\ t \notin waiting /\ \A h \in Threads : job[h].task # t
  /\ row' = [row EXCEPT ![t].old = TRUE]
  /\ UNCHANGED <<stale, scanned, stable, dbFw, job, pend, chans, waits, linked, down, up, device>>

-----------------------------------------------------------------------------
(* CancelTask.                                                             *)

Cancel(h, t) ==
  /\ h \in Callers /\ Free(h)
  /\ row[t].st \in {"pending", "downloading"}
  /\ Now(h, [IdleJob EXCEPT !.at = "cancel", !.task = t, !.seen = row[t].st])
  /\ UNCHANGED <<server, linked, down, up, device>>

\* mutant: the row is written whatever it says by now.
AsFound(h) == TRUE

\* WHERE status = ?, as it was read; of Cancel and of a progress report.
AsRead(h) == row[job[h].task].st = job[h].seen

ConfirmCancel(h) ==
  LET t == job[h].task IN
  /\ job[h].at = "cancel"
  /\ IF AsRead(h)
     THEN Updated({t}, "failed", "cancelled") /\ Now(h, [IdleJob EXCEPT !.at = "ack", !.task = t])
     ELSE Untouched /\ Now(h, IdleJob)
  /\ UNCHANGED <<scanned, stable, dbFw, pend, chans, waits, linked, down, up, device>>

-----------------------------------------------------------------------------
(* Frames of the node.                                                     *)

StatusOf(code) == CASE code = 0 -> "downloading" [] code = 1 -> "installing" [] code = 3 -> "failed"

Take(m) == up # <<>> /\ Head(up) = m /\ up' = Tail(up)

\* HandleOtaProgress: the task is read; a verdict is left alone.
ReadProgress(h, t, code) ==
  /\ h \in Receivers /\ Free(h)
  /\ Take([kind |-> "progress", task |-> t, code |-> code])
  /\ IF row[t].st \in Terminal THEN UNCHANGED job
     ELSE Now(h, [IdleJob EXCEPT !.at = "progress", !.task = t, !.seen = row[t].st,
                                 !.new = StatusOf(code)])
  /\ UNCHANGED <<server, linked, down, device>>

WriteProgress(h) ==
  LET j == job[h] IN
  /\ j.at = "progress"
  /\ IF AsRead(h)
     THEN Updated({j.task}, j.new, "device") /\ Now(h, [j EXCEPT !.at = "ack"])
     ELSE Untouched /\ Now(h, IdleJob)
  /\ UNCHANGED <<scanned, stable, dbFw, pend, chans, waits, linked, down, up, device>>

\* The waiter's channel is closed after the row is written, by a report or a Cancel.
Ack(h) ==
  LET j == job[h] IN
  /\ j.at = "ack"
  /\ CloseChan(j.task)
  /\ Now(h, IF j.new = "failed" THEN [IdleJob EXCEPT !.at = "rollback"] ELSE IdleJob)
  /\ UNCHANGED <<row, stale, scanned, stable, dbFw, waits, linked, down, up, device>>

\* mutant: any Hello completes the task that is in flight.
AnyVersion(t, v) == TRUE

\* The Hello of the task's version.
IsTarget(t, v) == row[t].ver = v

Newest(S) == CHOOSE t \in S : \A u \in S : u <= t

\* handleHello writes the node's version; HandleHelloOTACompletion reads the newest
\* task in flight ...
ReadHello(h, v) ==
  /\ h \in Receivers /\ Free(h)
  /\ Take([kind |-> "hello", ver |-> v])
  /\ dbFw' = v
  /\ IF InFlight # {} /\ IsTarget(Newest(InFlight), v)
     THEN Now(h, [IdleJob EXCEPT !.at = "complete", !.task = Newest(InFlight)])
     ELSE UNCHANGED job
  /\ UNCHANGED <<row, stale, scanned, stable, pend, chans, waits, linked, down, device>>

\* ... and saves all of it.
Complete(h) ==
  LET t == job[h].task IN
  /\ job[h].at = "complete"
  /\ Updated({t}, "success", "hello")
  /\ stable' = row[t].ver
  /\ Now(h, IdleJob)
  /\ UNCHANGED <<scanned, dbFw, pend, chans, waits, linked, down, up, device>>

-----------------------------------------------------------------------------
(* The node.                                                               *)

Report(t, code) ==
  up' = IF linked THEN Append(up, [kind |-> "progress", task |-> t, code |-> code]) ELSE up

\* What the node remembers of a command, in flash.
Remember(t) == last' = t /\ lastStatus' = 0

\* mutant: only while it is being carried out.
RememberedRunning(t) == last = t /\ upgrading = t

Remembered(t) == last = t

Receive == down # <<>> /\ Len(up) < MaxLink /\ down' = Tail(down)

\* OTA_CMD_EXACT_REPLAY: the last progress again.
Replay ==
  LET t == Head(down) IN
  /\ Receive /\ Remembered(t)
  /\ Report(t, lastStatus)
  /\ UNCHANGED <<server, job, linked, device>>

\* OTA_CMD_BUSY: nothing.
Busy ==
  /\ Receive /\ ~Remembered(Head(down)) /\ upgrading # NoTask
  /\ UNCHANGED <<server, job, linked, up, device>>

\* OTA_CMD_NEW: remembered, and refused for want of memory ...
RefuseMemory ==
  /\ Receive /\ ~Remembered(Head(down)) /\ upgrading = NoTask
  /\ Remember(Head(down))
  /\ UNCHANGED <<server, job, linked, up, fw, upgrading, stage, started, flashed>>

\* ... or started.
Start ==
  LET t == Head(down) IN
  /\ Receive /\ ~Remembered(t) /\ upgrading = NoTask
  /\ Remember(t)
  /\ upgrading' = t /\ stage' = "start"
  /\ started' = started \cup {t}
  /\ UNCHANGED <<server, job, linked, up, fw, flashed>>

\* The ota_task reports as an attempt begins, and as it goes on.
Download ==
  /\ stage \in {"start", "download"} /\ Len(up) < MaxLink
  /\ lastStatus' = IF last = upgrading THEN 0 ELSE lastStatus
  /\ Report(upgrading, 0)
  /\ stage' = "download"
  /\ UNCHANGED <<server, job, linked, down, fw, last, upgrading, started, flashed>>

\* The ota_task ends; s_ota_state is idle again.
Ended == upgrading' = NoTask /\ stage' = "idle"

\* Three attempts have failed, or the boot partition cannot be set.
DownloadFails ==
  /\ stage = "download" /\ Len(up) < MaxLink
  /\ lastStatus' = IF last = upgrading THEN 3 ELSE lastStatus
  /\ Report(upgrading, 3)
  /\ Ended
  /\ UNCHANGED <<server, job, linked, down, fw, last, started, flashed>>

\* Verified, and the boot partition set ...
SetBoot ==
  /\ stage = "download" /\ stage' = "switched"
  /\ UNCHANGED <<server, job, linked, down, up, fw, last, lastStatus, upgrading, started, flashed>>

\* ... then reported; the node restarts in a second.
Install ==
  /\ stage = "switched" /\ Len(up) < MaxLink
  /\ lastStatus' = IF last = upgrading THEN 1 ELSE lastStatus
  /\ Report(upgrading, 1)
  /\ stage' = "boot"
  /\ UNCHANGED <<server, job, linked, down, fw, last, upgrading, started, flashed>>

\* A restart, for this reason or another; a new image may fail its validation and be
\* rolled back by the boot loader.
Reboot ==
  /\ linked' = FALSE /\ down' = <<>> /\ up' = <<>>
  /\ Ended
  /\ \/ stage \in {"switched", "boot"} /\ fw' = row[upgrading].ver /\ flashed' = Append(flashed, upgrading)
     \/ UNCHANGED <<fw, flashed>>
  /\ UNCHANGED <<server, job, last, lastStatus, started>>

RestartNew == stage = "boot" /\ Reboot

\* The server restarts: rows stay, goroutines, channels and connections do not.
ServerRestart ==
  /\ job' = [h \in Threads |-> IdleJob]
  /\ pend' = {} /\ waiting' = {} /\ chans' = [t \in Tasks |-> 0]
  /\ scanned' = {} /\ stale' = {}
  /\ linked' = FALSE /\ down' = <<>> /\ up' = <<>>
  /\ UNCHANGED <<row, stable, dbFw, resent, device>>

Disconnect ==
  /\ linked
  /\ linked' = FALSE /\ down' = <<>> /\ up' = <<>>
  /\ UNCHANGED <<server, job, device>>

Connect ==
  /\ ~linked
  /\ linked' = TRUE
  /\ up' = <<[kind |-> "hello", ver |-> fw]>>
  /\ UNCHANGED <<server, job, down, device>>

-----------------------------------------------------------------------------
OtaInit ==
  /\ row = [t \in Tasks |-> Unused] /\ stale = {} /\ scanned = {}
  /\ stable \in {NoVersion, Factory} /\ dbFw = Factory
  /\ job = [h \in Threads |-> IdleJob]
  /\ pend = {} /\ chans = [t \in Tasks |-> 0] /\ waiting = {} /\ resent = [t \in Tasks |-> 0]
  /\ linked = TRUE /\ down = <<>> /\ up = <<>>
  /\ fw = Factory /\ last = NoTask /\ lastStatus = 0 /\ upgrading = NoTask /\ stage = "idle"
  /\ started = {} /\ flashed = <<>>

Working(h) ==
  \/ Supersede(h) \/ Insert(h) \/ Send(h) \/ RecordRefused(h) \/ Rollback(h)
  \/ ConfirmCancel(h)
  \/ \E t \in Tasks : \E code \in {0, 1, 3} : ReadProgress(h, t, code)
  \/ \E v \in Versions : ReadHello(h, v)
  \/ WriteProgress(h) \/ Ack(h) \/ Complete(h)

Waiter(t) == Acked(t) \/ Resend(t) \/ Exhaust(t)
Scanning  == Scan \/ \E t \in Tasks : TimeOut(t)
Node == \/ Replay \/ Busy \/ RefuseMemory \/ Start \/ Download \/ DownloadFails
        \/ SetBoot \/ Install \/ RestartNew

OtaNext ==
  \/ \E h \in Threads : Working(h)
  \/ \E h \in Callers : (\E v \in Versions : Request(h, v)) \/ \E t \in Tasks : Cancel(h, t)
  \/ \E t \in Tasks : Waiter(t) \/ Age(t)
  \/ Scanning \/ Node
  \/ Reboot \/ ServerRestart \/ Disconnect \/ Connect

\* Goroutines and timers run, half an hour passes; the node and the link need not
\* do anything.
OtaFairness ==
  /\ \A h \in Threads : WF_otaVars(Working(h))
  /\ \A t \in Tasks : WF_otaVars(Acked(t) \/ Exhaust(t)) /\ WF_otaVars(Resend(t)) /\ WF_otaVars(Age(t))
  /\ WF_otaVars(Scanning)

OtaSpec == OtaInit /\ [][OtaNext]_otaVars /\ OtaFairness

-----------------------------------------------------------------------------
(* Properties.                                                             *)

OtaTypeOK ==
  /\ \A t \in Tasks : row[t].st \in Active \cup Terminal \cup {"unused"}
                      /\ row[t].ver \in Versions \cup {NoVersion}
  /\ stale \subseteq Tasks /\ scanned \subseteq Tasks /\ pend \subseteq Tasks
  /\ waiting \subseteq Created /\ resent \in [Tasks -> 0 .. Retries]
  /\ last \in Tasks \cup {NoTask} /\ upgrading \in Tasks \cup {NoTask}
  /\ stage \in {"idle", "start", "download", "switched", "boot"} /\ (stage = "idle") = (upgrading = NoTask)

\* A task that succeeded has its version running, or had it (ota.go:676-727).
SuccessIsEvidenced ==
  \A t \in Tasks : row[t].st = "success" =>
    row[t].ver = Factory \/ \E i \in DOMAIN flashed : row[flashed[i]].ver = row[t].ver

\* A verdict stays, but for the two rows that are saved whole: a Hello of the
\* task's version makes it a success, and the API records that nothing was sent
\* (ota.go:594, 651-656).
VerdictStays ==
  [][\A t \in Tasks : row[t].st \in Terminal /\ row'[t] # row[t]
       => row'[t].why \in {"hello", "send"}]_otaVars

\* No channel is closed twice, which would end the process (ota.go:776-777).
ClosedOnce == \A t \in Tasks : chans[t] <= 1

\* A command that is sent again, for want of an acknowledgement, is not carried out
\* again, across the restarts in between; unless the node was sent another since
\* (ota.c:309-330).
NoRepeatedFlash ==
  \A i, j \in DOMAIN flashed : i # j /\ flashed[i] = flashed[j] => Cardinality(Created) > 1

\* Every task gets a verdict (ota.go:222-262, 496-516).
Settles == \A t \in Tasks : row[t].st \in Active ~> row[t].st \in Terminal

\* A task that the server calls downloading was started by the node: a command
\* the memory gate refuses is not reported (handler_data.c:125-127).
DownloadIsStarted == \A t \in Tasks : row[t].st = "downloading" => t \in started

\* A task cancelled while it was downloading is not installed (ota.go:71-76).
CancelledIsNotInstalled ==
  [][\A t \in Tasks : row[t].why = "cancelled" => Len(flashed') = Len(flashed)
       \/ flashed'[Len(flashed')] # t]_otaVars
=============================================================================
