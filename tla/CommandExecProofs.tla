------------------------- MODULE CommandExecProofs -------------------------
(***************************************************************************)
(* Proofs about the durable command engine, for any number of commands,     *)
(* replicas, handlers, boots and faults.  IInv is the inductive invariant:   *)
(* what the row locks of open transactions guarantee (ExecLocksOK and       *)
(* OutboxLocksOK), what the channel lock guarantees (ChannelOK), what a      *)
(* handler may rely on (HandlerOK) and the safety invariants themselves.     *)
(***************************************************************************)
EXTENDS CommandExec, TLAPS

Working == {"selected", "locked", "claimed", "attempting", "published", "refused", "rejected"}

\* A loop has uncommitted work only in the steps of its open transaction.
WorkOK ==
    \A d \in Dispatchers :
        /\ step[d] \in Working => cur[d] \in Cmds
        /\ step[d] \notin {"selected", "locked", "failing", "closing"} => held[d] = {}
        /\ step[d] \notin {"failing", "closing"} => queued[d] = {}
        /\ step[d] # "closing" => failed[d] = {} /\ active[d] = {}
        /\ failed[d] \subseteq queued[d]

\* The row lock of an execution is exclusive and keeps it QUEUED.
ExecLocksOK ==
    /\ \A d, e \in Dispatchers, c \in Cmds : HoldsExec(d, c) /\ HoldsExec(e, c) => d = e
    /\ \A d \in Dispatchers, c \in Cmds : HoldsExec(d, c) => status[c] = "QUEUED"

\* The row lock of an outbox row is exclusive, and a lease that ran out or is
\* being taken back is still LEASED for everyone else.
OutboxLocksOK ==
    /\ \A d, e \in Dispatchers, c \in Cmds : HoldsOutbox(d, c) /\ HoldsOutbox(e, c) => d = e
    /\ \A d \in Dispatchers : \A c \in held[d] : outbox[c] = "LEASED"
    /\ \A c \in lapsed : outbox[c] = "LEASED"

\* An execution and its outbox row are created together.
PresenceOK == \A c \in Cmds : status[c] = "ABSENT" <=> outbox[c] = "ABSENT"

\* A loop between the second count of leases and its commit is alone on its
\* channel, and finds no lease there but those it has itself taken back.
ChannelOK ==
    /\ \A d, e \in Dispatchers, ch \in Channels : HoldsChannel(d, ch) /\ HoldsChannel(e, ch) => d = e
    /\ \A d \in Dispatchers, c \in Cmds \ PeriphCmds :
          /\ step[d] = "locked" /\ cur[d] \in Cmds \ PeriphCmds
          /\ c \notin held[d] /\ ChannelOf[c] = ChannelOf[cur[d]]
          => outbox[c] # "LEASED"

\* A handler at work carries a legal transition for a committed attempt.
HandlerOK ==
    \A h \in Handlers : handler[h] # NoWork =>
        /\ handler[h].ev \in Events
        /\ validTransition(handler[h].seen, StatusOfEvent(handler[h].ev.type))
        /\ attempt[handler[h].ev.cmd].status # "ABSENT"

IInv ==
    /\ TypeOK /\ WorkOK /\ ExecLocksOK /\ OutboxLocksOK /\ PresenceOK /\ ChannelOK /\ HandlerOK
    /\ PublicationEvidence /\ FencedCommit /\ ChannelMutex

----------------------------------------------------------------------------

\* Every step of the engine keeps the types of the rows, loops and handlers.
LEMMA TypeStep ==
    ASSUME TypeOK, WorkOK, HandlerOK, [Next]_vars
    PROVE  TypeOK'
<1> USE DEF TypeOK
<1>1. ASSUME NEW c \in Cmds, Create(c) PROVE TypeOK'
  <2>1. RowsTyped'
    BY <1>1 DEF Create, RowsTyped, Statuses, OutboxStates
  <2>2. LoopsTyped'
    BY <1>1 DEF Create, LoopsTyped, workVars
  <2>3. WorldTyped'
    BY <1>1 DEF Create, WorldTyped
  <2> QED BY <2>1, <2>2, <2>3
<1>2. ASSUME NEW c \in Cmds, Cancel(c) PROVE TypeOK'
  <2>1. RowsTyped'
    BY <1>2 DEF Cancel, RowsTyped, Statuses, Terminal, OutboxStates, Reasons
  <2>2. LoopsTyped'
    BY <1>2 DEF Cancel, LoopsTyped, workVars
  <2>3. WorldTyped'
    BY <1>2 DEF Cancel, WorldTyped
  <2> QED BY <2>1, <2>2, <2>3
<1>3. ASSUME NEW c \in Cmds, LeaseExpires(c) PROVE TypeOK'
  <2>1. RowsTyped'
    BY <1>3 DEF LeaseExpires, RowsTyped
  <2>2. LoopsTyped'
    BY <1>3 DEF LeaseExpires, LoopsTyped, workVars
  <2>3. WorldTyped'
    BY <1>3, EnvironmentAssumption DEF LeaseExpires, WorldTyped
  <2> QED BY <2>1, <2>2, <2>3
<1>4. ASSUME NEW c \in Cmds, DeadlinePasses(c) PROVE TypeOK'
  <2>1. RowsTyped'
    BY <1>4 DEF DeadlinePasses, RowsTyped
  <2>2. LoopsTyped'
    BY <1>4 DEF DeadlinePasses, LoopsTyped, workVars
  <2>3. WorldTyped'
    BY <1>4 DEF DeadlinePasses, WorldTyped
  <2> QED BY <2>1, <2>2, <2>3
<1>5. ASSUME NEW c \in Cmds, NEW o \in Outcomes, ResolveUnknown(c, o) PROVE TypeOK'
  <2>1. RowsTyped'
    BY <1>5 DEF ResolveUnknown, RowsTyped
  <2>2. LoopsTyped'
    BY <1>5 DEF ResolveUnknown, LoopsTyped, workVars
  <2>3. WorldTyped'
    BY <1>5 DEF ResolveUnknown, WorldTyped
  <2> QED BY <2>1, <2>2, <2>3
<1>6. ASSUME NEW d \in Dispatchers, ClaimSelect(d) PROVE TypeOK'
  <2>1. RowsTyped'
    BY <1>6 DEF ClaimSelect, RowsTyped, OutboxStates
  <2>2. LoopsTyped'
    <3>1. CASE Candidates(lapsed) = {}
      BY <1>6, <3>1 DEF ClaimSelect, LoopsTyped, LeaveProcess, Steps, Tags
    <3>2. CASE Candidates(lapsed) # {}
      <4>1. PICK c \in Cmds : cur' = [cur EXCEPT ![d] = c] /\ token' = [token EXCEPT ![d] = fencing[c]]
        BY <1>6, <3>2 DEF ClaimSelect, Candidates
      <4> QED BY <1>6, <3>2, <4>1, ZenonT(60) DEF ClaimSelect, LoopsTyped, RowsTyped, Steps
    <3> QED BY <3>1, <3>2
  <2>3. WorldTyped'
    BY <1>6 DEF ClaimSelect, WorldTyped
  <2> QED BY <2>1, <2>2, <2>3
<1>7. ASSUME NEW d \in Dispatchers, ClaimLock(d) PROVE TypeOK'
  <2>1. RowsTyped'
    BY <1>7 DEF ClaimLock, RowsTyped, CommitRecovered, Recovered, OutboxStates
  <2>2. LoopsTyped'
    BY <1>7 DEF ClaimLock, LoopsTyped, CommitRecovered, LeaveProcess, Steps, Tags
  <2>3. WorldTyped'
    BY <1>7 DEF ClaimLock, WorldTyped
  <2> QED BY <2>1, <2>2, <2>3
<1>8. ASSUME NEW d \in Dispatchers, ClaimCommit(d) PROVE TypeOK'
  <2>1. RowsTyped'
    <3>1. cur[d] \in Cmds /\ held[d] \subseteq Cmds
      BY <1>8 DEF ClaimCommit, WorkOK, Working, LoopsTyped
    <3>2. Recovered(d) \in [Cmds -> OutboxStates]
      BY DEF Recovered, RowsTyped, OutboxStates
    <3>3. outbox' \in [Cmds -> OutboxStates] /\ lapsed' \in SUBSET Cmds
      BY <1>8, <3>1, <3>2 DEF ClaimCommit, CommitRecovered, RowsTyped, OutboxStates
    <3>4. fencing' \in [Cmds -> Nat]
      BY <1>8, <3>1 DEF ClaimCommit, CommitRecovered, RowsTyped
    <3> QED BY <1>8, <3>3, <3>4 DEF ClaimCommit, RowsTyped
  <2>2. LoopsTyped'
    <3>1. cur[d] \in Cmds /\ fencing[cur[d]] + 1 \in Nat
      BY <1>8 DEF ClaimCommit, WorkOK, Working, RowsTyped
    <3>2. CASE OutboxSeenBy(d, cur[d]) = "PENDING" /\ fencing[cur[d]] = token[d]
      BY <1>8, <3>1, <3>2 DEF ClaimCommit, LoopsTyped, Steps
    <3>3. CASE ~(OutboxSeenBy(d, cur[d]) = "PENDING" /\ fencing[cur[d]] = token[d])
      BY <1>8, <3>3 DEF ClaimCommit, CommitRecovered, LeaveProcess, LoopsTyped, Steps, Tags
    <3> QED BY <3>2, <3>3
  <2>3. WorldTyped'
    BY <1>8 DEF ClaimCommit, WorldTyped
  <2> QED BY <2>1, <2>2, <2>3
<1>9. ASSUME NEW d \in Dispatchers, DispatchOpen(d) PROVE TypeOK'
  <2>1. RowsTyped'
    BY <1>9 DEF DispatchOpen, RowsTyped, OutboxStates
  <2>2. LoopsTyped'
    BY <1>9 DEF DispatchOpen, LoopsTyped, LeaveProcess, Steps, Tags
  <2>3. WorldTyped'
    BY <1>9 DEF DispatchOpen, WorldTyped
  <2> QED BY <2>1, <2>2, <2>3
<1>10. ASSUME NEW d \in Dispatchers, Publish(d) PROVE TypeOK'
  <2>1. RowsTyped'
    BY <1>10 DEF Publish, RowsTyped
  <2>2. LoopsTyped'
    BY <1>10 DEF Publish, LoopsTyped, Steps, Tags
  <2>3. WorldTyped'
    BY <1>10 DEF Publish, WorldTyped, LoopsTyped, Tags, WorkOK, Working
  <2> QED BY <2>1, <2>2, <2>3
<1>11. ASSUME NEW d \in Dispatchers, DispatchCommit(d) PROVE TypeOK'
  <2>1. RowsTyped'
    <3>1. CASE status[cur[d]] = "QUEUED" /\ HasLease(d)
      <4>1. [status |-> "DISPATCHED", tag |-> tag[d], token |-> token[d], rejected |-> FALSE] \in Attempts
        BY DEF LoopsTyped, Attempts, Statuses, InFlight
      <4>2. attempt' \in [Cmds -> Attempts]
        BY <1>11, <3>1, <4>1 DEF DispatchCommit, RowsTyped
      <4>3. status' \in [Cmds -> Statuses] /\ finalReason' \in [Cmds -> Reasons]
        BY <1>11, <3>1 DEF DispatchCommit, RowsTyped, Statuses, InFlight, Reasons
      <4>4. outbox' \in [Cmds -> OutboxStates] /\ lapsed' \in SUBSET Cmds
        BY <1>11, <3>1 DEF DispatchCommit, RowsTyped, OutboxStates
      <4> QED BY <1>11, <4>2, <4>3, <4>4 DEF DispatchCommit, RowsTyped
    <3>2. CASE ~(status[cur[d]] = "QUEUED" /\ HasLease(d))
      BY <1>11, <3>2 DEF DispatchCommit, RowsTyped
    <3> QED BY <3>1, <3>2
  <2>2. LoopsTyped'
    BY <1>11 DEF DispatchCommit, LoopsTyped, LeaveProcess, Steps, Tags
  <2>3. WorldTyped'
    BY <1>11 DEF DispatchCommit, WorldTyped
  <2> QED BY <2>1, <2>2, <2>3
<1>12. ASSUME NEW d \in Dispatchers, RecordRejection(d) PROVE TypeOK'
  <2>1. finalReason' \in [Cmds -> Reasons]
    BY <1>12 DEF RecordRejection, RowsTyped, Reasons
  <2>2. attempt' \in [Cmds -> Attempts]
    <3>1. CASE attempt' = [attempt EXCEPT ![cur[d]].rejected = TRUE]
      <4>1. \A a \in Attempts : [a EXCEPT !.rejected = TRUE] \in Attempts
        BY DEF Attempts
      <4> QED BY <3>1, <4>1 DEF RowsTyped
    <3>2. CASE attempt' = attempt
      BY <3>2 DEF RowsTyped
    <3> QED BY <1>12, <3>1, <3>2 DEF RecordRejection
  <2>3. RowsTyped'
    BY <1>12, <2>1, <2>2 DEF RecordRejection, RowsTyped
  <2>4. LoopsTyped'
    BY <1>12 DEF RecordRejection, LoopsTyped, LeaveProcess, Steps, Tags
  <2>5. WorldTyped'
    BY <1>12 DEF RecordRejection, WorldTyped
  <2> QED BY <2>3, <2>4, <2>5
<1>13. ASSUME NEW d \in Dispatchers, Refuse(d) PROVE TypeOK'
  <2>1. RowsTyped'
    BY <1>13 DEF Refuse, RowsTyped
  <2>2. LoopsTyped'
    BY <1>13 DEF Refuse, LoopsTyped, Steps
  <2>3. WorldTyped'
    BY <1>13, EnvironmentAssumption DEF Refuse, WorldTyped
  <2> QED BY <2>1, <2>2, <2>3
<1>14. ASSUME NEW d \in Dispatchers, RecoverSelect(d) PROVE TypeOK'
  <2>1. RowsTyped'
    BY <1>14 DEF RecoverSelect, RowsTyped
  <2>2. LoopsTyped'
    BY <1>14 DEF RecoverSelect, LoopsTyped, RowsTyped, OverdueQueued, Steps
  <2>3. WorldTyped'
    BY <1>14 DEF RecoverSelect, WorldTyped
  <2> QED BY <2>1, <2>2, <2>3
<1>15. ASSUME NEW d \in Dispatchers, RecoverQueued(d) PROVE TypeOK'
  <2>1. RowsTyped'
    BY <1>15 DEF RecoverQueued, RowsTyped
  <2>2. LoopsTyped'
    BY <1>15 DEF RecoverQueued, LoopsTyped, RowsTyped, StillQueued, OverdueInFlight, Steps
  <2>3. WorldTyped'
    BY <1>15 DEF RecoverQueued, WorldTyped
  <2> QED BY <2>1, <2>2, <2>3
<1>16. ASSUME NEW d \in Dispatchers, RecoverCommit(d) PROVE TypeOK'
  <2>1. RowsTyped'
    <3>1. status' \in [Cmds -> Statuses]
      BY <1>16 DEF RecoverCommit, RowsTyped, Statuses, Terminal
    <3>2. finalReason' \in [Cmds -> Reasons]
      BY <1>16 DEF RecoverCommit, RowsTyped, Reasons
    <3>3. outbox' \in [Cmds -> OutboxStates] /\ lapsed' \in SUBSET Cmds
      BY <1>16 DEF RecoverCommit, Recovered, RowsTyped, OutboxStates
    <3>4. attempt' \in [Cmds -> Attempts]
      <4>1. \A c \in Cmds : [attempt[c] EXCEPT !.status = "UNKNOWN"] \in Attempts
        BY DEF RowsTyped, Attempts, Statuses, Terminal
      <4> QED BY <1>16, <4>1 DEF RecoverCommit, RowsTyped
    <3> QED BY <1>16, <3>1, <3>2, <3>3, <3>4 DEF RecoverCommit, RowsTyped
  <2>2. LoopsTyped'
    BY <1>16 DEF RecoverCommit, LoopsTyped, Steps
  <2>3. WorldTyped'
    BY <1>16 DEF RecoverCommit, WorldTyped, Statuses, Terminal
  <2> QED BY <2>1, <2>2, <2>3
<1>17. ASSUME NEW d \in Dispatchers, DeadlockAbort(d) PROVE TypeOK'
  <2>1. RowsTyped'
    BY <1>17 DEF DeadlockAbort, RowsTyped
  <2>2. LoopsTyped'
    BY <1>17 DEF DeadlockAbort, LoopsTyped, ForgetWork, Steps, Tags
  <2>3. WorldTyped'
    BY <1>17 DEF DeadlockAbort, WorldTyped
  <2> QED BY <2>1, <2>2, <2>3
<1>18. ASSUME NEW d \in Dispatchers, Crash(d) PROVE TypeOK'
  <2>1. RowsTyped'
    BY <1>18 DEF Crash, RowsTyped
  <2>2. LoopsTyped'
    BY <1>18 DEF Crash, LoopsTyped, ForgetWork, Steps, Tags
  <2>3. WorldTyped'
    BY <1>18, EnvironmentAssumption DEF Crash, WorldTyped
  <2> QED BY <2>1, <2>2, <2>3
<1>19. ASSUME NEW h \in Handlers, NEW e \in Events, InboxRead(h, e) PROVE TypeOK'
  <2>1. RowsTyped'
    BY <1>19 DEF InboxRead, RowsTyped
  <2>2. LoopsTyped'
    BY <1>19 DEF InboxRead, LoopsTyped, workVars
  <2>3. WorldTyped'
    BY <1>19 DEF InboxRead, WorldTyped, RowsTyped, Work, Events
  <2> QED BY <2>1, <2>2, <2>3
<1>20. ASSUME NEW h \in Handlers, InboxApply(h) PROVE TypeOK'
  <2>1. RowsTyped'
    <3> DEFINE e  == handler[h].ev
               to == StatusOfEvent(e.type)
    <3>1. e \in Events /\ to \in Statuses
      BY <1>20 DEF InboxApply, HandlerOK, Events, AllEventTypes, StatusOfEvent, Statuses, Terminal, InFlight
    <3> HIDE DEF e, to
    <3>2. CASE status[e.cmd] = handler[h].seen
      <4>1. /\ status' = [status EXCEPT ![e.cmd] = to]
            /\ finalReason' = [finalReason EXCEPT ![e.cmd] = IF IsTerminal(to) THEN "final" ELSE @]
            /\ attempt' = [attempt EXCEPT ![e.cmd].status = to]
        BY <1>20, <3>2 DEF InboxApply, e, to
      <4>2. status' \in [Cmds -> Statuses] /\ finalReason' \in [Cmds -> Reasons]
        BY <3>1, <4>1 DEF RowsTyped, Reasons
      <4>3. attempt' \in [Cmds -> Attempts]
        BY <3>1, <4>1 DEF RowsTyped, Attempts
      <4> QED BY <1>20, <4>2, <4>3 DEF InboxApply, RowsTyped
    <3>3. CASE status[e.cmd] # handler[h].seen
      BY <1>20, <3>3 DEF InboxApply, RowsTyped, e
    <3> QED BY <3>2, <3>3
  <2>2. LoopsTyped'
    BY <1>20 DEF InboxApply, LoopsTyped, workVars
  <2>3. WorldTyped'
    BY <1>20 DEF InboxApply, WorldTyped, HandlerOK, SideEffect, Work, NoWork, Statuses
  <2> QED BY <2>1, <2>2, <2>3
<1>21. ASSUME NEW h \in Handlers, FinalizerFails(h) PROVE TypeOK'
  <2>1. RowsTyped'
    BY <1>21 DEF FinalizerFails, RowsTyped
  <2>2. LoopsTyped'
    BY <1>21 DEF FinalizerFails, LoopsTyped, workVars
  <2>3. WorldTyped'
    <3> DEFINE e    == handler[h].ev
               fail == [e EXCEPT !.type = "final_failed"]
    <3>1. e \in Events
      BY <1>21 DEF FinalizerFails, HandlerOK
    <3>2. fail \in Events /\ e.cmd \in Cmds
      BY <3>1 DEF Events, AllEventTypes
    <3>3. status[e.cmd] \in Statuses
      BY <3>2 DEF RowsTyped
    <3>4. [ev |-> fail, seen |-> status[e.cmd]] \in Work /\ NoWork \in Work
      BY <3>2, <3>3, EnvironmentAssumption DEF Work, NoWork, Statuses
    <3>5. inbox' \subseteq inbox \cup {fail}
      BY <1>21 DEF FinalizerFails
    <3>6. \A g \in Handlers : handler'[g] = handler[g] \/ handler'[g] = NoWork
                               \/ handler'[g] = [ev |-> fail, seen |-> status[e.cmd]]
      BY <1>21 DEF FinalizerFails, WorldTyped
    <3>7. DOMAIN handler' = Handlers /\ handler' = [g \in Handlers |-> handler'[g]]
      BY <1>21 DEF FinalizerFails, WorldTyped
    <3> HIDE DEF e, fail
    <3>8. handler' \in [Handlers -> Work]
      BY <3>4, <3>6, <3>7 DEF WorldTyped
    <3>9. faults' \in 0..MaxFaults
      BY <1>21, EnvironmentAssumption DEF FinalizerFails, WorldTyped
    <3>10. inbox' \in SUBSET Events
      BY <3>2, <3>5 DEF WorldTyped
    <3>11. UNCHANGED <<configured, wire, requestId, broadcast>>
      BY <1>21 DEF FinalizerFails
    <3> QED BY <3>8, <3>9, <3>10, <3>11 DEF WorldTyped
  <2> QED BY <2>1, <2>2, <2>3
<1>22. ASSUME NEW h \in Handlers, HandlerFails(h) PROVE TypeOK'
  <2>1. RowsTyped'
    BY <1>22 DEF HandlerFails, RowsTyped
  <2>2. LoopsTyped'
    BY <1>22 DEF HandlerFails, LoopsTyped, workVars
  <2>3. WorldTyped'
    BY <1>22, EnvironmentAssumption DEF HandlerFails, WorldTyped, Work, NoWork, Statuses
  <2> QED BY <2>1, <2>2, <2>3
<1>23. CASE UNCHANGED vars
  BY <1>23 DEF vars, workVars, RowsTyped, LoopsTyped, WorldTyped
<1> QED
  BY <1>1, <1>2, <1>3, <1>4, <1>5, <1>6, <1>7, <1>8, <1>9, <1>10, <1>11, <1>12, <1>13, <1>14, <1>15,
     <1>16, <1>17, <1>18, <1>19, <1>20, <1>21, <1>22, <1>23 DEF Next, Loop, ProcessOnce, RecoverExpired

\* A loop's uncommitted work begins and ends with the transaction it belongs to:
\* commit, rollback, deadlock abort and crash all clear it.
LEMMA WorkStep ==
    ASSUME TypeOK, WorkOK, [Next]_vars
    PROVE  WorkOK'
<1> USE DEF TypeOK, LoopsTyped, Working
<1>1. CASE UNCHANGED workVars
  BY <1>1 DEF workVars, WorkOK
<1>2. ASSUME NEW d \in Dispatchers, ClaimSelect(d) PROVE WorkOK'
  BY <1>2 DEF ClaimSelect, Candidates, LeaveProcess, WorkOK
<1>3. ASSUME NEW d \in Dispatchers, ClaimLock(d) PROVE WorkOK'
  BY <1>3 DEF ClaimLock, CommitRecovered, LeaveProcess, WorkOK
<1>4. ASSUME NEW d \in Dispatchers, ClaimCommit(d) PROVE WorkOK'
  BY <1>4 DEF ClaimCommit, CommitRecovered, LeaveProcess, WorkOK
<1>5. ASSUME NEW d \in Dispatchers, DispatchOpen(d) PROVE WorkOK'
  BY <1>5 DEF DispatchOpen, LeaveProcess, WorkOK
<1>6. ASSUME NEW d \in Dispatchers, Publish(d) PROVE WorkOK'
  BY <1>6 DEF Publish, WorkOK
<1>7. ASSUME NEW d \in Dispatchers, Refuse(d) PROVE WorkOK'
  BY <1>7 DEF Refuse, WorkOK
<1>8. ASSUME NEW d \in Dispatchers, DispatchCommit(d) PROVE WorkOK'
  BY <1>8 DEF DispatchCommit, LeaveProcess, WorkOK
<1>9. ASSUME NEW d \in Dispatchers, RecordRejection(d) PROVE WorkOK'
  BY <1>9 DEF RecordRejection, LeaveProcess, WorkOK
<1>10. ASSUME NEW d \in Dispatchers, RecoverSelect(d) PROVE WorkOK'
  BY <1>10 DEF RecoverSelect, WorkOK
<1>11. ASSUME NEW d \in Dispatchers, RecoverQueued(d) PROVE WorkOK'
  BY <1>11 DEF RecoverQueued, StillQueued, WorkOK
<1>12. ASSUME NEW d \in Dispatchers, RecoverCommit(d) PROVE WorkOK'
  BY <1>12 DEF RecoverCommit, WorkOK
<1>13. ASSUME NEW d \in Dispatchers, DeadlockAbort(d) PROVE WorkOK'
  BY <1>13 DEF DeadlockAbort, ForgetWork, WorkOK
<1>14. ASSUME NEW d \in Dispatchers, Crash(d) PROVE WorkOK'
  BY <1>14 DEF Crash, ForgetWork, WorkOK
<1> QED
  BY <1>1, <1>2, <1>3, <1>4, <1>5, <1>6, <1>7, <1>8, <1>9, <1>10, <1>11, <1>12, <1>13, <1>14
  DEF Next, Loop, ProcessOnce, RecoverExpired, vars, workVars, Create, Cancel, LeaseExpires, DeadlinePasses,
      ResolveUnknown, InboxRead, InboxApply, FinalizerFails, HandlerFails

\* Steps that only release row locks of executions, or leave them alone.
LEMMA ExecLocksKept ==
    ASSUME ExecLocksOK,
           \A e \in Dispatchers, c \in Cmds :
               HoldsExec(e, c)' => HoldsExec(e, c) /\ status'[c] = status[c]
    PROVE  ExecLocksOK'
  BY DEF ExecLocksOK

\* Dispatch (SELECT ... FOR UPDATE) and RecoverExpired (guarded UPDATE) take an
\* execution's row only when it is free and QUEUED, and nobody else writes it then.
LEMMA ExecLocksStep ==
    ASSUME TypeOK, WorkOK, ExecLocksOK, [Next]_vars
    PROVE  ExecLocksOK'
<1> DEFINE Kept == \A e \in Dispatchers, c \in Cmds :
                      HoldsExec(e, c)' => HoldsExec(e, c) /\ status'[c] = status[c]
<1> USE DEF TypeOK, LoopsTyped
<1>1. CASE UNCHANGED <<step, cur, failed, status>>
  <2>1. Kept  BY <1>1 DEF HoldsExec
  <2> QED BY <2>1, ExecLocksKept
<1>2. ASSUME NEW c \in Cmds, Create(c) PROVE ExecLocksOK'
  BY <1>2 DEF Create, ExecLocksOK, HoldsExec, RowsTyped, workVars
<1>3. ASSUME NEW c \in Cmds, Cancel(c) PROVE ExecLocksOK'
  BY <1>3 DEF Cancel, Unlocked, ExecLocksOK, HoldsExec, RowsTyped, workVars
<1>4. ASSUME NEW d \in Dispatchers, ClaimSelect(d) PROVE ExecLocksOK'
  <2>1. failed' = failed /\ status' = status
    BY <1>4 DEF ClaimSelect, LeaveProcess
  <2>2. \A e \in Dispatchers \ {d} : step'[e] = step[e] /\ cur'[e] = cur[e]
    BY <1>4 DEF ClaimSelect, LeaveProcess
  <2>3. step'[d] \in {"recover", "selected"}
    BY <1>4 DEF ClaimSelect, LeaveProcess
  <2>4. Kept  BY <2>1, <2>2, <2>3 DEF HoldsExec
  <2> QED BY <2>4, ExecLocksKept
<1>5. ASSUME NEW d \in Dispatchers, ClaimLock(d) \/ ClaimCommit(d) \/ RecordRejection(d) PROVE ExecLocksOK'
  <2>1. failed' = failed /\ status' = status
    BY <1>5 DEF ClaimLock, ClaimCommit, CommitRecovered, RecordRejection, LeaveProcess
  <2>2. \A e \in Dispatchers \ {d} : step'[e] = step[e] /\ cur'[e] = cur[e]
    BY <1>5 DEF ClaimLock, ClaimCommit, CommitRecovered, RecordRejection, LeaveProcess
  <2>3. step'[d] \in {"recover", "locked", "claimed", "rejected"}
    BY <1>5 DEF ClaimLock, ClaimCommit, CommitRecovered, RecordRejection, LeaveProcess
  <2>4. Kept  BY <2>1, <2>2, <2>3 DEF HoldsExec
  <2> QED BY <2>4, ExecLocksKept
<1>6. ASSUME NEW d \in Dispatchers, DispatchOpen(d) PROVE ExecLocksOK'
  <2>1. failed' = failed /\ status' = status
    BY <1>6 DEF DispatchOpen, LeaveProcess
  <2>2. \A e \in Dispatchers \ {d} : step'[e] = step[e] /\ cur'[e] = cur[e]
    BY <1>6 DEF DispatchOpen, LeaveProcess
  <2>3. CASE status[cur[d]] = "QUEUED"
    <3>1. step'[d] = "attempting" /\ cur'[d] = cur[d]
      BY <1>6, <2>3 DEF DispatchOpen
    <3>2. \A e \in Dispatchers \ {d} : ~HoldsExec(e, cur[d])
      BY <1>6 DEF DispatchOpen, ExecFree
    <3> QED BY <2>1, <2>2, <2>3, <3>1, <3>2 DEF HoldsExec, ExecLocksOK
  <2>4. CASE status[cur[d]] # "QUEUED"
    <3>1. step'[d] \in {"recover", "refused"}
      BY <1>6, <2>4 DEF DispatchOpen, LeaveProcess
    <3>2. Kept  BY <2>1, <2>2, <3>1 DEF HoldsExec
    <3> QED BY <3>2, ExecLocksKept
  <2> QED BY <2>3, <2>4
<1>7. ASSUME NEW d \in Dispatchers, Publish(d) \/ Refuse(d) PROVE ExecLocksOK'
  <2>1. failed' = failed /\ status' = status /\ cur' = cur
    BY <1>7 DEF Publish, Refuse
  <2>2. \A e \in Dispatchers \ {d} : step'[e] = step[e]
    BY <1>7 DEF Publish, Refuse
  <2>3. step[d] \in {"attempting", "published"} /\ step'[d] \in {"published", "refused"}
    BY <1>7 DEF Publish, Refuse
  <2>4. Kept  BY <2>1, <2>2, <2>3 DEF HoldsExec
  <2> QED BY <2>4, ExecLocksKept
<1>8. ASSUME NEW d \in Dispatchers, DispatchCommit(d) PROVE ExecLocksOK'
  <2>1. failed' = failed
    BY <1>8 DEF DispatchCommit, LeaveProcess
  <2>2. \A e \in Dispatchers \ {d} : step'[e] = step[e] /\ cur'[e] = cur[e]
    BY <1>8 DEF DispatchCommit, LeaveProcess
  <2>3. HoldsExec(d, cur[d]) /\ step'[d] \in {"recover", "refused"} /\ failed[d] = {}
    BY <1>8 DEF DispatchCommit, LeaveProcess, HoldsExec, WorkOK
  <2>4. \A c \in Cmds : c # cur[d] => status'[c] = status[c]
    BY <1>8 DEF DispatchCommit, RowsTyped
  <2>5. \A e \in Dispatchers, c \in Cmds : HoldsExec(e, c)' => e # d /\ HoldsExec(e, c)
    BY <2>1, <2>2, <2>3 DEF HoldsExec
  <2>6. Kept  BY <2>3, <2>4, <2>5 DEF ExecLocksOK
  <2> QED BY <2>6, ExecLocksKept
<1>9. ASSUME NEW d \in Dispatchers, RecoverSelect(d) PROVE ExecLocksOK'
  BY <1>9 DEF RecoverSelect, HoldsExec, ExecLocksOK
<1>10. ASSUME NEW d \in Dispatchers, RecoverQueued(d) PROVE ExecLocksOK'
  BY <1>10 DEF RecoverQueued, StillQueued, ExecFree, HoldsExec, ExecLocksOK
<1>11. ASSUME NEW d \in Dispatchers, RecoverCommit(d) PROVE ExecLocksOK'
  <2>1. \A e \in Dispatchers \ {d} : step'[e] = step[e] /\ cur'[e] = cur[e] /\ failed'[e] = failed[e]
    BY <1>11 DEF RecoverCommit
  <2>2. step'[d] = "idle" /\ failed'[d] = {}
    BY <1>11 DEF RecoverCommit
  <2>3. \A e \in Dispatchers, c \in Cmds : HoldsExec(e, c)' => e # d /\ HoldsExec(e, c)
    BY <2>1, <2>2 DEF HoldsExec
  <2>4. \A c \in failed[d] : HoldsExec(d, c)
    BY DEF HoldsExec
  <2>5. \A e \in Dispatchers, c \in Cmds : e # d /\ HoldsExec(e, c) => c \notin failed[d] /\ status[c] = "QUEUED"
    BY <2>4 DEF ExecLocksOK
  <2>6. \A c \in Cmds : c \notin failed[d] /\ status[c] = "QUEUED" => status'[c] = status[c]
    BY <1>11 DEF RecoverCommit, StillInFlight, InFlight
  <2>7. Kept  BY <2>3, <2>5, <2>6
  <2> QED BY <2>7, ExecLocksKept
<1>12. ASSUME NEW d \in Dispatchers, DeadlockAbort(d) PROVE ExecLocksOK'
  BY <1>12 DEF DeadlockAbort, ForgetWork, HoldsExec, ExecLocksOK
<1>13. ASSUME NEW d \in Dispatchers, Crash(d) PROVE ExecLocksOK'
  BY <1>13 DEF Crash, ForgetWork, HoldsExec, ExecLocksOK
<1>14. ASSUME NEW h \in Handlers, InboxApply(h) PROVE ExecLocksOK'
  <2>1. step' = step /\ cur' = cur /\ failed' = failed
    BY <1>14 DEF InboxApply, workVars
  <2>2. \A c \in Cmds : c = handler[h].ev.cmd \/ status'[c] = status[c]
    BY <1>14 DEF InboxApply, RowsTyped
  <2>3. \A e \in Dispatchers : ~HoldsExec(e, handler[h].ev.cmd)
    BY <1>14 DEF InboxApply, Unlocked
  <2>4. Kept  BY <2>1, <2>2, <2>3 DEF HoldsExec
  <2> QED BY <2>4, ExecLocksKept
<1> QED
  BY <1>1, <1>2, <1>3, <1>4, <1>5, <1>6, <1>7, <1>8, <1>9, <1>10, <1>11, <1>12, <1>13, <1>14
  DEF Next, Loop, ProcessOnce, RecoverExpired, vars, workVars, LeaseExpires, DeadlinePasses, ResolveUnknown,
      InboxRead, FinalizerFails, HandlerFails

\* Steps that only release row locks of the outbox, or leave them alone.
LEMMA OutboxLocksKept ==
    ASSUME OutboxLocksOK,
           \A e \in Dispatchers, c \in Cmds : HoldsOutbox(e, c)' => HoldsOutbox(e, c),
           \A e \in Dispatchers : \A c \in held'[e] : outbox'[c] = "LEASED",
           \A c \in lapsed' : outbox'[c] = "LEASED"
    PROVE  OutboxLocksOK'
  BY DEF OutboxLocksOK

\* A lease being taken back is locked by one transaction, and stays LEASED until
\* that transaction ends.
LEMMA OutboxLocksStep ==
    ASSUME TypeOK, WorkOK, OutboxLocksOK, PresenceOK, [Next]_vars
    PROVE  OutboxLocksOK'
<1> DEFINE Kept == \A e \in Dispatchers, c \in Cmds : HoldsOutbox(e, c)' => HoldsOutbox(e, c)
<1> USE DEF TypeOK, LoopsTyped
<1>1. CASE UNCHANGED <<step, held, queued, outbox, lapsed>>
  <2>1. Kept  BY <1>1 DEF HoldsOutbox
  <2> QED BY <1>1, <2>1 DEF OutboxLocksOK
<1>2. ASSUME NEW c \in Cmds, Create(c) \/ Cancel(c) \/ LeaseExpires(c) PROVE OutboxLocksOK'
  <2>1. step' = step /\ held' = held /\ queued' = queued
    BY <1>2 DEF Create, Cancel, LeaseExpires, workVars
  <2>2. \A x \in Cmds : outbox[x] = "LEASED" => outbox'[x] = "LEASED"
    BY <1>2 DEF Create, Cancel, LeaseExpires, RowsTyped, PresenceOK
  <2>3. \A x \in lapsed' : x \in lapsed \/ outbox[x] = "LEASED"
    BY <1>2 DEF Create, Cancel, LeaseExpires
  <2>4. Kept  BY <2>1 DEF HoldsOutbox
  <2>5. \A e \in Dispatchers : \A x \in held'[e] : outbox'[x] = "LEASED"
    BY <2>1, <2>2 DEF OutboxLocksOK
  <2>6. lapsed' \subseteq Cmds
    BY <1>2 DEF Create, Cancel, LeaseExpires, RowsTyped
  <2>7. \A x \in lapsed' : outbox'[x] = "LEASED"
    BY <2>2, <2>3, <2>6 DEF OutboxLocksOK
  <2> QED BY <2>4, <2>5, <2>7, OutboxLocksKept
<1>3. ASSUME NEW d \in Dispatchers, ClaimSelect(d) PROVE OutboxLocksOK'
  <2>1. queued' = queued /\ \A e \in Dispatchers \ {d} : step'[e] = step[e] /\ held'[e] = held[e]
    BY <1>3 DEF ClaimSelect, LeaveProcess
  <2>2. \A e \in Dispatchers \ {d} : \A c \in lapsed : ~HoldsOutbox(e, c)
    BY <1>3 DEF ClaimSelect, OutboxFree
  <2>3. step'[d] \in {"recover", "selected"}
    BY <1>3 DEF ClaimSelect, LeaveProcess
  <2>4. CASE Candidates(lapsed) = {}
    <3>1. held'[d] = {} /\ lapsed' = {}
      BY <1>3, <2>4 DEF ClaimSelect, LeaveProcess
    <3>2. Kept  BY <2>1, <2>3, <3>1 DEF HoldsOutbox
    <3>3. \A c \in Cmds : c \notin lapsed => outbox'[c] = outbox[c]
      BY <1>3, <2>4 DEF ClaimSelect, RowsTyped
    <3>4. \A e \in Dispatchers : \A c \in held'[e] : outbox'[c] = "LEASED"
      BY <2>1, <2>2, <3>1, <3>3 DEF OutboxLocksOK, HoldsOutbox
    <3> QED BY <3>1, <3>2, <3>4, OutboxLocksKept
  <2>5. CASE Candidates(lapsed) # {}
    <3>1. held'[d] = lapsed /\ lapsed' = lapsed /\ outbox' = outbox
      BY <1>3, <2>5 DEF ClaimSelect
    <3>2. \A c \in Cmds : HoldsOutbox(d, c)' <=> c \in lapsed
      BY <2>3, <3>1 DEF HoldsOutbox
    <3>3. \A e \in Dispatchers \ {d}, c \in Cmds : HoldsOutbox(e, c)' <=> HoldsOutbox(e, c)
      BY <2>1 DEF HoldsOutbox
    <3>4. \A e \in Dispatchers : \A c \in held'[e] : outbox'[c] = "LEASED"
      BY <2>1, <3>1 DEF OutboxLocksOK
    <3> QED BY <2>2, <3>1, <3>2, <3>3, <3>4 DEF OutboxLocksOK
  <2> QED BY <2>4, <2>5
<1>4. ASSUME NEW d \in Dispatchers, CommitRecovered(d) PROVE OutboxLocksOK'
  <2>1. queued' = queued /\ \A e \in Dispatchers \ {d} : step'[e] = step[e] /\ held'[e] = held[e]
    BY <1>4 DEF CommitRecovered, LeaveProcess
  <2>2. held'[d] = {} /\ step'[d] = "recover"
    BY <1>4 DEF CommitRecovered, LeaveProcess
  <2>3. Kept  BY <2>1, <2>2 DEF HoldsOutbox
  <2>4. \A c \in Cmds : c \notin held[d] => outbox'[c] = outbox[c]
    BY <1>4 DEF CommitRecovered, Recovered
  <2>5. \A e \in Dispatchers : \A c \in held'[e] : c \in Cmds /\ c \notin held[d] /\ c \in held[e]
    BY <2>1, <2>2 DEF OutboxLocksOK, HoldsOutbox
  <2>6. \A c \in lapsed' : c \in Cmds /\ c \notin held[d] /\ c \in lapsed
    BY <1>4 DEF CommitRecovered, RowsTyped
  <2>7. \A e \in Dispatchers : \A c \in held'[e] : outbox'[c] = "LEASED"
    BY <2>4, <2>5 DEF OutboxLocksOK
  <2>8. \A c \in lapsed' : outbox'[c] = "LEASED"
    BY <2>4, <2>6 DEF OutboxLocksOK
  <2> QED BY <2>3, <2>7, <2>8, OutboxLocksKept
<1>5. ASSUME NEW d \in Dispatchers, ClaimLock(d) PROVE OutboxLocksOK'
  <2>1. CASE LeasedBeside(cur[d], held[d])
    BY <1>4, <1>5, <2>1 DEF ClaimLock
  <2>2. CASE ~LeasedBeside(cur[d], held[d])
    <3>1. held' = held /\ queued' = queued /\ outbox' = outbox /\ lapsed' = lapsed
      BY <1>5, <2>2 DEF ClaimLock
    <3>2. step' = [step EXCEPT ![d] = "locked"]
      BY <1>5, <2>2 DEF ClaimLock
    <3>3. Kept  BY <3>1, <3>2 DEF HoldsOutbox
    <3> QED BY <3>1, <3>3 DEF OutboxLocksOK
  <2> QED BY <2>1, <2>2
<1>6. ASSUME NEW d \in Dispatchers, ClaimCommit(d) PROVE OutboxLocksOK'
  <2>1. CASE ~(OutboxSeenBy(d, cur[d]) = "PENDING" /\ fencing[cur[d]] = token[d])
    BY <1>4, <1>6, <2>1 DEF ClaimCommit
  <2>2. CASE OutboxSeenBy(d, cur[d]) = "PENDING" /\ fencing[cur[d]] = token[d]
    <3>1. queued' = queued /\ \A e \in Dispatchers \ {d} : step'[e] = step[e] /\ held'[e] = held[e]
      BY <1>6, <2>2 DEF ClaimCommit
    <3>2. held'[d] = {} /\ step'[d] = "claimed" /\ cur[d] \in Cmds
      BY <1>6, <2>2 DEF ClaimCommit, WorkOK, Working
    <3>3. Kept  BY <3>1, <3>2 DEF HoldsOutbox
    <3>4. outbox' = [Recovered(d) EXCEPT ![cur[d]] = "LEASED"] /\ lapsed' = lapsed \ (held[d] \cup {cur[d]})
      BY <1>6, <2>2 DEF ClaimCommit
    <3>5. \A c \in Cmds : c \notin held[d] /\ outbox[c] = "LEASED" => outbox'[c] = "LEASED"
      BY <3>2, <3>4 DEF Recovered
    <3>6. \A e \in Dispatchers : \A c \in held'[e] : c \in Cmds /\ c \notin held[d] /\ c \in held[e]
      BY <3>1, <3>2 DEF OutboxLocksOK, HoldsOutbox
    <3>7. \A e \in Dispatchers : \A c \in held'[e] : outbox'[c] = "LEASED"
      BY <3>5, <3>6 DEF OutboxLocksOK
    <3>8. \A c \in lapsed' : outbox'[c] = "LEASED"
      BY <3>4, <3>5 DEF OutboxLocksOK, RowsTyped
    <3> QED BY <3>3, <3>7, <3>8, OutboxLocksKept
  <2> QED BY <2>1, <2>2
<1>7. ASSUME NEW d \in Dispatchers, DispatchOpen(d) \/ DispatchCommit(d) PROVE OutboxLocksOK'
  <2>1. queued' = queued /\ \A e \in Dispatchers \ {d} : step'[e] = step[e] /\ held'[e] = held[e]
    BY <1>7 DEF DispatchOpen, DispatchCommit, LeaveProcess
  <2>2. held[d] = {} /\ held'[d] = {} /\ step'[d] \in {"attempting", "refused", "recover"}
    BY <1>7 DEF DispatchOpen, DispatchCommit, LeaveProcess, WorkOK
  <2>3. Kept  BY <2>1, <2>2 DEF HoldsOutbox
  <2>4. CASE outbox' = outbox /\ lapsed' = lapsed
    <3>1. \A e \in Dispatchers : held'[e] \subseteq held[e]
      BY <2>1, <2>2
    <3> QED BY <2>3, <2>4, <3>1, OutboxLocksKept DEF OutboxLocksOK
  <2>5. CASE ~(outbox' = outbox /\ lapsed' = lapsed)
    <3>1. lapsed' = lapsed \ {cur[d]} /\ \A c \in Cmds \ {cur[d]} : outbox'[c] = outbox[c]
      BY <1>7, <2>5 DEF DispatchOpen, DispatchCommit, RowsTyped
    <3>2. \A e \in Dispatchers \ {d} : ~HoldsOutbox(e, cur[d])
      BY <1>7, <2>5 DEF DispatchOpen, DispatchCommit, OutboxFree
    <3>3. \A e \in Dispatchers : \A c \in held'[e] : c \in Cmds \ {cur[d]} /\ c \in held[e]
      BY <2>1, <2>2, <3>2 DEF HoldsOutbox
    <3>4. \A e \in Dispatchers : \A c \in held'[e] : outbox'[c] = "LEASED"
      BY <3>1, <3>3 DEF OutboxLocksOK
    <3>5. \A c \in lapsed' : outbox'[c] = "LEASED"
      BY <3>1 DEF OutboxLocksOK, RowsTyped
    <3> QED BY <2>3, <3>4, <3>5, OutboxLocksKept
  <2> QED BY <2>4, <2>5
<1>8. ASSUME NEW d \in Dispatchers, Publish(d) \/ Refuse(d) \/ RecordRejection(d) PROVE OutboxLocksOK'
  <2>1. queued' = queued /\ outbox' = outbox /\ lapsed' = lapsed
    BY <1>8 DEF Publish, Refuse, RecordRejection, LeaveProcess
  <2>2. \A e \in Dispatchers \ {d} : step'[e] = step[e] /\ held'[e] = held[e]
    BY <1>8 DEF Publish, Refuse, RecordRejection, LeaveProcess
  <2>3. held[d] = {} /\ held'[d] = {} /\ step'[d] \in {"published", "refused", "rejected", "recover"}
    BY <1>8 DEF Publish, Refuse, RecordRejection, LeaveProcess, WorkOK
  <2>4. Kept  BY <2>1, <2>2, <2>3 DEF HoldsOutbox
  <2>5. \A e \in Dispatchers : held'[e] = held[e]
    BY <2>2, <2>3
  <2> QED BY <2>1, <2>4, <2>5, OutboxLocksKept DEF OutboxLocksOK
<1>9. ASSUME NEW d \in Dispatchers, RecoverSelect(d) PROVE OutboxLocksOK'
  <2>1. held' = [held EXCEPT ![d] = lapsed] /\ step' = [step EXCEPT ![d] = "failing"]
    BY <1>9 DEF RecoverSelect
  <2>2. outbox' = outbox /\ lapsed' = lapsed /\ \A e \in Dispatchers \ {d} : queued'[e] = queued[e]
    BY <1>9 DEF RecoverSelect
  <2>3. \A c \in lapsed : \A e \in Dispatchers \ {d} : ~HoldsOutbox(e, c)
    BY <1>9 DEF RecoverSelect, OutboxFree
  <2>4. \A c \in Cmds : HoldsOutbox(d, c)' <=> c \in lapsed
    BY <2>1 DEF HoldsOutbox
  <2>5. \A e \in Dispatchers \ {d}, c \in Cmds : HoldsOutbox(e, c)' <=> HoldsOutbox(e, c)
    BY <2>1, <2>2 DEF HoldsOutbox
  <2>6. \A e \in Dispatchers : \A c \in held'[e] : outbox'[c] = "LEASED"
    BY <2>1, <2>2 DEF OutboxLocksOK
  <2> QED BY <2>2, <2>3, <2>4, <2>5, <2>6 DEF OutboxLocksOK
<1>10. ASSUME NEW d \in Dispatchers, RecoverQueued(d) PROVE OutboxLocksOK'
  <2>1. held' = held /\ queued' = queued /\ step' = [step EXCEPT ![d] = "closing"]
    BY <1>10 DEF RecoverQueued
  <2>2. outbox' = outbox /\ lapsed' = lapsed
    BY <1>10 DEF RecoverQueued
  <2>3. \A c \in queued[d] : \A e \in Dispatchers \ {d} : ~HoldsOutbox(e, c)
    BY <1>10 DEF RecoverQueued, OutboxFree
  <2>4. \A c \in Cmds : HoldsOutbox(d, c)' => HoldsOutbox(d, c) \/ c \in queued[d]
    BY <2>1 DEF HoldsOutbox
  <2>5. \A e \in Dispatchers \ {d}, c \in Cmds : HoldsOutbox(e, c)' <=> HoldsOutbox(e, c)
    BY <2>1 DEF HoldsOutbox
  <2> QED BY <2>1, <2>2, <2>3, <2>4, <2>5 DEF OutboxLocksOK
<1>11. ASSUME NEW d \in Dispatchers, RecoverCommit(d) PROVE OutboxLocksOK'
  <2>1. \A e \in Dispatchers \ {d} : step'[e] = step[e] /\ held'[e] = held[e] /\ queued'[e] = queued[e]
    BY <1>11 DEF RecoverCommit
  <2>2. held'[d] = {} /\ queued'[d] = {}
    BY <1>11 DEF RecoverCommit
  <2>3. Kept  BY <2>1, <2>2 DEF HoldsOutbox
  <2>4. \A c \in held[d] \cup queued[d] : HoldsOutbox(d, c)
    BY <1>11 DEF RecoverCommit, HoldsOutbox
  <2>5. \A c \in Cmds : c \notin held[d] \cup queued[d] => outbox'[c] = outbox[c]
    BY <1>11 DEF RecoverCommit, Recovered
  <2>6. \A e \in Dispatchers : \A c \in held'[e] : c \in held[e] /\ c \in Cmds \ (held[d] \cup queued[d])
    BY <2>1, <2>2, <2>4 DEF OutboxLocksOK, HoldsOutbox
  <2>7. \A e \in Dispatchers : \A c \in held'[e] : outbox'[c] = "LEASED"
    BY <2>5, <2>6 DEF OutboxLocksOK
  <2>8. \A c \in lapsed' : outbox'[c] = "LEASED"
    BY <1>11, <2>5 DEF RecoverCommit, OutboxLocksOK, RowsTyped
  <2> QED BY <2>3, <2>7, <2>8, OutboxLocksKept
<1>12. ASSUME NEW d \in Dispatchers, DeadlockAbort(d) \/ Crash(d) PROVE OutboxLocksOK'
  <2>1. outbox' = outbox /\ lapsed' = lapsed
    BY <1>12 DEF DeadlockAbort, Crash
  <2>2. \A e \in Dispatchers \ {d} : step'[e] = step[e] /\ held'[e] = held[e] /\ queued'[e] = queued[e]
    BY <1>12 DEF DeadlockAbort, Crash, ForgetWork
  <2>3. held'[d] = {} /\ queued'[d] = {}
    BY <1>12 DEF DeadlockAbort, Crash, ForgetWork
  <2>4. Kept  BY <2>2, <2>3 DEF HoldsOutbox
  <2>5. \A e \in Dispatchers : held'[e] \subseteq held[e]
    BY <2>2, <2>3
  <2> QED BY <2>1, <2>4, <2>5, OutboxLocksKept DEF OutboxLocksOK
<1> QED
  BY <1>1, <1>2, <1>3, <1>5, <1>6, <1>7, <1>8, <1>9, <1>10, <1>11, <1>12
  DEF Next, Loop, ProcessOnce, RecoverExpired, vars, workVars, DeadlinePasses, ResolveUnknown,
      InboxRead, InboxApply, FinalizerFails, HandlerFails

\* What a claim that leases nothing does to the outbox.
LEMMA CommitRecoveredOutbox ==
    ASSUME NEW d \in Dispatchers, CommitRecovered(d), TypeOK, OutboxLocksOK
    PROVE  \A c \in Cmds : outbox'[c] = outbox[c] \/ (outbox[c] = "LEASED" /\ outbox'[c] = "PENDING")
  BY DEF CommitRecovered, Recovered, OutboxLocksOK

\* No claim makes or deletes an outbox row, and only this claim's row becomes LEASED.
LEMMA ClaimOutbox ==
    ASSUME NEW d \in Dispatchers, TypeOK, WorkOK, OutboxLocksOK,
           ClaimSelect(d) \/ ClaimLock(d) \/ ClaimCommit(d)
    PROVE  \A c \in Cmds :
               \/ outbox'[c] = outbox[c]
               \/ outbox[c] = "LEASED" /\ outbox'[c] = "PENDING"
               \/ /\ outbox[c] \in {"LEASED", "PENDING"} /\ outbox'[c] = "LEASED"
                  /\ c = cur[d] /\ step[d] = "locked"
<1> USE DEF TypeOK, RowsTyped
<1>1. CASE ClaimSelect(d)
  <2>1. \A c \in lapsed : outbox[c] = "LEASED"
    BY DEF OutboxLocksOK
  <2>2. CASE Candidates(lapsed) = {}  BY <1>1, <2>1, <2>2 DEF ClaimSelect
  <2>3. CASE Candidates(lapsed) # {}  BY <1>1, <2>3 DEF ClaimSelect
  <2> QED BY <2>2, <2>3
<1>2. CASE ClaimLock(d)
  BY <1>2, CommitRecoveredOutbox DEF ClaimLock
<1>3. CASE ClaimCommit(d)
  <2>1. CASE ~(OutboxSeenBy(d, cur[d]) = "PENDING" /\ fencing[cur[d]] = token[d])
    BY <1>3, <2>1, CommitRecoveredOutbox DEF ClaimCommit
  <2>2. CASE OutboxSeenBy(d, cur[d]) = "PENDING" /\ fencing[cur[d]] = token[d]
    <3>1. cur[d] \in Cmds /\ step[d] = "locked"
      BY <1>3 DEF ClaimCommit, WorkOK, Working
    <3>2. outbox' = [Recovered(d) EXCEPT ![cur[d]] = "LEASED"]
      BY <1>3, <2>2 DEF ClaimCommit
    <3>3. outbox[cur[d]] \in {"LEASED", "PENDING"}
      BY <2>2 DEF OutboxSeenBy, OutboxLocksOK
    <3>4. \A c \in held[d] : outbox[c] = "LEASED"
      BY DEF OutboxLocksOK
    <3> QED BY <3>1, <3>2, <3>3, <3>4 DEF Recovered
  <2> QED BY <2>1, <2>2
<1> QED BY <1>1, <1>2, <1>3

\* No step makes an outbox row without its execution or removes one of the two.
LEMMA PresenceStep ==
    ASSUME TypeOK, WorkOK, ExecLocksOK, OutboxLocksOK, PresenceOK, HandlerOK, [Next]_vars
    PROVE  PresenceOK'
<1> USE DEF TypeOK, RowsTyped
<1>1. CASE UNCHANGED <<status, outbox>>
  BY <1>1 DEF PresenceOK
<1>2. ASSUME NEW c \in Cmds, Create(c) \/ Cancel(c) PROVE PresenceOK'
  BY <1>2 DEF Create, Cancel, PresenceOK
<1>3. ASSUME NEW d \in Dispatchers, ClaimSelect(d) \/ ClaimLock(d) \/ ClaimCommit(d) PROVE PresenceOK'
  <2>1. status' = status
    BY <1>3 DEF ClaimSelect, ClaimLock, ClaimCommit
  <2> QED BY <1>3, <2>1, ClaimOutbox DEF PresenceOK
<1>4. ASSUME NEW d \in Dispatchers, DispatchOpen(d) \/ DispatchCommit(d) PROVE PresenceOK'
  <2>1. CASE outbox' = outbox /\ status' = status  BY <2>1 DEF PresenceOK
  <2>2. CASE ~(outbox' = outbox /\ status' = status)
    BY <1>4, <2>2 DEF DispatchOpen, DispatchCommit, HasLease, PresenceOK
  <2> QED BY <2>1, <2>2
<1>5. ASSUME NEW d \in Dispatchers, RecoverCommit(d) PROVE PresenceOK'
  <2>1. \A c \in failed[d] : status[c] = "QUEUED"
    BY DEF ExecLocksOK, HoldsExec, LoopsTyped
  <2>2. \A c \in Cmds : status'[c] = status[c] \/ (status[c] # "ABSENT" /\ status'[c] # "ABSENT")
    <3> TAKE c \in Cmds
    <3>1. status'[c] = IF c \in failed[d] THEN "FAILED" ELSE IF c \in StillInFlight(d) THEN "UNKNOWN" ELSE status[c]
      BY <1>5 DEF RecoverCommit
    <3>2. c \in StillInFlight(d) => status[c] # "ABSENT"
      BY DEF StillInFlight, InFlight
    <3> QED BY <2>1, <3>1, <3>2
  <2>3. \A c \in Cmds : outbox'[c] = outbox[c] \/ (outbox[c] # "ABSENT" /\ outbox'[c] # "ABSENT")
    <3> TAKE c \in Cmds
    <3>1. Recovered(d)[c] = IF c \in held[d] THEN "PENDING" ELSE outbox[c]
      BY DEF Recovered
    <3>2. outbox'[c] = IF c \in queued[d] /\ Recovered(d)[c] \in {"PENDING", "LEASED"} THEN "CANCELLED"
                       ELSE Recovered(d)[c]
      BY <1>5 DEF RecoverCommit
    <3>3. c \in held[d] => outbox[c] = "LEASED"
      BY DEF OutboxLocksOK
    <3> QED BY <3>1, <3>2, <3>3
  <2> QED BY <2>2, <2>3 DEF PresenceOK
<1>6. ASSUME NEW h \in Handlers, InboxApply(h) PROVE PresenceOK'
  <2>1. validTransition(handler[h].seen, StatusOfEvent(handler[h].ev.type))
    BY <1>6 DEF InboxApply, HandlerOK
  <2>2. handler[h].seen # "ABSENT" /\ StatusOfEvent(handler[h].ev.type) # "ABSENT"
    BY <2>1 DEF validTransition
  <2>3. outbox' = outbox /\ (\A c \in Cmds : status'[c] = status[c] \/ (status[c] # "ABSENT" /\ status'[c] # "ABSENT"))
    <3>1. CASE status[handler[h].ev.cmd] = handler[h].seen
      <4>1. status' = [status EXCEPT ![handler[h].ev.cmd] = StatusOfEvent(handler[h].ev.type)]
        BY <1>6, <3>1 DEF InboxApply
      <4> QED BY <1>6, <2>2, <3>1, <4>1 DEF InboxApply
    <3>2. CASE status[handler[h].ev.cmd] # handler[h].seen
      BY <1>6, <3>2 DEF InboxApply
    <3> QED BY <3>1, <3>2
  <2> QED BY <2>3 DEF PresenceOK
<1> QED
  BY <1>1, <1>2, <1>3, <1>4, <1>5, <1>6
  DEF Next, Loop, ProcessOnce, RecoverExpired, vars, LeaseExpires, DeadlinePasses, ResolveUnknown, Publish,
      Refuse, RecordRejection, RecoverSelect, RecoverQueued, DeadlockAbort, Crash, InboxRead, FinalizerFails,
      HandlerFails

\* The Channel row lock and the second count of ProcessOnce keep a claim alone on
\* its channel until it commits: leases come into being on no other way.
LEMMA ChannelStep ==
    ASSUME TypeOK, WorkOK, OutboxLocksOK, PresenceOK, ChannelOK, [Next]_vars
    PROVE  ChannelOK'
<1> USE DEF TypeOK, LoopsTyped
<1>1. ASSUME UNCHANGED <<step, cur, held>>,
             \A c \in Cmds : outbox'[c] = "LEASED" => outbox[c] = "LEASED"
      PROVE  ChannelOK'
  BY <1>1 DEF ChannelOK, HoldsChannel
<1>2. ASSUME NEW d \in Dispatchers, step'[d] # "locked",
             \A e \in Dispatchers \ {d} : step'[e] = step[e] /\ cur'[e] = cur[e] /\ held'[e] = held[e],
             \A c \in Cmds : outbox'[c] = "LEASED" => outbox[c] = "LEASED"
      PROVE  ChannelOK'
  BY <1>2 DEF ChannelOK, HoldsChannel
<1>3. ASSUME NEW c \in Cmds, Create(c) \/ Cancel(c) PROVE ChannelOK'
  <2>1. UNCHANGED <<step, cur, held>>
    BY <1>3 DEF Create, Cancel, workVars
  <2>2. \A x \in Cmds : outbox'[x] = "LEASED" => outbox[x] = "LEASED"
    BY <1>3 DEF Create, Cancel, RowsTyped
  <2> QED BY <1>1, <2>1, <2>2
<1>4. ASSUME NEW d \in Dispatchers, ClaimSelect(d) PROVE ChannelOK'
  <2>1. /\ step'[d] # "locked"
        /\ \A e \in Dispatchers \ {d} : step'[e] = step[e] /\ cur'[e] = cur[e] /\ held'[e] = held[e]
    BY <1>4 DEF ClaimSelect, LeaveProcess
  <2>2. step[d] = "idle"
    BY <1>4 DEF ClaimSelect
  <2>3. \A c \in Cmds : outbox'[c] = "LEASED" => outbox[c] = "LEASED"
    BY <1>4, <2>2, ClaimOutbox
  <2> QED BY <1>2, <2>1, <2>3
<1>5. ASSUME NEW d \in Dispatchers, CommitRecovered(d) PROVE ChannelOK'
  <2>1. /\ step'[d] # "locked"
        /\ \A e \in Dispatchers \ {d} : step'[e] = step[e] /\ cur'[e] = cur[e] /\ held'[e] = held[e]
    BY <1>5 DEF CommitRecovered, LeaveProcess
  <2>2. \A c \in Cmds : outbox'[c] = "LEASED" => outbox[c] = "LEASED"
    BY <1>5, CommitRecoveredOutbox
  <2> QED BY <1>2, <2>1, <2>2
<1>6. ASSUME NEW d \in Dispatchers, ClaimLock(d) PROVE ChannelOK'
  <2>1. CASE LeasedBeside(cur[d], held[d])
    BY <1>5, <1>6, <2>1 DEF ClaimLock
  <2>2. CASE ~LeasedBeside(cur[d], held[d])
    <3>1. step' = [step EXCEPT ![d] = "locked"] /\ UNCHANGED <<cur, held, outbox>>
      BY <1>6, <2>2 DEF ClaimLock
    <3>2. cur[d] \in PeriphCmds \/ \A e \in Dispatchers : ~HoldsChannel(e, ChannelOf[cur[d]])
      BY <1>6 DEF ClaimLock
    <3>3. \A c \in Cmds \ held[d] : ChannelOf[c] = ChannelOf[cur[d]] => outbox[c] # "LEASED"
      BY <2>2 DEF LeasedBeside
    <3>4. \A e \in Dispatchers \ {d}, ch \in Channels : HoldsChannel(e, ch)' <=> HoldsChannel(e, ch)
      BY <3>1 DEF HoldsChannel
    <3>5. \A ch \in Channels : HoldsChannel(d, ch)' => \A e \in Dispatchers : ~HoldsChannel(e, ch)
      BY <3>1, <3>2 DEF HoldsChannel
    <3>6. \A e, g \in Dispatchers, ch \in Channels : HoldsChannel(e, ch)' /\ HoldsChannel(g, ch)' => e = g
      BY <3>4, <3>5 DEF ChannelOK
    <3> QED BY <3>1, <3>3, <3>6 DEF ChannelOK
  <2> QED BY <2>1, <2>2
<1>7. ASSUME NEW d \in Dispatchers, ClaimCommit(d) PROVE ChannelOK'
  <2>1. CASE ~(OutboxSeenBy(d, cur[d]) = "PENDING" /\ fencing[cur[d]] = token[d])
    BY <1>5, <1>7, <2>1 DEF ClaimCommit
  <2>2. CASE OutboxSeenBy(d, cur[d]) = "PENDING" /\ fencing[cur[d]] = token[d]
    <3>1. step[d] = "locked" /\ step'[d] = "claimed" /\ cur[d] \in Cmds
      BY <1>7, <2>2 DEF ClaimCommit, WorkOK, Working
    <3>2. \A e \in Dispatchers \ {d} : step'[e] = step[e] /\ cur'[e] = cur[e] /\ held'[e] = held[e]
      BY <1>7, <2>2 DEF ClaimCommit
    <3>3. \A c \in Cmds : outbox'[c] = "LEASED" => outbox[c] = "LEASED" \/ c = cur[d]
      BY <1>7, ClaimOutbox
    <3>4. \A e \in Dispatchers, ch \in Channels : HoldsChannel(e, ch)' => e # d /\ HoldsChannel(e, ch)
      BY <3>1, <3>2 DEF HoldsChannel
    <3>5. ASSUME NEW e \in Dispatchers, NEW c \in Cmds \ PeriphCmds,
                 step'[e] = "locked", cur'[e] \in Cmds \ PeriphCmds,
                 c \notin held'[e], ChannelOf[c] = ChannelOf[cur'[e]]
          PROVE  outbox'[c] # "LEASED"
      <4>1. e # d /\ step[e] = "locked" /\ cur[e] = cur'[e] /\ held[e] = held'[e]
        BY <3>1, <3>2, <3>5
      <4>2. HoldsChannel(e, ChannelOf[c])
        BY <3>5, <4>1 DEF HoldsChannel
      <4>3. c # cur[d]
        BY <3>1, <4>1, <4>2, CmdsAssumption DEF HoldsChannel, ChannelOK
      <4> QED BY <3>3, <3>5, <4>1, <4>3 DEF ChannelOK
    <3> QED BY <3>4, <3>5 DEF ChannelOK
  <2> QED BY <2>1, <2>2
<1>8. ASSUME NEW d \in Dispatchers,
             \/ DispatchOpen(d) \/ Publish(d) \/ Refuse(d) \/ DispatchCommit(d) \/ RecordRejection(d)
             \/ RecoverSelect(d) \/ RecoverQueued(d) \/ RecoverCommit(d) \/ DeadlockAbort(d) \/ Crash(d)
      PROVE  ChannelOK'
  <2>1. step'[d] # "locked"
    BY <1>8 DEF DispatchOpen, Publish, Refuse, DispatchCommit, RecordRejection, LeaveProcess, RecoverSelect,
                RecoverQueued, RecoverCommit, DeadlockAbort, Crash
  <2>2. \A e \in Dispatchers \ {d} : step'[e] = step[e] /\ cur'[e] = cur[e] /\ held'[e] = held[e]
    <3>1. CASE DispatchOpen(d) \/ Publish(d) \/ Refuse(d) \/ DispatchCommit(d) \/ RecordRejection(d)
      BY <3>1 DEF DispatchOpen, Publish, Refuse, DispatchCommit, RecordRejection, LeaveProcess
    <3>2. CASE RecoverSelect(d) \/ RecoverQueued(d) \/ RecoverCommit(d)
      BY <3>2 DEF RecoverSelect, RecoverQueued, RecoverCommit
    <3>3. CASE DeadlockAbort(d) \/ Crash(d)
      BY <3>3 DEF DeadlockAbort, Crash, ForgetWork
    <3> QED BY <1>8, <3>1, <3>2, <3>3
  <2>3. \A c \in Cmds : outbox'[c] = "LEASED" => outbox[c] = "LEASED"
    BY <1>8, ZenonT(60) DEF DispatchOpen, Publish, Refuse, DispatchCommit, RecordRejection, RecoverSelect, Recovered,
                RecoverQueued, RecoverCommit, DeadlockAbort, Crash, RowsTyped
  <2> QED BY <1>2, <2>1, <2>2, <2>3
<1>9. CASE UNCHANGED <<step, cur, held, outbox>>
  BY <1>1, <1>9
<1> QED
  BY <1>3, <1>4, <1>6, <1>7, <1>8, <1>9
  DEF Next, Loop, ProcessOnce, RecoverExpired, vars, workVars, LeaseExpires, DeadlinePasses, ResolveUnknown,
      InboxRead, InboxApply, FinalizerFails, HandlerFails

\* A recorded rejection marks an attempt and changes nothing else about it.
LEMMA RejectionMarks ==
    ASSUME TypeOK, NEW d \in Dispatchers, RecordRejection(d), NEW c \in Cmds
    PROVE  /\ attempt'[c].status = attempt[c].status
           /\ attempt'[c].token = attempt[c].token
           /\ attempt'[c].tag = attempt[c].tag
           /\ attempt[c].status = "ABSENT" => attempt'[c] = attempt[c]
<1>1. attempt \in [Cmds -> Attempts]
  BY DEF TypeOK, RowsTyped
<1>2. CASE attempt' = attempt
  BY <1>2
<1>3. CASE attempt[cur[d]].status # "ABSENT" /\ attempt' = [attempt EXCEPT ![cur[d]].rejected = TRUE]
  <2>1. CASE c = cur[d]
    <3>1. attempt'[c] = [attempt[c] EXCEPT !.rejected = TRUE]
      BY <1>1, <1>3, <2>1
    <3>2. attempt[c] \in Attempts
      BY <1>1
    <3> QED BY <1>3, <2>1, <3>1, <3>2 DEF Attempts
  <2>2. CASE c # cur[d]
    <3>1. attempt'[c] = attempt[c]
      BY <1>1, <1>3, <2>2
    <3> QED BY <3>1
  <2> QED BY <2>1, <2>2
<1> QED BY <1>2, <1>3 DEF RecordRejection

\* recordInbox works on a legal transition of an attempt that is committed, and
\* no attempt row is ever deleted under it.
LEMMA HandlerStep ==
    ASSUME TypeOK, WorkOK, HandlerOK, [Next]_vars
    PROVE  HandlerOK'
<1> USE DEF TypeOK, RowsTyped, WorldTyped
<1>1. ASSUME UNCHANGED handler,
             \A c \in Cmds : attempt[c].status # "ABSENT" => attempt'[c].status # "ABSENT"
      PROVE  HandlerOK'
  <2>1. \A h \in Handlers : handler[h] # NoWork => handler[h].ev.cmd \in Cmds
    BY DEF HandlerOK, Events
  <2> QED BY <1>1, <2>1 DEF HandlerOK
<1>2. CASE UNCHANGED <<handler, attempt>>
  BY <1>1, <1>2
<1>3. ASSUME NEW d \in Dispatchers, DispatchCommit(d) \/ RecordRejection(d) PROVE HandlerOK'
  <2>1. UNCHANGED handler
    BY <1>3 DEF DispatchCommit, RecordRejection
  <2>2. \A c \in Cmds : attempt[c].status # "ABSENT" => attempt'[c].status # "ABSENT"
    <3>1. CASE DispatchCommit(d)
      BY <3>1, SMTT(60) DEF DispatchCommit, Attempts
    <3>2. CASE RecordRejection(d)
      BY <3>2, RejectionMarks
    <3> QED BY <1>3, <3>1, <3>2
  <2> QED BY <1>1, <2>1, <2>2
<1>4. ASSUME NEW d \in Dispatchers, RecoverCommit(d) PROVE HandlerOK'
  <2>1. UNCHANGED handler
    BY <1>4 DEF RecoverCommit
  <2>2. \A c \in Cmds : attempt[c].status # "ABSENT" => attempt'[c].status # "ABSENT"
    BY <1>4 DEF RecoverCommit, Attempts
  <2> QED BY <1>1, <2>1, <2>2
<1>5. ASSUME NEW h \in Handlers, NEW e \in Events, InboxRead(h, e) PROVE HandlerOK'
  BY <1>5 DEF InboxRead, Identified, HandlerOK
<1>6. ASSUME NEW h \in Handlers, InboxApply(h) PROVE HandlerOK'
  <2>1. handler' = [handler EXCEPT ![h] = NoWork]
    BY <1>6 DEF InboxApply
  <2>2. validTransition(handler[h].seen, StatusOfEvent(handler[h].ev.type))
    BY <1>6 DEF InboxApply, HandlerOK
  <2>3. StatusOfEvent(handler[h].ev.type) # "ABSENT"
    BY <2>2 DEF validTransition
  <2>4. \A c \in Cmds : attempt[c].status # "ABSENT" => attempt'[c].status # "ABSENT"
    <3>1. CASE status[handler[h].ev.cmd] = handler[h].seen
      <4>1. attempt' = [attempt EXCEPT ![handler[h].ev.cmd].status = StatusOfEvent(handler[h].ev.type)]
        BY <1>6, <3>1 DEF InboxApply
      <4> QED BY <2>3, <4>1 DEF Attempts
    <3>2. CASE status[handler[h].ev.cmd] # handler[h].seen
      BY <1>6, <3>2 DEF InboxApply
    <3> QED BY <3>1, <3>2
  <2>5. \A g \in Handlers : handler[g] # NoWork => handler[g].ev.cmd \in Cmds
    BY DEF HandlerOK, Events
  <2> QED BY <2>1, <2>4, <2>5 DEF HandlerOK
<1>7. ASSUME NEW h \in Handlers, FinalizerFails(h) PROVE HandlerOK'
  <2> DEFINE e    == handler[h].ev
             fail == [e EXCEPT !.type = "final_failed"]
  <2>1. e \in Events /\ handler[h] # NoWork
    BY <1>7 DEF FinalizerFails, HandlerOK
  <2>2. fail \in Events /\ fail.cmd = e.cmd /\ fail.type = "final_failed"
    BY <2>1 DEF Events, AllEventTypes
  <2>3. attempt[e.cmd].status # "ABSENT"
    BY <2>1 DEF HandlerOK
  <2>4. StatusOfEvent(fail.type) = "FAILED"
    BY <2>2 DEF StatusOfEvent
  <2>5. \/ handler' = [handler EXCEPT ![h] = NoWork]
        \/ /\ handler' = [handler EXCEPT ![h] = [ev |-> fail, seen |-> status[e.cmd]]]
           /\ validTransition(status[e.cmd], StatusOfEvent(fail.type))
    BY <1>7, <2>4 DEF FinalizerFails
  <2>6. attempt[fail.cmd].status # "ABSENT"
    BY <2>2, <2>3
  <2>7. attempt' = attempt
    BY <1>7 DEF FinalizerFails
  <2> HIDE DEF e, fail
  <2> QED BY <2>2, <2>5, <2>6, <2>7 DEF HandlerOK
<1>8. ASSUME NEW h \in Handlers, HandlerFails(h) PROVE HandlerOK'
  BY <1>8 DEF HandlerFails, HandlerOK
<1> QED
  BY <1>2, <1>3, <1>4, <1>5, <1>6, <1>7, <1>8
  DEF Next, Loop, ProcessOnce, RecoverExpired, vars, Create, Cancel, LeaseExpires, DeadlinePasses,
      ResolveUnknown, ClaimSelect, ClaimLock, ClaimCommit, DispatchOpen, Publish, Refuse, RecoverSelect,
      RecoverQueued, DeadlockAbort, Crash

\* A command whose row and attempt a step leaves alone, or whose outbox row it
\* moves between two states that are not PROCESSED, keeps its evidence.
Evidence(c) ==
    IF outbox[c] = "PROCESSED"
      THEN attempt[c].status = status[c] /\ status[c] \in InFlight \cup (Terminal \ {"CANCELLED"})
      ELSE attempt[c] = NoAttempt /\ status[c] \in {"ABSENT", "QUEUED", "FAILED", "CANCELLED"}

\* PublicationEvidence speaks of one command at a time.
LEMMA EvidencePointwise == PublicationEvidence <=> \A c \in Cmds : Evidence(c)
  BY DEF PublicationEvidence, Evidence

\* Dispatch, inbox, recovery and cancellation keep the attempt row, the outbox row
\* and the execution's status in step.
LEMMA EvidenceStep ==
    ASSUME TypeOK, WorkOK, ExecLocksOK, OutboxLocksOK, HandlerOK, PublicationEvidence, [Next]_vars
    PROVE  PublicationEvidence'
<1> USE DEF TypeOK, RowsTyped
<1>0. \A c \in Cmds : Evidence(c)
  BY EvidencePointwise
<1>1. ASSUME UNCHANGED <<status, attempt>>,
             \A c \in Cmds : outbox'[c] = "PROCESSED" <=> outbox[c] = "PROCESSED"
      PROVE  PublicationEvidence'
  BY <1>1 DEF PublicationEvidence
<1>2. CASE UNCHANGED <<status, attempt, outbox>>
  BY <1>1, <1>2
<1>3. ASSUME NEW c \in Cmds, Create(c) \/ Cancel(c) PROVE PublicationEvidence'
  BY <1>3 DEF Create, Cancel, PublicationEvidence, InFlight, Terminal
<1>4. ASSUME NEW d \in Dispatchers, ClaimSelect(d) \/ ClaimLock(d) \/ ClaimCommit(d) PROVE PublicationEvidence'
  <2>1. UNCHANGED <<status, attempt>>
    BY <1>4 DEF ClaimSelect, ClaimLock, ClaimCommit
  <2> QED BY <1>1, <1>4, <2>1, ClaimOutbox
<1>5. ASSUME NEW d \in Dispatchers, DispatchOpen(d) PROVE PublicationEvidence'
  <2>1. UNCHANGED <<status, attempt>>
    BY <1>5 DEF DispatchOpen
  <2>2. \A c \in Cmds : outbox'[c] = "PROCESSED" <=> outbox[c] = "PROCESSED"
    BY <1>5 DEF DispatchOpen, HasLease
  <2> QED BY <1>1, <2>1, <2>2
<1>6. ASSUME NEW d \in Dispatchers, DispatchCommit(d) PROVE PublicationEvidence'
  <2>1. CASE status[cur[d]] = "QUEUED" /\ HasLease(d)
    <3>1. /\ status' = [status EXCEPT ![cur[d]] = "DISPATCHED"]
          /\ outbox' = [outbox EXCEPT ![cur[d]] = "PROCESSED"]
          /\ attempt' = [attempt EXCEPT ![cur[d]] =
                [status |-> "DISPATCHED", tag |-> tag[d], token |-> token[d], rejected |-> FALSE]]
      BY <1>6, <2>1 DEF DispatchCommit
    <3> QED BY <3>1 DEF PublicationEvidence, InFlight
  <2>2. CASE ~(status[cur[d]] = "QUEUED" /\ HasLease(d))
    BY <1>2, <1>6, <2>2 DEF DispatchCommit
  <2> QED BY <2>1, <2>2
<1>7. ASSUME NEW d \in Dispatchers, RecordRejection(d) PROVE PublicationEvidence'
  <2>1. UNCHANGED <<status, outbox>>
    BY <1>7 DEF RecordRejection
  <2>2. \A c \in Cmds : attempt'[c].status = attempt[c].status
    BY <1>7, RejectionMarks
  <2>3. \A c \in Cmds : attempt[c] = NoAttempt => attempt'[c] = NoAttempt
    <3>1. NoAttempt.status = "ABSENT"
      BY DEF NoAttempt
    <3>2. \A c \in Cmds : attempt[c].status = "ABSENT" => attempt'[c] = attempt[c]
      BY <1>7, RejectionMarks
    <3> QED BY <3>1, <3>2
  <2> QED BY <2>1, <2>2, <2>3 DEF PublicationEvidence
<1>8. ASSUME NEW d \in Dispatchers, RecoverCommit(d) PROVE PublicationEvidence'
  <2>1. SUFFICES ASSUME NEW c \in Cmds PROVE Evidence(c)'
    BY DEF PublicationEvidence, Evidence
  <2>2. status'[c] = IF c \in failed[d] THEN "FAILED" ELSE IF c \in StillInFlight(d) THEN "UNKNOWN" ELSE status[c]
    BY <1>8 DEF RecoverCommit
  <2>3. attempt'[c] = IF c \in active[d] /\ attempt[c].status \in InFlight
                        THEN [attempt[c] EXCEPT !.status = "UNKNOWN"] ELSE attempt[c]
    BY <1>8 DEF RecoverCommit
  <2>4. outbox'[c] = "PROCESSED" <=> outbox[c] = "PROCESSED"
    <3>1. outbox'[c] = IF c \in queued[d] /\ Recovered(d)[c] \in {"PENDING", "LEASED"} THEN "CANCELLED"
                       ELSE Recovered(d)[c]
      BY <1>8 DEF RecoverCommit
    <3>2. Recovered(d)[c] = IF c \in held[d] THEN "PENDING" ELSE outbox[c]
      BY DEF Recovered
    <3>3. c \in held[d] => outbox[c] = "LEASED"
      BY DEF OutboxLocksOK
    <3> QED BY <3>1, <3>2, <3>3
  <2>5. c \in failed[d] => status[c] = "QUEUED"
    BY DEF ExecLocksOK, HoldsExec
  <2>6. CASE outbox[c] = "PROCESSED"
    <3>1. attempt[c].status = status[c] /\ status[c] \in InFlight \cup (Terminal \ {"CANCELLED"})
      BY <1>0, <2>6 DEF Evidence
    <3>2. c \notin failed[d]
      BY <2>5, <3>1 DEF InFlight, Terminal
    <3>3. attempt'[c].status = status'[c] /\ status'[c] \in InFlight \cup (Terminal \ {"CANCELLED"})
      BY <2>2, <2>3, <3>1, <3>2 DEF StillInFlight, InFlight, Terminal, Attempts
    <3> QED BY <2>4, <2>6, <3>3 DEF Evidence
  <2>7. CASE outbox[c] # "PROCESSED"
    <3>1. attempt[c] = NoAttempt /\ status[c] \in {"ABSENT", "QUEUED", "FAILED", "CANCELLED"}
      BY <1>0, <2>7 DEF Evidence
    <3>2. attempt'[c] = NoAttempt /\ status'[c] \in {"ABSENT", "QUEUED", "FAILED", "CANCELLED"}
      BY <2>2, <2>3, <3>1 DEF StillInFlight, InFlight, NoAttempt
    <3> QED BY <2>4, <2>7, <3>2 DEF Evidence
  <2> QED BY <2>6, <2>7
<1>9. ASSUME NEW h \in Handlers, InboxApply(h) PROVE PublicationEvidence'
  <2> DEFINE c  == handler[h].ev.cmd
             to == StatusOfEvent(handler[h].ev.type)
  <2>1. /\ validTransition(handler[h].seen, to) /\ attempt[c].status # "ABSENT"
        /\ c \in Cmds /\ handler[h].ev.type \in AllEventTypes
    BY <1>9 DEF InboxApply, HandlerOK, Events
  <2>2. outbox[c] = "PROCESSED" /\ attempt[c].status = status[c] /\ status[c] \in InFlight \cup Terminal
    BY <1>0, <2>1 DEF Evidence, NoAttempt
  <2>3. to \in {"DEVICE_ACCEPTED", "VERIFYING", "SUCCEEDED", "FAILED", "UNKNOWN"}
    BY <2>1 DEF StatusOfEvent, AllEventTypes
  <2> HIDE DEF c, to
  <2>4. CASE status[c] = handler[h].seen
    <3>1. /\ status' = [status EXCEPT ![c] = to]
          /\ attempt' = [attempt EXCEPT ![c].status = to]
          /\ outbox' = outbox
      BY <1>9, <2>4 DEF InboxApply, c, to
    <3>2. attempt'[c].status = to /\ \A x \in Cmds \ {c} : attempt'[x] = attempt[x]
      BY <2>1, <3>1 DEF Attempts
    <3> QED BY <2>1, <2>2, <2>3, <3>1, <3>2 DEF PublicationEvidence, InFlight, Terminal
  <2>5. CASE status[c] # handler[h].seen
    BY <1>2, <1>9, <2>5 DEF InboxApply, c
  <2> QED BY <2>4, <2>5
<1> QED
  BY <1>2, <1>3, <1>4, <1>5, <1>6, <1>7, <1>8, <1>9
  DEF Next, Loop, ProcessOnce, RecoverExpired, vars, LeaseExpires, DeadlinePasses, ResolveUnknown, Publish,
      Refuse, RecoverSelect, RecoverQueued, DeadlockAbort, Crash, InboxRead, FinalizerFails, HandlerFails

\* Only a claim moves the fencing token, and never that of a PROCESSED row.
LEMMA FencedStep ==
    ASSUME TypeOK, WorkOK, OutboxLocksOK, HandlerOK, PublicationEvidence, FencedCommit, [Next]_vars
    PROVE  FencedCommit'
<1> USE DEF TypeOK, RowsTyped
<1>1. ASSUME UNCHANGED fencing,
             \A c \in Cmds : attempt'[c].status # "ABSENT" =>
                 attempt[c].status # "ABSENT" /\ attempt'[c].token = attempt[c].token
      PROVE  FencedCommit'
  BY <1>1 DEF FencedCommit
<1>2. CASE UNCHANGED <<fencing, attempt>>
  BY <1>2 DEF FencedCommit
<1>3. ASSUME NEW d \in Dispatchers, ClaimCommit(d) PROVE FencedCommit'
  <2>1. CASE ~(OutboxSeenBy(d, cur[d]) = "PENDING" /\ fencing[cur[d]] = token[d])
    BY <1>2, <1>3, <2>1 DEF ClaimCommit, CommitRecovered
  <2>2. CASE OutboxSeenBy(d, cur[d]) = "PENDING" /\ fencing[cur[d]] = token[d]
    <3>1. cur[d] \in Cmds
      BY <1>3 DEF ClaimCommit, WorkOK, Working
    <3>2. outbox[cur[d]] # "PROCESSED"
      BY <2>2 DEF OutboxSeenBy, OutboxLocksOK
    <3>3. attempt[cur[d]].status = "ABSENT"
      BY <3>1, <3>2 DEF PublicationEvidence, NoAttempt
    <3>4. attempt' = attempt /\ fencing' = [fencing EXCEPT ![cur[d]] = @ + 1]
      BY <1>3, <2>2 DEF ClaimCommit
    <3> QED BY <3>1, <3>3, <3>4 DEF FencedCommit
  <2> QED BY <2>1, <2>2
<1>4. ASSUME NEW d \in Dispatchers, DispatchCommit(d) PROVE FencedCommit'
  <2>1. CASE status[cur[d]] = "QUEUED" /\ HasLease(d)
    <3>1. /\ attempt' = [attempt EXCEPT ![cur[d]] =
                [status |-> "DISPATCHED", tag |-> tag[d], token |-> token[d], rejected |-> FALSE]]
          /\ fencing' = fencing
      BY <1>4, <2>1 DEF DispatchCommit
    <3>2. fencing[cur[d]] = token[d]
      BY <2>1 DEF HasLease
    <3> QED BY <3>1, <3>2 DEF FencedCommit
  <2>2. CASE ~(status[cur[d]] = "QUEUED" /\ HasLease(d))
    BY <1>2, <1>4, <2>2 DEF DispatchCommit
  <2> QED BY <2>1, <2>2
<1>5. ASSUME NEW d \in Dispatchers, RecordRejection(d) PROVE FencedCommit'
  <2>1. fencing' = fencing
    BY <1>5 DEF RecordRejection
  <2> QED BY <1>5, <2>1, RejectionMarks DEF FencedCommit
<1>6. ASSUME NEW d \in Dispatchers, RecoverCommit(d) PROVE FencedCommit'
  <2>1. UNCHANGED fencing
    BY <1>6 DEF RecoverCommit
  <2>2. \A c \in Cmds : attempt'[c].status # "ABSENT" =>
            attempt[c].status # "ABSENT" /\ attempt'[c].token = attempt[c].token
    BY <1>6 DEF RecoverCommit, Attempts, InFlight
  <2> QED BY <1>1, <2>1, <2>2
<1>7. ASSUME NEW h \in Handlers, InboxApply(h) PROVE FencedCommit'
  <2>1. UNCHANGED fencing
    BY <1>7 DEF InboxApply
  <2>2. handler[h].ev.cmd \in Cmds /\ attempt[handler[h].ev.cmd].status # "ABSENT"
    BY <1>7 DEF InboxApply, HandlerOK, Events
  <2>3. CASE status[handler[h].ev.cmd] = handler[h].seen
    <3>1. attempt' = [attempt EXCEPT ![handler[h].ev.cmd].status = StatusOfEvent(handler[h].ev.type)]
      BY <1>7, <2>3 DEF InboxApply
    <3> QED BY <1>1, <2>1, <2>2, <3>1 DEF Attempts
  <2>4. CASE status[handler[h].ev.cmd] # handler[h].seen
    BY <1>2, <1>7, <2>4 DEF InboxApply
  <2> QED BY <2>3, <2>4
<1>8. ASSUME NEW d \in Dispatchers, Loop(d) \/ Crash(d) PROVE FencedCommit'
  <2>1. \/ ClaimCommit(d) \/ DispatchCommit(d) \/ RecordRejection(d) \/ RecoverCommit(d)
        \/ UNCHANGED <<fencing, attempt>>
    BY <1>8
    DEF Loop, ProcessOnce, RecoverExpired, ClaimSelect, ClaimLock, CommitRecovered, DispatchOpen, Publish,
        Refuse, RecoverSelect, RecoverQueued, DeadlockAbort, Crash
  <2> QED BY ONLY <2>1, <1>2, <1>3, <1>4, <1>5, <1>6
<1>9. \/ \E d \in Dispatchers : Loop(d) \/ Crash(d)
      \/ \E h \in Handlers : InboxApply(h)
      \/ UNCHANGED <<fencing, attempt>>
  BY DEF Next, vars, Create, Cancel, LeaseExpires, DeadlinePasses, ResolveUnknown, InboxRead, FinalizerFails,
         HandlerFails
<1> QED BY ONLY <1>2, <1>7, <1>8, <1>9

\* A claim that commits finds no other lease on its channel.
LEMMA MutexStep ==
    ASSUME TypeOK, WorkOK, OutboxLocksOK, ChannelOK, ChannelMutex, [Next]_vars
    PROVE  ChannelMutex'
<1> USE DEF TypeOK, RowsTyped
<1>1. ASSUME \A c \in Cmds : outbox'[c] = "LEASED" => outbox[c] = "LEASED" PROVE ChannelMutex'
  BY <1>1 DEF ChannelMutex
<1>2. ASSUME NEW d \in Dispatchers, ClaimSelect(d) \/ ClaimLock(d) PROVE ChannelMutex'
  <2>1. step[d] # "locked"
    BY <1>2 DEF ClaimSelect, ClaimLock
  <2> QED BY <1>1, <1>2, <2>1, ClaimOutbox
<1>3. ASSUME NEW d \in Dispatchers, ClaimCommit(d) PROVE ChannelMutex'
  <2>1. CASE ~(OutboxSeenBy(d, cur[d]) = "PENDING" /\ fencing[cur[d]] = token[d])
    BY <1>1, <1>3, <2>1, CommitRecoveredOutbox DEF ClaimCommit
  <2>2. CASE OutboxSeenBy(d, cur[d]) = "PENDING" /\ fencing[cur[d]] = token[d]
    <3>1. cur[d] \in Cmds /\ step[d] = "locked"
      BY <1>3 DEF ClaimCommit, WorkOK, Working
    <3>2. outbox' = [Recovered(d) EXCEPT ![cur[d]] = "LEASED"]
      BY <1>3, <2>2 DEF ClaimCommit
    <3>3. \A c \in Cmds \ {cur[d]} : outbox'[c] = "LEASED" => outbox[c] = "LEASED" /\ c \notin held[d]
      BY <3>1, <3>2 DEF Recovered
    <3>4. ASSUME cur[d] \notin PeriphCmds, NEW c \in Cmds \ PeriphCmds, c # cur[d],
                 ChannelOf[c] = ChannelOf[cur[d]]
          PROVE  outbox'[c] # "LEASED"
      BY <3>1, <3>3, <3>4 DEF ChannelOK
    <3> QED BY <3>3, <3>4 DEF ChannelMutex
  <2> QED BY <2>1, <2>2
<1>4. ASSUME NEW d \in Dispatchers, DispatchOpen(d) \/ DispatchCommit(d) \/ RecoverCommit(d) PROVE ChannelMutex'
  <2>1. \A c \in Cmds : outbox'[c] = "LEASED" => outbox[c] = "LEASED"
    BY <1>4 DEF DispatchOpen, DispatchCommit, RecoverCommit, Recovered
  <2> QED BY <1>1, <2>1
<1>5. ASSUME NEW c \in Cmds, Create(c) \/ Cancel(c) PROVE ChannelMutex'
  BY <1>1, <1>5 DEF Create, Cancel
<1>6. CASE UNCHANGED outbox
  BY <1>1, <1>6
<1> QED
  BY <1>2, <1>3, <1>4, <1>5, <1>6
  DEF Next, Loop, ProcessOnce, RecoverExpired, vars, LeaseExpires, DeadlinePasses, ResolveUnknown, Publish,
      Refuse, RecordRejection, RecoverSelect, RecoverQueued, DeadlockAbort, Crash, InboxRead, InboxApply,
      FinalizerFails, HandlerFails

----------------------------------------------------------------------------

\* The empty database satisfies the inductive invariant.
LEMMA InitIInv == Init => IInv
<1> SUFFICES ASSUME Init PROVE IInv
  OBVIOUS
<1>1. TypeOK
  <2>1. RowsTyped
    <3>1. NoAttempt \in Attempts
      BY DEF NoAttempt, Attempts, Statuses, Tags
    <3> QED BY <3>1 DEF Init, RowsTyped, Statuses, Reasons, OutboxStates
  <2>2. LoopsTyped
    BY DEF Init, LoopsTyped, Steps, Tags
  <2>3. WorldTyped
    BY EnvironmentAssumption DEF Init, WorldTyped, Work, NoWork, Statuses
  <2> QED BY <2>1, <2>2, <2>3 DEF TypeOK
<1>2. WorkOK
  BY DEF Init, WorkOK, Working
<1>3. ExecLocksOK /\ OutboxLocksOK /\ PresenceOK
  BY DEF Init, ExecLocksOK, OutboxLocksOK, PresenceOK, HoldsExec, HoldsOutbox
<1>4. ChannelOK /\ ChannelMutex
  BY DEF Init, ChannelOK, ChannelMutex, HoldsChannel
<1>5. HandlerOK
  BY DEF Init, HandlerOK
<1>6. PublicationEvidence /\ FencedCommit
  BY DEF Init, PublicationEvidence, FencedCommit, NoAttempt
<1> QED BY <1>1, <1>2, <1>3, <1>4, <1>5, <1>6 DEF IInv

\* The inductive invariant is inductive.
LEMMA NextIInv == IInv /\ [Next]_vars => IInv'
  BY TypeStep, WorkStep, ExecLocksStep, OutboxLocksStep, PresenceStep, ChannelStep, HandlerStep, EvidenceStep,
     FencedStep, MutexStep DEF IInv

\* The inductive invariant holds in every reachable state.
THEOREM Invariance == Spec => []IInv
  BY InitIInv, NextIInv, PTL DEF Spec

\* The rows, loops and handlers of commandexec keep their types.
THEOREM TypeCorrect == Spec => []TypeOK
<1>1. IInv => TypeOK  BY DEF IInv
<1> QED BY <1>1, Invariance, PTL

\* No two replicas ever have commands of the same physical channel leased: the
\* Channel row lock and the second count of ProcessOnce suffice, whatever leases
\* run out, replicas die or transactions are aborted in between.
THEOREM ChannelExclusive == Spec => []ChannelMutex
<1>1. IInv => ChannelMutex  BY DEF IInv
<1> QED BY <1>1, Invariance, PTL

\* An attempt row exists exactly for a PROCESSED outbox row and carries the
\* execution's status: what retention (INV-9) takes for publication evidence.
THEOREM EvidenceCorrect == Spec => []PublicationEvidence
<1>1. IInv => PublicationEvidence  BY DEF IInv
<1> QED BY <1>1, Invariance, PTL

\* A dispatcher that lost its lease commits no attempt.
THEOREM FencingCorrect == Spec => []FencedCommit
<1>1. IInv => FencedCommit  BY DEF IInv
<1> QED BY <1>1, Invariance, PTL

----------------------------------------------------------------------------

\* RecoverExpired gives its verdicts to commands that had none.
LEMMA RecoverVerdicts ==
    ASSUME NEW d \in Dispatchers, RecoverCommit(d), IInv
    PROVE  \A c \in Cmds :
             /\ c \in failed[d] => status[c] = "QUEUED" /\ status'[c] = "FAILED"
             /\ c \in StillInFlight(d) => status[c] \in InFlight /\ status'[c] = "UNKNOWN"
             /\ c \notin failed[d] \cup StillInFlight(d) =>
                    status'[c] = status[c] /\ finalReason'[c] = finalReason[c]
<1>1. \A c \in failed[d] : status[c] = "QUEUED"
  BY DEF IInv, TypeOK, LoopsTyped, ExecLocksOK, HoldsExec
<1> QED BY <1>1 DEF RecoverCommit, StillInFlight, InFlight

\* No step of dispatchers, handlers or the API changes a verdict.
LEMMA VerdictStep ==
    ASSUME IInv, [Next]_vars
    PROVE  [VerdictKept]_vars
<1> USE DEF IInv, TypeOK, RowsTyped
<1>1. CASE UNCHANGED <<status, finalReason, attempt, resolution>>
  BY <1>1 DEF VerdictKept
<1>2. ASSUME NEW c \in Cmds, Create(c) \/ Cancel(c) PROVE VerdictKept
  BY <1>2 DEF Create, Cancel, VerdictKept, Terminal
<1>3. ASSUME NEW c \in Cmds, NEW o \in Outcomes, ResolveUnknown(c, o) PROVE VerdictKept
  BY <1>3 DEF ResolveUnknown, VerdictKept
<1>4. ASSUME NEW d \in Dispatchers, DispatchCommit(d) PROVE VerdictKept
  <2>1. \A c \in Cmds :
           \/ status'[c] = status[c] /\ finalReason'[c] = finalReason[c] /\ attempt'[c] = attempt[c]
           \/ status[c] = "QUEUED"
    BY <1>4 DEF DispatchCommit
  <2>2. resolution' = resolution
    BY <1>4 DEF DispatchCommit
  <2> QED BY <2>1, <2>2 DEF VerdictKept, Terminal
<1>5. ASSUME NEW d \in Dispatchers, RecordRejection(d) PROVE VerdictKept
  <2>1. status' = status /\ resolution' = resolution
    BY <1>5 DEF RecordRejection
  <2>2. \A c \in Cmds : status[c] \in Terminal => finalReason'[c] = finalReason[c]
    BY <1>5 DEF RecordRejection, Terminal
  <2>3. \A c \in Cmds : attempt'[c].status = attempt[c].status
    BY <1>5, RejectionMarks
  <2> QED BY <2>1, <2>2, <2>3 DEF VerdictKept
<1>6. ASSUME NEW d \in Dispatchers, RecoverCommit(d) PROVE VerdictKept
  <2>1. \A c \in Cmds : status[c] \in Terminal => status'[c] = status[c] /\ finalReason'[c] = finalReason[c]
    BY <1>6, RecoverVerdicts DEF Terminal, InFlight
  <2>2. \A c \in Cmds : status[c] \in Terminal => attempt[c].status \notin InFlight
    BY DEF PublicationEvidence, NoAttempt, Terminal, InFlight
  <2>3. \A c \in Cmds : status[c] \in Terminal => attempt'[c] = attempt[c]
    BY <1>6, <2>2 DEF RecoverCommit
  <2>4. resolution' = resolution
    BY <1>6 DEF RecoverCommit
  <2> QED BY <2>1, <2>3, <2>4 DEF VerdictKept
<1>7. ASSUME NEW h \in Handlers, InboxApply(h) PROVE VerdictKept
  <2> DEFINE c == handler[h].ev.cmd
  <2>1. validTransition(handler[h].seen, StatusOfEvent(handler[h].ev.type)) /\ c \in Cmds
    BY <1>7 DEF InboxApply, HandlerOK, Events
  <2>2. handler[h].seen \notin Terminal
    BY <2>1 DEF validTransition, Terminal
  <2>3. \A x \in Cmds :
           \/ status'[x] = status[x] /\ finalReason'[x] = finalReason[x] /\ attempt'[x] = attempt[x]
           \/ x = c /\ status[c] = handler[h].seen
    <3>1. CASE status[c] = handler[h].seen
      <4>1. \A x \in Cmds \ {c} :
               status'[x] = status[x] /\ finalReason'[x] = finalReason[x] /\ attempt'[x] = attempt[x]
        BY <1>7, <3>1 DEF InboxApply
      <4> QED BY <3>1, <4>1
    <3>2. CASE status[c] # handler[h].seen
      BY <1>7, <3>2 DEF InboxApply
    <3> QED BY <3>1, <3>2
  <2>4. resolution' = resolution
    BY <1>7 DEF InboxApply
  <2> QED BY <2>2, <2>3, <2>4 DEF VerdictKept
<1>8. ASSUME NEW d \in Dispatchers, Loop(d) \/ Crash(d) PROVE [VerdictKept]_vars
  <2>1. \/ DispatchCommit(d) \/ RecordRejection(d) \/ RecoverCommit(d)
        \/ UNCHANGED <<status, finalReason, attempt, resolution>>
    BY <1>8
    DEF Loop, ProcessOnce, RecoverExpired, ClaimSelect, ClaimLock, ClaimCommit, DispatchOpen, Publish, Refuse,
        RecoverSelect, RecoverQueued, DeadlockAbort, Crash
  <2> QED BY ONLY <2>1, <1>1, <1>4, <1>5, <1>6
<1>9. \/ \E c \in Cmds : Create(c) \/ Cancel(c)
      \/ \E c \in Cmds, o \in Outcomes : ResolveUnknown(c, o)
      \/ \E d \in Dispatchers : Loop(d) \/ Crash(d)
      \/ \E h \in Handlers : InboxApply(h)
      \/ UNCHANGED <<status, finalReason, attempt, resolution>>
  BY DEF Next, vars, LeaseExpires, DeadlinePasses, InboxRead, FinalizerFails, HandlerFails
<1> QED BY ONLY <1>1, <1>2, <1>3, <1>7, <1>8, <1>9

\* The verdict on a command, its reason, its attempt's status and its resolution
\* are final, whatever handlers, dispatchers and recoveries run concurrently.
THEOREM VerdictsFinal == Spec => VerdictIsFinal
  BY Invariance, VerdictStep, PTL DEF Spec, VerdictIsFinal

----------------------------------------------------------------------------
(* The engine implements its promise (safety).                              *)

\* Every step of the engine is a step of the promise or leaves it alone.
LEMMA RefinesNext ==
    ASSUME IInv, [Next]_vars
    PROVE  [Lifecycle!Next]_Lifecycle!vars
<1> USE DEF IInv, TypeOK, RowsTyped, WorldTyped
<1>1. CASE UNCHANGED <<status, configured, resolution>>
  BY <1>1 DEF Lifecycle!vars
<1>2. ASSUME NEW c \in Cmds, Create(c) PROVE Lifecycle!Submit(c)
  BY <1>2 DEF Create, Lifecycle!Submit
<1>3. ASSUME NEW c \in Cmds, Cancel(c) PROVE Lifecycle!Withdraw(c)
  BY <1>3 DEF Cancel, Lifecycle!Withdraw, Lifecycle!Waiting
<1>4. ASSUME NEW c \in Cmds, NEW o \in Outcomes, ResolveUnknown(c, o) PROVE Lifecycle!Resolve(c)
  BY <1>4 DEF ResolveUnknown, Lifecycle!Resolve
<1>5. ASSUME NEW d \in Dispatchers, DispatchCommit(d)
      PROVE  (\E c \in Cmds : Lifecycle!Dispatch(c)) \/ UNCHANGED <<status, configured, resolution>>
  <2>1. cur[d] \in Cmds
    BY <1>5 DEF DispatchCommit, WorkOK, Working
  <2> QED BY <1>5, <2>1 DEF DispatchCommit, Lifecycle!Dispatch, Lifecycle!Waiting
<1>6. ASSUME NEW d \in Dispatchers, RecoverCommit(d)
      PROVE  \E late \in SUBSET Cmds : Lifecycle!Expire(late)
  <2> DEFINE late == failed[d] \cup StillInFlight(d)
  <2>1. late \in SUBSET Cmds
    BY DEF LoopsTyped, StillInFlight
  <2>2. status' = [c \in Cmds |-> IF c \notin late THEN status[c]
                                  ELSE IF status[c] \in Lifecycle!Waiting THEN "FAILED" ELSE "UNKNOWN"]
    <3>1. \A c \in Cmds : status'[c] = IF c \notin late THEN status[c]
                                      ELSE IF status[c] \in Lifecycle!Waiting THEN "FAILED" ELSE "UNKNOWN"
      BY <1>6, RecoverVerdicts DEF Lifecycle!Waiting, InFlight
    <3>2. status' \in [Cmds -> Statuses] /\ DOMAIN status' = Cmds
      BY <1>6, TypeStep DEF RecoverCommit
    <3> QED BY <1>6, <3>1 DEF RecoverCommit
  <2>3. \A c \in late : status[c] \in Lifecycle!Waiting \cup Lifecycle!InFlight
    BY <1>6, <2>1, RecoverVerdicts DEF Lifecycle!Waiting, Lifecycle!InFlight, InFlight
  <2>4. UNCHANGED <<configured, resolution>>
    BY <1>6 DEF RecoverCommit
  <2> HIDE DEF late
  <2> QED BY <2>1, <2>2, <2>3, <2>4 DEF Lifecycle!Expire
<1>7. ASSUME NEW h \in Handlers, InboxApply(h)
      PROVE  (\E c \in Cmds : Lifecycle!Progress(c) \/ Lifecycle!Decide(c))
             \/ UNCHANGED <<status, configured, resolution>>
  <2> DEFINE e  == handler[h].ev
             to == StatusOfEvent(e.type)
  <2>1. e \in Events /\ validTransition(handler[h].seen, to) /\ attempt[e.cmd].status # "ABSENT"
    BY <1>7 DEF InboxApply, HandlerOK
  <2>2. CASE status[e.cmd] # handler[h].seen
    BY <1>7, <2>2 DEF InboxApply
  <2>3. CASE status[e.cmd] = handler[h].seen
    <3>1. /\ status' = [status EXCEPT ![e.cmd] = to]
          /\ configured' = configured \cup SideEffect(e)
          /\ resolution' = resolution
      BY <1>7, <2>3 DEF InboxApply
    <3>2. e.cmd \in Cmds /\ e.type \in AllEventTypes
      BY <2>1 DEF Events
    <3>3. status[e.cmd] # "QUEUED"
      BY <2>1, <3>2 DEF PublicationEvidence, NoAttempt, InFlight, Terminal
    <3>4. SideEffect(e) = IF to = "SUCCEEDED" /\ e.cmd \in ConfigCmds THEN {e.cmd} ELSE {}
      BY <3>2 DEF SideEffect, StatusOfEvent, AllEventTypes
    <3>5. status[e.cmd] \in Lifecycle!InFlight
      BY <2>1, <2>3, <3>3 DEF validTransition, Lifecycle!InFlight
    <3>6. CASE to \in {"DEVICE_ACCEPTED", "VERIFYING"}
      <4>1. to \in Lifecycle!Later(status[e.cmd])
        BY <2>1, <2>3, <3>3, <3>6 DEF validTransition, Lifecycle!Later
      <4>2. configured' = configured
        BY <3>1, <3>4, <3>6
      <4> QED BY <3>1, <3>2, <3>5, <4>1, <4>2 DEF Lifecycle!Progress
    <3>7. CASE to \in {"SUCCEEDED", "FAILED", "UNKNOWN"}
      <4>1. configured' = IF to = "SUCCEEDED" /\ e.cmd \in ConfigCmds
                            THEN configured \cup {e.cmd} ELSE configured
        BY <3>1, <3>4
      <4> QED BY <3>1, <3>2, <3>5, <3>7, <4>1 DEF Lifecycle!Decide
    <3>8. to \in {"DEVICE_ACCEPTED", "VERIFYING", "SUCCEEDED", "FAILED", "UNKNOWN"}
      BY <3>2 DEF StatusOfEvent, AllEventTypes
    <3> QED BY <3>2, <3>6, <3>7, <3>8
  <2> QED BY <2>2, <2>3
<1>8. CASE UNCHANGED vars
  BY <1>1, <1>8 DEF vars
<1>9. CASE Next
  BY <1>1, <1>2, <1>3, <1>4, <1>5, <1>6, <1>7, <1>9, ZenonT(60)
  DEF Next, Loop, ProcessOnce, RecoverExpired, LeaseExpires, DeadlinePasses, ClaimSelect, ClaimLock,
      ClaimCommit, DispatchOpen, Publish, Refuse, RecordRejection, RecoverSelect, RecoverQueued,
      DeadlockAbort, Crash, InboxRead, FinalizerFails, HandlerFails, Lifecycle!Next
<1> QED BY <1>8, <1>9

\* Outbox, leases, attempts and inbox implement CommandLifecycle: a command moves
\* forward only, gets one verdict, and configuration follows success.
THEOREM ImplementsPromise == Spec => Lifecycle!Spec
<1>1. Init => Lifecycle!Init
  BY DEF Init, Lifecycle!Init
<1> QED BY <1>1, Invariance, RefinesNext, PTL DEF Spec, Lifecycle!Spec
----------------------------------------------------------------------------
(* Success: who reported it, and what it stores.                            *)

\* The event a handler carries answers an envelope on the wire, and names the boot
\* of the committed attempt.
CarriedIdentified ==
    \A h \in Handlers : handler[h] # NoWork =>
        /\ <<handler[h].ev.cmd, handler[h].ev.boot>> \in wire
        /\ attempt[handler[h].ev.cmd].tag = handler[h].ev.boot

\* What was sent and received is not forgotten, and a committed attempt keeps the
\* identity it was sent with.
LEMMA EvidenceStays ==
    ASSUME IInv, [Next]_vars
    PROVE  /\ wire \subseteq wire' /\ inbox \subseteq inbox'
           /\ \A c \in Cmds : attempt[c].status # "ABSENT" => attempt'[c].tag = attempt[c].tag
<1> DEFINE Stays == /\ wire \subseteq wire' /\ inbox \subseteq inbox'
                    /\ \A c \in Cmds : attempt[c].status # "ABSENT" => attempt'[c].tag = attempt[c].tag
<1> SUFFICES Stays
  OBVIOUS
<1> USE DEF IInv, TypeOK, RowsTyped
<1>1. CASE UNCHANGED <<wire, inbox, attempt>>
  BY <1>1
<1>2. ASSUME NEW d \in Dispatchers, Publish(d) PROVE Stays
  BY <1>2 DEF Publish
<1>3. ASSUME NEW d \in Dispatchers, DispatchCommit(d) PROVE Stays
  <2>1. CASE status[cur[d]] = "QUEUED" /\ HasLease(d)
    <3>1. cur[d] \in Cmds /\ outbox[cur[d]] = "LEASED"
      BY <1>3, <2>1 DEF DispatchCommit, WorkOK, Working, HasLease
    <3>2. attempt[cur[d]].status = "ABSENT"
      BY <3>1 DEF PublicationEvidence, NoAttempt
    <3> QED BY <1>3, <2>1, <3>1, <3>2 DEF DispatchCommit
  <2>2. CASE ~(status[cur[d]] = "QUEUED" /\ HasLease(d))
    BY <1>3, <2>2 DEF DispatchCommit
  <2> QED BY <2>1, <2>2
<1>4. ASSUME NEW d \in Dispatchers, RecordRejection(d) PROVE Stays
  <2>1. wire' = wire /\ inbox' = inbox
    BY <1>4 DEF RecordRejection
  <2> QED BY <1>4, <2>1, RejectionMarks
<1>5. ASSUME NEW d \in Dispatchers, RecoverCommit(d) PROVE Stays
  BY <1>5 DEF RecoverCommit, Attempts
<1>6. ASSUME NEW h \in Handlers, InboxApply(h) PROVE Stays
  <2>1. wire' = wire /\ inbox \subseteq inbox'
    BY <1>6 DEF InboxApply
  <2>2. CASE status[handler[h].ev.cmd] = handler[h].seen
    <3>1. attempt' = [attempt EXCEPT ![handler[h].ev.cmd].status = StatusOfEvent(handler[h].ev.type)]
      BY <1>6, <2>2 DEF InboxApply
    <3> QED BY <2>1, <3>1 DEF Attempts
  <2>3. CASE status[handler[h].ev.cmd] # handler[h].seen
    BY <1>6, <2>3 DEF InboxApply
  <2> QED BY <2>2, <2>3
<1>7. ASSUME NEW h \in Handlers, NEW e \in Events, InboxRead(h, e) PROVE Stays
  BY <1>7 DEF InboxRead
<1> QED
  BY <1>1, <1>2, <1>3, <1>4, <1>5, <1>6, <1>7
  DEF Next, Loop, ProcessOnce, RecoverExpired, vars, Create, Cancel, LeaseExpires, DeadlinePasses,
      ResolveUnknown, ClaimSelect, ClaimLock, CommitRecovered, ClaimCommit, DispatchOpen, Refuse,
      RecoverSelect, RecoverQueued, DeadlockAbort, Crash, FinalizerFails, HandlerFails

\* Handlers carry events of identified boots only.
LEMMA CarriedStep ==
    ASSUME IInv, CarriedIdentified, [Next]_vars
    PROVE  CarriedIdentified'
<1>1. ASSUME NEW h \in Handlers, handler'[h] = handler[h], handler[h] # NoWork
      PROVE  /\ <<handler[h].ev.cmd, handler[h].ev.boot>> \in wire'
             /\ attempt'[handler[h].ev.cmd].tag = handler[h].ev.boot
  <2>1. handler[h].ev.cmd \in Cmds /\ attempt[handler[h].ev.cmd].status # "ABSENT"
    BY <1>1 DEF IInv, HandlerOK, Events
  <2> QED BY <1>1, <2>1, EvidenceStays DEF CarriedIdentified
<1>2. CASE UNCHANGED handler
  BY <1>1, <1>2 DEF CarriedIdentified
<1>3. ASSUME NEW h \in Handlers, InboxApply(h) \/ HandlerFails(h) PROVE CarriedIdentified'
  <2>1. handler' = [handler EXCEPT ![h] = NoWork]
    BY <1>3 DEF InboxApply, HandlerFails
  <2>2. handler'[h] = NoWork /\ \A g \in Handlers \ {h} : handler'[g] = handler[g]
    BY <2>1 DEF IInv, TypeOK, WorldTyped
  <2> QED BY <1>1, <2>2 DEF CarriedIdentified
<1>4. ASSUME NEW h \in Handlers, NEW e \in Events, InboxRead(h, e) PROVE CarriedIdentified'
  <2>1. \A g \in Handlers \ {h} : handler'[g] = handler[g]
    BY <1>4 DEF InboxRead, IInv, TypeOK, WorldTyped
  <2>2. handler'[h] = handler[h] \/ handler'[h].ev = e
    BY <1>4 DEF InboxRead, IInv, TypeOK, WorldTyped
  <2>3. wire' = wire /\ attempt' = attempt /\ <<e.cmd, e.boot>> \in wire /\ attempt[e.cmd].tag = e.boot
    BY <1>4 DEF InboxRead, Identified
  <2> QED BY <1>1, <2>1, <2>2, <2>3 DEF CarriedIdentified
<1>5. ASSUME NEW h \in Handlers, FinalizerFails(h) PROVE CarriedIdentified'
  <2> DEFINE e    == handler[h].ev
             fail == [e EXCEPT !.type = "final_failed"]
  <2>1. \A g \in Handlers \ {h} : handler'[g] = handler[g]
    BY <1>5 DEF FinalizerFails
  <2>2. handler'[h] = NoWork \/ handler'[h].ev = fail
    BY <1>5 DEF FinalizerFails, IInv, TypeOK, WorldTyped
  <2>3. wire' = wire /\ attempt' = attempt /\ handler[h] # NoWork
    BY <1>5 DEF FinalizerFails
  <2>4. fail.cmd = e.cmd /\ fail.boot = e.boot
    BY <2>3 DEF IInv, HandlerOK, Events
  <2> HIDE DEF fail
  <2> QED BY <1>1, <2>1, <2>2, <2>3, <2>4 DEF CarriedIdentified
<1> QED
  BY <1>2, <1>3, <1>4, <1>5, ZenonT(60)
  DEF Next, Loop, ProcessOnce, RecoverExpired, vars, Create, Cancel, LeaseExpires, DeadlinePasses,
      ResolveUnknown, ClaimSelect, ClaimLock, CommitRecovered, ClaimCommit, DispatchOpen, Publish,
      DispatchCommit, Refuse, RecordRejection, RecoverSelect, RecoverQueued, RecoverCommit, DeadlockAbort,
      Crash

\* Only the commit of a node's event makes a command succeed.
LEMMA SuccessStep ==
    ASSUME IInv, [Next]_vars, NEW c \in Cmds, status'[c] = "SUCCEEDED", status[c] # "SUCCEEDED"
    PROVE  \E h \in Handlers : InboxApply(h)
<1> USE DEF IInv, TypeOK, RowsTyped
<1>1. ASSUME NEW x \in Cmds, Create(x) \/ Cancel(x) PROVE FALSE
  BY <1>1 DEF Create, Cancel
<1>2. ASSUME NEW d \in Dispatchers, DispatchCommit(d) PROVE FALSE
  BY <1>2 DEF DispatchCommit
<1>3. ASSUME NEW d \in Dispatchers, RecoverCommit(d) PROVE FALSE
  BY <1>3, RecoverVerdicts
<1>4. ASSUME UNCHANGED status PROVE FALSE
  BY <1>4
<1> QED
  BY <1>1, <1>2, <1>3, <1>4, ZenonT(60)
  DEF Next, Loop, ProcessOnce, RecoverExpired, vars, LeaseExpires, DeadlinePasses, ResolveUnknown,
      ClaimSelect, ClaimLock, CommitRecovered, ClaimCommit, DispatchOpen, Publish, Refuse,
      RecordRejection, RecoverSelect, RecoverQueued, DeadlockAbort, Crash, InboxRead, FinalizerFails,
      HandlerFails

\* Only a Final reports success, and it is kept with its command.
LEMMA SuccessReported ==
    ASSUME IInv, CarriedIdentified, [Next]_vars, NEW c \in Cmds,
           status'[c] = "SUCCEEDED", status[c] # "SUCCEEDED"
    PROVE  /\ attempt[c].status # "ABSENT" /\ <<c, attempt[c].tag>> \in wire
           /\ \E e \in inbox' : e.cmd = c /\ e.type = "final_succeeded" /\ e.boot = attempt[c].tag
           /\ configured' = configured \cup (IF c \in ConfigCmds THEN {c} ELSE {})
<1> USE DEF IInv, TypeOK, RowsTyped
<1>1. PICK h \in Handlers : InboxApply(h)
  BY SuccessStep
<1> DEFINE e == handler[h].ev
<1>2. e \in Events /\ attempt[e.cmd].status # "ABSENT" /\ handler[h] # NoWork
  BY <1>1 DEF InboxApply, HandlerOK
<1>3. /\ status' = [status EXCEPT ![e.cmd] = StatusOfEvent(e.type)]
      /\ configured' = configured \cup SideEffect(e)
      /\ inbox' = inbox \cup {e}
  BY <1>1 DEF InboxApply
<1>4. e.cmd = c /\ e.type = "final_succeeded"
  BY <1>2, <1>3 DEF Events, StatusOfEvent, AllEventTypes
<1>5. <<c, e.boot>> \in wire /\ attempt[c].tag = e.boot
  BY <1>2, <1>4 DEF CarriedIdentified
<1> QED BY <1>2, <1>3, <1>4, <1>5 DEF SideEffect

\* What the two properties rest on, together.
SuccessInv == IInv /\ CarriedIdentified /\ SuccessIsEvidenced /\ ConfigFollowsSuccess

\* A success keeps the evidence it was reported with.
LEMMA EvidencedStep ==
    ASSUME IInv, CarriedIdentified, SuccessIsEvidenced, [Next]_vars
    PROVE  SuccessIsEvidenced'
<1> SUFFICES ASSUME NEW c \in Cmds, status'[c] = "SUCCEEDED"
             PROVE  /\ <<c, attempt'[c].tag>> \in wire'
                    /\ \E e \in inbox' : e.cmd = c /\ e.type = "final_succeeded" /\ e.boot = attempt'[c].tag
  BY DEF SuccessIsEvidenced
<1>1. CASE status[c] = "SUCCEEDED"
  <2>1. attempt[c].status # "ABSENT"
    BY <1>1 DEF IInv, PublicationEvidence
  <2>2. attempt'[c].tag = attempt[c].tag /\ wire \subseteq wire' /\ inbox \subseteq inbox'
    BY <2>1, EvidenceStays
  <2> QED BY <1>1, <2>2 DEF SuccessIsEvidenced
<1>2. CASE status[c] # "SUCCEEDED"
  <2>1. attempt[c].status # "ABSENT" /\ <<c, attempt[c].tag>> \in wire
    BY <1>2, SuccessReported
  <2>2. \E e \in inbox' : e.cmd = c /\ e.type = "final_succeeded" /\ e.boot = attempt[c].tag
    BY <1>2, SuccessReported
  <2>3. attempt'[c].tag = attempt[c].tag /\ wire \subseteq wire'
    BY <2>1, EvidenceStays
  <2> QED BY <2>1, <2>2, <2>3
<1> QED BY <1>1, <1>2

\* Configuration is stored by the step that reports success.
LEMMA ConfiguredStep ==
    ASSUME IInv, CarriedIdentified, ConfigFollowsSuccess, [Next]_vars
    PROVE  ConfigFollowsSuccess'
<1>1. \A c \in Cmds : status[c] = "SUCCEEDED" => status'[c] = "SUCCEEDED"
  BY VerdictStep DEF VerdictKept, Terminal, vars
<1>2. CASE \A c \in Cmds : status'[c] = "SUCCEEDED" => status[c] = "SUCCEEDED"
  <2>1. configured' = configured
    <3>1. ASSUME NEW h \in Handlers, InboxApply(h) PROVE configured' = configured
      <4> DEFINE e == handler[h].ev
      <4>1. e \in Events
        BY <3>1 DEF InboxApply, IInv, HandlerOK
      <4>2. CASE status[e.cmd] # handler[h].seen
        BY <3>1, <4>2 DEF InboxApply
      <4>3. CASE status[e.cmd] = handler[h].seen
        <5>1. /\ status' = [status EXCEPT ![e.cmd] = StatusOfEvent(e.type)]
              /\ configured' = configured \cup SideEffect(e)
              /\ validTransition(handler[h].seen, StatusOfEvent(e.type))
          BY <3>1, <4>3 DEF InboxApply, IInv, HandlerOK
        <5>2. e.type # "final_succeeded"
          BY <1>2, <4>1, <4>3, <5>1 DEF StatusOfEvent, Events, validTransition, IInv, TypeOK, RowsTyped
        <5> QED BY <5>1, <5>2 DEF SideEffect
      <4> QED BY <4>2, <4>3
    <3> QED
      BY <3>1, ZenonT(60)
      DEF Next, Loop, ProcessOnce, RecoverExpired, vars, Create, Cancel, LeaseExpires, DeadlinePasses,
          ResolveUnknown, ClaimSelect, ClaimLock, CommitRecovered, ClaimCommit, DispatchOpen, Publish,
          DispatchCommit, Refuse, RecordRejection, RecoverSelect, RecoverQueued, RecoverCommit,
          DeadlockAbort, Crash, InboxRead, FinalizerFails, HandlerFails
  <2> QED BY <1>1, <1>2, <2>1, CmdsAssumption DEF ConfigFollowsSuccess
<1>3. ASSUME NEW c \in Cmds, status'[c] = "SUCCEEDED", status[c] # "SUCCEEDED" PROVE ConfigFollowsSuccess'
  <2>1. configured' = configured \cup (IF c \in ConfigCmds THEN {c} ELSE {})
    BY <1>3, SuccessReported
  <2>2. \A x \in Cmds \ {c} : status'[x] = "SUCCEEDED" => status[x] = "SUCCEEDED"
    <3>1. PICK h \in Handlers : InboxApply(h)
      BY <1>3, SuccessStep
    <3>2. \A x \in Cmds : status'[x] # status[x] => x = handler[h].ev.cmd
      BY <3>1 DEF InboxApply, IInv, TypeOK, RowsTyped
    <3> QED BY <1>3, <3>2
  <2> QED BY <1>1, <1>3, <2>1, <2>2, CmdsAssumption DEF ConfigFollowsSuccess
<1> QED BY <1>2, <1>3

\* The empty database reports no success.
LEMMA SuccessInit == Init => SuccessInv
<1> SUFFICES ASSUME Init PROVE SuccessInv
  OBVIOUS
<1>1. CarriedIdentified
  BY DEF Init, CarriedIdentified
<1>2. \A c \in Cmds : status[c] # "SUCCEEDED"
  BY DEF Init
<1>3. configured = {}
  BY DEF Init
<1>4. SuccessIsEvidenced
  BY <1>2 DEF SuccessIsEvidenced
<1>5. ConfigFollowsSuccess
  BY <1>2, <1>3, CmdsAssumption DEF ConfigFollowsSuccess
<1> QED BY <1>1, <1>4, <1>5, InitIInv DEF SuccessInv

\* They hold in every reachable state.
LEMMA SuccessInvariance == Spec => []SuccessInv
<1>1. SuccessInv /\ [Next]_vars => SuccessInv'
  BY NextIInv, CarriedStep, EvidencedStep, ConfiguredStep DEF SuccessInv
<1> QED BY <1>1, SuccessInit, PTL DEF Spec

\* A command is reported SUCCEEDED only on a Final of the boot its committed attempt
\* was sent to, whatever replicas, boots and handlers take part.
THEOREM SuccessEvidenced == Spec => []SuccessIsEvidenced
<1>1. SuccessInv => SuccessIsEvidenced  BY DEF SuccessInv
<1> QED BY <1>1, SuccessInvariance, PTL

\* The stored configuration is that of the commands reported SUCCEEDED, in every
\* state, whatever finalizers fail in between.
THEOREM ConfigExact == Spec => []ConfigFollowsSuccess
<1>1. SuccessInv => ConfigFollowsSuccess  BY DEF SuccessInv
<1> QED BY <1>1, SuccessInvariance, PTL
============================================================================
