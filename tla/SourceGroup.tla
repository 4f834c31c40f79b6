---------------------------- MODULE SourceGroup ----------------------------
(***************************************************************************)
(* One primary/backup source group (backend/internal/datasource/group_*.go)*)
(* and the registry of snapshots the rule engines read (sourceref).  The   *)
(* database keeps the members and the group's revision; four goroutines    *)
(* change them, each in a transaction of its own: a frame worker           *)
(* (MarkSuccess), the offline detector (MarkFailure), the scanner (stale   *)
(* members, self-healing) and the API (activate, deactivate, reset,        *)
(* update, delete).                                                        *)
(*                                                                         *)
(* The database runs READ COMMITTED and no SELECT locks a row, so that a   *)
(* transaction reads in one step and writes, by id, in a later one,        *)
(* whatever the row has become: tx[t] is what goroutine t has read.  What  *)
(* it writes last it commits in the same step.  A failover writes before   *)
(* it reads on; until it commits, the row it has written is locked and     *)
(* others see the old one.  The only thing that keeps two elections apart  *)
(* is the partial unique index ux_sgm_one_active, which rolls the later    *)
(* one back.                                                               *)
(*                                                                         *)
(* The publication of the snapshot after a transaction takes steps of its  *)
(* own: the group's row is read, then its members, then the registry entry *)
(* is replaced, then the ActiveChange event is queued for the hook.        *)
(* Nothing orders two publications.                                        *)
(*                                                                         *)
(* Time is ages, counted in scan intervals and saturating where the code   *)
(* compares them.                                                          *)
(***************************************************************************)
EXTENDS Naturals, FiniteSets

CONSTANTS
  Members,      \* the edge devices that may be members
  Rank,         \* Rank[m]: priority DESC, id ASC as one number, larger first
  NoMember,     \* member id 0
  Gone,         \* the id of a row that has been deleted since it was read
  MaxFail,      \* MaxFail[m]: max_fail_count
  Staleness,    \* staleness, MinResidency and Cooldown in scan intervals
  Residency,
  Cooldown,
  QueueCap,     \* the dispatcher's channel: 64 events
  Apis,         \* the API requests that may run at once
  Referenced    \* some rule is bound to the group

ASSUME SourceAssumption ==
  /\ {NoMember, Gone} \cap Members = {} /\ NoMember # Gone /\ IsFiniteSet(Members)
  /\ Rank \in [Members -> Nat]
  /\ \A m, n \in Members : Rank[m] = Rank[n] => m = n
  /\ MaxFail \in [Members -> Nat \ {0}]
  /\ {Staleness, Residency, Cooldown, QueueCap} \subseteq Nat \ {0}
  /\ Referenced \in BOOLEAN

VARIABLES
  exists, enabled, rev,  \* the row of source_groups
  status, fails,         \* source_group_members: status ("absent": no row), fail_count
  age,                   \* age of last_success; Staleness + 1: stale, or never
  resid,                 \* age of updated_at of the active member's row
  cool,                  \* age of the last source_group_failover_logs row
  seq,                   \* transition[groupID], in memory
  reg,                   \* the registry's snapshot of the group
  tx,                    \* tx[t]: what goroutine t has read and not acted on yet
  job,                   \* job[t]: the publication goroutine t has under way
  queued, dirty,         \* the dispatcher: events in its channel, and the flag
  alive                  \* the devices that report

db     == <<exists, enabled, rev, status, fails, age, resid, cool, seq>>
vars   == <<db, reg, tx, job, queued, dirty, alive>>

Threads == {"frame", "offline", "scan", "reload"} \cup Apis

NoSnapshot == [active |-> NoMember, enabled |-> FALSE, rev |-> 0, seq |-> 0, present |-> FALSE]
NoEvent    == [next |-> NoMember, rev |-> 0]
Idle       == [at |-> "idle", snap |-> NoSnapshot, ev |-> NoEvent]
NoTx       == [at |-> "idle", m |-> NoMember, to |-> NoMember, n |-> 0]

-----------------------------------------------------------------------------
(* Reading the members.                                                    *)

With(s)    == {m \in Members : status[m] = s}
ActiveIn(st) == IF \E m \in Members : st[m] = "active"
                THEN CHOOSE m \in Members : st[m] = "active" ELSE NoMember
Active     == ActiveIn(status)
Fresh(m)   == age[m] <= Staleness
Best(S)    == CHOOSE m \in S : \A n \in S : Rank[n] <= Rank[m]

\* pickCandidate: the standby member of the highest rank.
pickCandidate(st) ==
  LET S == {m \in Members : st[m] = "standby"} IN IF S = {} THEN NoMember ELSE Best(S)

cooldownActive == cool < Cooldown

-----------------------------------------------------------------------------
(* Publication: commitGroupChange(groupID, ev) and publishGroup, by the    *)
(* goroutine that has committed.                                           *)

Publish(t, ev) == job' = [job EXCEPT ![t] = [at |-> "row", snap |-> NoSnapshot, ev |-> ev]]

\* buildSnapshot reads the row ...
ReadRow(t) ==
  /\ job[t].at = "row"
  /\ job' = [job EXCEPT ![t].at = IF exists THEN "members" ELSE "put",
                        ![t].snap = IF exists THEN [NoSnapshot EXCEPT !.present = TRUE,
                                                      !.enabled = enabled, !.rev = rev]
                                    ELSE NoSnapshot]
  /\ UNCHANGED <<db, reg, tx, queued, dirty, alive>>

\* ... and then the members, in another query, and transitionSeqOf.
ReadMembers(t) ==
  /\ job[t].at = "members"
  /\ job' = [job EXCEPT ![t].at = "put", ![t].snap.active = Active, ![t].snap.seq = seq]
  /\ UNCHANGED <<db, reg, tx, queued, dirty, alive>>

\* Registry.Publish, Remove or (the reloader) ReplaceAll: whatever was there is
\* replaced.
Put(t) ==
  /\ job[t].at = "put"
  /\ reg' = job[t].snap
  /\ job' = IF t = "reload" THEN [job EXCEPT ![t].at = "clear"]
            ELSE IF job[t].ev = NoEvent THEN [job EXCEPT ![t] = Idle]
            ELSE [job EXCEPT ![t].at = "emit"]
  /\ UNCHANGED <<db, tx, queued, dirty, alive>>

\* dispatcher.emit: a full channel drops the event and sets dirty.
Emit(t) ==
  /\ job[t].at = "emit"
  /\ IF queued < QueueCap
     THEN queued' = queued + 1 /\ UNCHANGED dirty
     ELSE dirty' = TRUE /\ UNCHANGED queued
  /\ job' = [job EXCEPT ![t] = Idle]
  /\ UNCHANGED <<db, reg, tx, alive>>

\* dispatcher.run: the hook clears the windows of both engines.
Hook ==
  /\ queued > 0
  /\ queued' = queued - 1
  /\ UNCHANGED <<db, reg, tx, job, dirty, alive>>

\* RunDirtyReloader: PublishAll, then ClearDirty.
ReloadStart ==
  /\ dirty
  /\ job["reload"] = Idle
  /\ Publish("reload", NoEvent)
  /\ UNCHANGED <<db, reg, tx, queued, dirty, alive>>

ReloadDone ==
  /\ job["reload"].at = "clear"
  /\ dirty' = FALSE
  /\ job' = [job EXCEPT !["reload"] = Idle]
  /\ UNCHANGED <<db, reg, tx, queued, alive>>

groupsLive == reg.present

-----------------------------------------------------------------------------
(* Transactions.                                                           *)

Ready(t) == tx[t] = NoTx /\ job[t] = Idle

Reads(t, r) == tx' = [tx EXCEPT ![t] = r] /\ UNCHANGED <<db, reg, job, queued, dirty, alive>>

\* Another transaction has written a row of S and not committed yet: who writes it
\* waits, and so does who would add a second active row while S holds the first.
Held(t, S) == \E u \in Threads \ {t} : tx[u].at = "settle" /\ tx[u].m \in S \cap Members

\* UPDATE ... WHERE id = m: a row that is gone is not there to change.
Update(f, m, v) == IF m \in Members THEN [f EXCEPT ![m] = v] ELSE f

\* updated_at of the active member.
Touch(m) == resid' = IF m \in Members /\ m = Active THEN 0 ELSE resid

Commit(t, ev) == tx' = [tx EXCEPT ![t] = NoTx] /\ Publish(t, ev)

\* A statement failed: nothing has happened, and nothing is published.
Rollback(t) == Reads(t, NoTx)

\* bumpGroupRevision of a group that is gone changes nothing and reads 0.
Bumped == IF exists THEN rev + 1 ELSE rev
NewRev == IF exists THEN rev + 1 ELSE 0

\* mutant: the index was never created.
RefusedNever(st, m) == FALSE

\* ux_sgm_one_active: at most one row of the group is active.
Refused(st, m) == m \in Members /\ \E n \in Members \ {m} : st[n] = "active"

\* The end of every election: the member that was read becomes active, the others
\* being as st says, the revision moves, and with the commit the event is due.
Elect(t, st, c) ==
  LET m == tx[t].to IN
  /\ ~Held(t, {tx[t].m, m})
  /\ ~Refused(st, m)
  /\ status' = Update(st, m, "active")
  /\ rev' = Bumped /\ seq' = seq + 1 /\ cool' = c
  /\ resid' = IF m \in Members THEN 0 ELSE resid
  /\ Commit(t, [next |-> m, rev |-> NewRev])

-----------------------------------------------------------------------------
(* MarkSuccess: a frame of m was parsed.                                   *)

MarkSuccess(m) ==
  /\ m \in alive
  /\ Ready("frame")
  /\ groupsLive
  /\ exists
  /\ status[m] \notin {"absent", "disabled"}
  /\ Reads("frame", [NoTx EXCEPT !.at = IF status[m] = "error" THEN "recover" ELSE "success",
                                 !.m = m])

\* mutant: a member that recovers in a group without authority takes it.
RecoverElects ==
  LET m == tx["frame"].m IN
  /\ tx["frame"].at \in {"success", "recover"}
  /\ ~Held("frame", {m})
  /\ age' = Update(age, m, 0) /\ fails' = Update(fails, m, 0)
  /\ status' = IF tx["frame"].at = "recover"
               THEN Update(status, m, IF Active = NoMember THEN "active" ELSE "standby")
               ELSE status
  /\ Touch(m)
  /\ Commit("frame", NoEvent)
  /\ UNCHANGED <<exists, enabled, rev, cool, seq, reg, queued, dirty, alive>>

\* applySuccess: the status is written only if it was read as error, and then it is
\* standby whatever the row has become.
applySuccess ==
  LET m == tx["frame"].m IN
  /\ tx["frame"].at \in {"success", "recover"}
  /\ ~Held("frame", {m})
  /\ age' = Update(age, m, 0) /\ fails' = Update(fails, m, 0)
  /\ status' = IF tx["frame"].at = "recover" THEN Update(status, m, "standby") ELSE status
  /\ Touch(m)
  /\ Commit("frame", NoEvent)
  /\ UNCHANGED <<exists, enabled, rev, cool, seq, reg, queued, dirty, alive>>

-----------------------------------------------------------------------------
(* Counting a failure of m, and maybeGroupFailover in the same transaction *)
(* (MarkFailure and failStaleGroupMember).                                 *)

\* countFailure of the count that was read; the count of a member is capped at its limit.
countFailure(t, m) ==
  Reads(t, [NoTx EXCEPT !.at = IF fails[m] + 1 >= MaxFail[m] THEN "trip" ELSE "count", !.m = m,
                        !.n = IF fails[m] < MaxFail[m] THEN fails[m] + 1 ELSE fails[m]])

\* MarkFailure: the offline detector reports m.
MarkFailure(m) ==
  /\ Ready("offline")
  /\ groupsLive
  /\ exists
  /\ status[m] \in {"active", "standby"}
  /\ countFailure("offline", m)

\* The member is below its limit: only its count moves.
JustCount(t) ==
  /\ tx[t].at = "count"
  /\ ~Held(t, {tx[t].m})
  /\ fails' = Update(fails, tx[t].m, tx[t].n)
  /\ Touch(tx[t].m)
  /\ Commit(t, NoEvent)
  /\ UNCHANGED <<exists, enabled, rev, status, age, cool, seq, reg, queued, dirty, alive>>

\* The member is put into error; the group, its active member, the cooldown and the
\* members are read after that, and what follows is not decided again.
maybeGroupFailover(t) ==
  LET m  == tx[t].m
      st == Update(status, m, "error") IN
  /\ tx[t].at = "trip"
  /\ ~Held(t, {m})
  /\ IF ~exists \/ ~enabled \/ ActiveIn(st) # NoMember
     THEN /\ status' = st /\ fails' = Update(fails, m, tx[t].n)
          /\ Touch(m)
          /\ Commit(t, NoEvent)
          /\ UNCHANGED <<exists, enabled, rev, age, cool, seq, reg, queued, dirty, alive>>
     ELSE Reads(t, [tx[t] EXCEPT !.at = "settle",
                                 !.to = IF cooldownActive THEN NoMember ELSE pickCandidate(st)])

Failed(t) == Update(status, tx[t].m, "error")

\* No candidate, or the cooldown: the group is left without authority and says so.
LoseAuthority(t) ==
  /\ tx[t].at = "settle" /\ tx[t].to = NoMember
  /\ status' = Failed(t) /\ fails' = Update(fails, tx[t].m, tx[t].n)
  /\ rev' = Bumped /\ seq' = seq + 1
  /\ Touch(tx[t].m)
  /\ Commit(t, [next |-> NoMember, rev |-> NewRev])
  /\ UNCHANGED <<exists, enabled, age, cool, reg, queued, dirty, alive>>

\* The candidate, still on standby or not, takes over (failover and self-healing).
SwitchTo(t) ==
  /\ tx[t].at = "settle" /\ tx[t].to # NoMember
  /\ Elect(t, Failed(t), 0)
  /\ fails' = Update(fails, tx[t].m, tx[t].n)
  /\ UNCHANGED <<exists, enabled, age, reg, queued, dirty, alive>>

-----------------------------------------------------------------------------
(* The scanner: ScanGroups reads the group, its members and the cooldown,  *)
(* decides, and then opens its transaction.                                *)

HealCandidate ==
  LET S == {m \in With("standby") : Fresh(m)} IN IF S = {} THEN NoMember ELSE Best(S)

\* mutant: only groups that have an active member are scanned (N-21).
ScanActiveOnly ==
  IF Active # NoMember /\ resid >= Residency /\ ~Fresh(Active)
  THEN [NoTx EXCEPT !.at = "stale", !.m = Active] ELSE NoTx

ScanTarget ==
  CASE Active # NoMember /\ resid >= Residency /\ ~Fresh(Active)
         -> [NoTx EXCEPT !.at = "stale", !.m = Active]
    [] Active = NoMember /\ ~cooldownActive /\ HealCandidate # NoMember
         -> [NoTx EXCEPT !.at = "heal", !.to = HealCandidate]
    [] OTHER -> NoTx

scanGroup ==
  /\ Ready("scan")
  /\ exists /\ enabled
  /\ ScanTarget # NoTx
  /\ Reads("scan", ScanTarget)

\* Nothing to do any more: the transaction is empty, and publishes all the same.
ScanDone == Commit("scan", NoEvent) /\ UNCHANGED <<db, reg, queued, dirty, alive>>

\* failStaleGroupMember reads again, in the transaction, all it has read.
failStaleGroupMember ==
  LET m == tx["scan"].m IN
  /\ tx["scan"].at = "stale"
  /\ IF exists /\ m \in Members /\ status[m] = "active" /\ ~Fresh(m) /\ enabled
     THEN countFailure("scan", m) ELSE ScanDone

\* selfHealGroup checks that the group exists and has no active member, and not
\* that the candidate is still on standby, or still there.
selfHealGroup ==
  /\ tx["scan"].at = "heal"
  /\ IF exists /\ Active = NoMember THEN Reads("scan", [tx["scan"] EXCEPT !.at = "settle"])
     ELSE ScanDone

-----------------------------------------------------------------------------
(* The API.  Every request that commits publishes, with or without an      *)
(* event; one that rolls back answers with the error.                      *)

Request(t) == t \in Apis /\ Ready(t) /\ exists

\* ActivateGroupMember of the active member is a no-op.
ActivateGroupMember(t, m) ==
  /\ Request(t)
  /\ status[m] # "absent"
  /\ IF status[m] = "active"
     THEN Publish(t, NoEvent) /\ UNCHANGED <<db, reg, tx, queued, dirty, alive>>
     ELSE Reads(t, [NoTx EXCEPT !.at = "activate", !.to = m])

\* Whoever is active now steps down, and the target, whatever it is now, steps up.
\* Its fail_count stays as it is.
SteppedDown == [n \in Members |-> IF status[n] = "active" THEN "standby" ELSE status[n]]

Activate(t) ==
  /\ tx[t].at = "activate"
  /\ ~Held(t, With("active"))
  /\ Elect(t, SteppedDown, 0)
  /\ UNCHANGED <<exists, enabled, fails, age, reg, queued, dirty, alive>>

\* DeactivateGroupMember: what follows depends on the status that was read.  An active
\* member needs a successor, or the answer is 409.
DeactivateGroupMember(t, m) ==
  /\ Request(t)
  /\ status[m] # "absent"
  /\ IF status[m] # "active" THEN Reads(t, [NoTx EXCEPT !.at = "disable", !.m = m])
     ELSE /\ pickCandidate(status) # NoMember
          /\ Reads(t, [NoTx EXCEPT !.at = "handover", !.m = m, !.to = pickCandidate(status)])

Disabled(t) == Update(status, tx[t].m, "disabled")

\* The member was not active when it was read: no revision, no event.
DisableMember(t) ==
  /\ tx[t].at = "disable"
  /\ ~Held(t, {tx[t].m})
  /\ status' = Disabled(t)
  /\ Touch(tx[t].m)
  /\ Commit(t, NoEvent)
  /\ UNCHANGED <<exists, enabled, rev, fails, age, cool, seq, reg, queued, dirty, alive>>

Handover(t) ==
  /\ tx[t].at = "handover"
  /\ Elect(t, Disabled(t), 0)
  /\ UNCHANGED <<exists, enabled, fails, age, reg, queued, dirty, alive>>

\* ResetGroupMember: a member in error, to be promoted when no member is active.
ResetGroupMember(t, m) ==
  /\ Request(t)
  /\ status[m] = "error"
  /\ Reads(t, [NoTx EXCEPT !.at = "reset", !.m = m, !.to = IF Active = NoMember THEN m ELSE NoMember])

\* mutant: a promotion is taken for a run-state write.
ResetWithoutBump(t) ==
  /\ tx[t].at = "reset"
  /\ ~Held(t, {tx[t].m}) /\ ~Refused(status, tx[t].to)
  /\ fails' = Update(fails, tx[t].m, 0)
  /\ status' = Update(status, tx[t].m, IF tx[t].to = NoMember THEN "standby" ELSE "active")
  /\ resid' = 0
  /\ Commit(t, NoEvent)
  /\ UNCHANGED <<exists, enabled, rev, age, cool, seq, reg, queued, dirty, alive>>

\* A promotion leaves no row in the failover log.
Reset(t) ==
  /\ tx[t].at = "reset"
  /\ fails' = Update(fails, tx[t].m, 0)
  /\ IF tx[t].to # NoMember THEN Elect(t, status, cool)
     ELSE /\ ~Held(t, {tx[t].m})
          /\ status' = Update(status, tx[t].m, "standby")
          /\ Touch(tx[t].m)
          /\ Commit(t, NoEvent)
          /\ UNCHANGED <<rev, seq, cool>>
  /\ UNCHANGED <<exists, enabled, age, reg, queued, dirty, alive>>

\* The election under way in t, and the state of the others that it leaves.
Electing(t) == tx[t].at \in {"settle", "activate", "handover", "reset"}
Leaves(t) ==
  CASE tx[t].at = "settle" -> Failed(t)
    [] tx[t].at = "handover" -> Disabled(t)
    [] tx[t].at = "activate" -> SteppedDown
    [] OTHER -> status

\* The UPDATE fails on the index, once it is certain that the other row stays active:
\* the election is undone, and with it what its transaction has written before.
IndexRefuses(t) ==
  /\ Electing(t)
  /\ Refused(Leaves(t), tx[t].to)
  /\ ~Held(t, {tx[t].to} \cup With("active"))
  /\ Rollback(t)

\* UpdateGroup with enabled: not part of the identity, no revision.
SetEnabled(t, b) ==
  /\ Request(t)
  /\ enabled # b
  /\ ~b => ~Referenced
  /\ enabled' = b
  /\ Publish(t, NoEvent)
  /\ UNCHANGED <<exists, rev, status, fails, age, resid, cool, seq, reg, tx, queued, dirty,
                 alive>>

\* replaceMembers: the members that stay keep their run state, the new ones wait.
Replaced(S) ==
  [m \in Members |-> IF m \notin S THEN "absent"
                     ELSE IF status[m] = "absent" THEN "standby" ELSE status[m]]

\* A row that is deleted is gone for good for who has read it: the member may be added
\* again, under another id.
Forget(R) ==
  [u \in Threads |-> [tx[u] EXCEPT !.m = IF @ \in R THEN Gone ELSE @,
                                   !.to = IF @ \in R THEN Gone ELSE @]]

\* UpdateGroup with members: the revision moves, and once more for an election;
\* an active member that is removed without a successor raises no event.  Its first
\* UPDATE locks the group and the next ones every member, before the active one is
\* counted, so that the whole is one step.
UpdateMembers(t, S) ==
  LET st == Replaced(S)
      m  == pickCandidate(st)
      elects == ActiveIn(st) = NoMember /\ m # NoMember
      Stays(n) == "absent" \notin {status[n], st[n]} IN
  /\ Request(t)
  /\ S = {} => ~Referenced
  /\ ~Held(t, Members)
  /\ status' = IF elects THEN [st EXCEPT ![m] = "active"] ELSE st
  /\ rev' = IF elects THEN rev + 2 ELSE rev + 1
  /\ seq' = IF elects THEN seq + 1 ELSE seq
  /\ fails' = [n \in Members |-> IF Stays(n) THEN fails[n] ELSE 0]
  /\ age' = [n \in Members |-> IF Stays(n) THEN age[n] ELSE Staleness + 1]
  /\ resid' = 0
  /\ tx' = Forget(Members \ S)
  /\ Publish(t, IF elects THEN [next |-> m, rev |-> rev + 2] ELSE NoEvent)
  /\ UNCHANGED <<exists, enabled, cool, reg, queued, dirty, alive>>

\* DeleteGroup: the active member is read first, and the revision moves only if there
\* is one.
DeleteGroup(t) ==
  /\ Request(t)
  /\ ~Referenced
  /\ Reads(t, [NoTx EXCEPT !.at = "delete", !.m = Active])

Delete(t) ==
  LET moves == tx[t].m # NoMember IN
  /\ tx[t].at = "delete"
  /\ ~Held(t, Members)
  /\ exists' = FALSE
  /\ status' = [m \in Members |-> "absent"]
  /\ fails' = [m \in Members |-> 0]
  /\ age' = [m \in Members |-> Staleness + 1]
  /\ resid' = 0
  /\ rev' = IF moves THEN Bumped ELSE rev
  /\ seq' = IF moves THEN seq + 1 ELSE seq
  /\ tx' = [Forget(Members) EXCEPT ![t] = NoTx]
  /\ Publish(t, IF moves THEN [next |-> NoMember, rev |-> NewRev] ELSE NoEvent)
  /\ UNCHANGED <<enabled, cool, reg, queued, dirty, alive>>

\* A query or a statement fails for another reason: a broken connection, a deadlock
\* that the database resolves.
Break(t) == tx[t] # NoTx /\ Rollback(t)

-----------------------------------------------------------------------------
(* The environment.                                                        *)

\* A scan interval passes.  The scanner finishes within one, and a device that is
\* alive reports within Staleness.
Tick ==
  /\ tx["scan"] = NoTx
  /\ \A m \in alive : status[m] \notin {"absent", "disabled"} => age[m] < Staleness
  /\ age' = [m \in Members |-> IF age[m] <= Staleness THEN age[m] + 1 ELSE age[m]]
  /\ cool' = IF cool < Cooldown THEN cool + 1 ELSE cool
  /\ resid' = IF resid < Residency /\ Active # NoMember THEN resid + 1 ELSE resid
  /\ <<age, cool, resid>>' # <<age, cool, resid>>
  /\ UNCHANGED <<exists, enabled, rev, status, fails, seq, reg, tx, job, queued, dirty,
                 alive>>

Silence(m) ==
  /\ m \in alive
  /\ alive' = alive \ {m}
  /\ UNCHANGED <<db, reg, tx, job, queued, dirty>>

Revive(m) ==
  /\ m \notin alive
  /\ alive' = alive \cup {m}
  /\ UNCHANGED <<db, reg, tx, job, queued, dirty>>

\* The server restarts: PublishAll from the database, everything else is lost.
\* SelfCheck refuses to start with two active members.
Restart ==
  /\ Cardinality(With("active")) <= 1
  /\ seq' = 0
  /\ reg' = IF exists THEN [present |-> TRUE, active |-> Active, enabled |-> enabled,
                            rev |-> rev, seq |-> 0]
            ELSE NoSnapshot
  /\ tx' = [t \in Threads |-> NoTx]
  /\ job' = [t \in Threads |-> Idle]
  /\ queued' = 0
  /\ dirty' = FALSE
  /\ UNCHANGED <<exists, enabled, rev, status, fails, age, resid, cool, alive>>

-----------------------------------------------------------------------------
\* CreateGroup with the members S: the first by priority is active, and the
\* snapshot is published.
InitWith(S) ==
  /\ S # {}
  /\ exists = TRUE /\ enabled = TRUE /\ rev = 1 /\ seq = 1
  /\ status = [m \in Members |-> IF m \notin S THEN "absent"
                               ELSE IF m = Best(S) THEN "active" ELSE "standby"]
  /\ fails = [m \in Members |-> 0]
  /\ age = [m \in Members |-> Staleness + 1]
  /\ resid = 0 /\ cool = Cooldown
  /\ reg = [present |-> TRUE, active |-> Best(S), enabled |-> TRUE, rev |-> 1, seq |-> 1]
  /\ tx = [t \in Threads |-> NoTx]
  /\ job = [t \in Threads |-> Idle]
  /\ queued = 0 /\ dirty = FALSE
  /\ alive = Members

Init == \E S \in SUBSET Members : InitWith(S)

Publishing == \E t \in Threads : ReadRow(t) \/ ReadMembers(t) \/ Put(t) \/ Emit(t)
Dispatcher == Hook \/ ReloadStart \/ ReloadDone
Scanner    == scanGroup \/ failStaleGroupMember \/ selfHealGroup
Failover(t) == JustCount(t) \/ maybeGroupFailover(t) \/ LoseAuthority(t) \/ SwitchTo(t)
Writes(t)  ==
  \/ Failover(t) \/ IndexRefuses(t)
  \/ Activate(t) \/ DisableMember(t) \/ Handover(t) \/ Reset(t) \/ Delete(t)
Api(t)     ==
  \/ \E m \in Members : \/ ActivateGroupMember(t, m) \/ DeactivateGroupMember(t, m)
                        \/ ResetGroupMember(t, m)
  \/ \E b \in BOOLEAN : SetEnabled(t, b)
  \/ \E S \in SUBSET Members : UpdateMembers(t, S)
  \/ DeleteGroup(t)
Frames     == \E m \in Members : MarkSuccess(m)
Offline    == \E m \in Members : MarkFailure(m)
Devices    == \E m \in Members : Silence(m) \/ Revive(m)

Next ==
  \/ Publishing \/ Dispatcher \/ Scanner \/ Tick \/ Frames \/ applySuccess
  \/ Offline \/ Devices \/ Restart
  \/ \E t \in Threads : Writes(t) \/ Break(t)
  \/ \E t \in Apis : Api(t)

\* A transaction that has begun goes on, and a goroutine that has committed publishes;
\* the hook's goroutine, the reloader's ticker and the scanner's run for ever; time
\* passes, and a device that is alive keeps reporting.
Fairness ==
  /\ \A t \in Threads : /\ WF_vars(ReadRow(t) \/ ReadMembers(t) \/ Put(t) \/ Emit(t))
                        /\ WF_vars(Writes(t))
  /\ WF_vars(applySuccess)
  /\ WF_vars(Hook) /\ WF_vars(ReloadStart \/ ReloadDone)
  /\ WF_vars(Scanner)
  /\ WF_vars(Tick)
  /\ \A m \in Members : SF_vars(MarkSuccess(m))

Spec == Init /\ [][Next]_vars /\ Fairness
-----------------------------------------------------------------------------
(* Properties                                                              *)

Snapshot == [active : Members \cup {NoMember}, enabled : BOOLEAN, rev : Nat, seq : Nat,
             present : BOOLEAN]
Event    == [next : Members \cup {NoMember, Gone}, rev : Nat]
Stages   == {"idle", "success", "recover", "stale", "heal", "count", "trip", "settle",
             "activate", "disable", "handover", "reset", "delete"}

\* Every variable keeps its type; the database is one the tables can hold.
TypeOK ==
  /\ exists \in BOOLEAN /\ enabled \in BOOLEAN /\ rev \in Nat /\ seq \in Nat
  /\ status \in [Members -> {"absent", "active", "standby", "error", "disabled"}]
  /\ (\A m \in Members : fails[m] \in 0 .. MaxFail[m]) /\ age \in [Members -> 0 .. Staleness + 1]
  /\ resid \in 0 .. Residency /\ cool \in 0 .. Cooldown
  /\ reg \in Snapshot
  /\ tx \in [Threads -> [at : Stages, m : Members \cup {NoMember, Gone},
                         to : Members \cup {NoMember, Gone}, n : Nat]]
  /\ job \in [Threads -> [at : {"idle", "row", "members", "put", "emit", "clear"},
                          snap : Snapshot, ev : Event]]
  /\ queued \in 0 .. QueueCap /\ dirty \in BOOLEAN /\ alive \subseteq Members

\* I1: two elections that have both found the group without authority do not both
\* take place, whichever wrote first, so no restart is refused by SelfCheck.  No count
\* made before the UPDATE is what keeps them apart, but ux_sgm_one_active is, with the
\* order of the UPDATEs: who is active steps down before the successor steps up.
OneAuthority == Cardinality(With("active")) <= 1

\* F-1: the revision is the identity of a duration window.  No two members are the
\* authority under one revision: a member that becomes it, by whatever transaction,
\* and whatever that transaction's read has missed, does so under a new revision.
RevisionNamesOne == [][Active' # Active /\ Active' # NoMember => rev' > rev]_vars

\* The registry may lag behind the database, but a snapshot that carries the
\* current revision and transition number names the authority, if there is one: a
\* snapshot put together from two queries, or put late, is told by its identity.
CurrentIsTrue ==
  exists /\ Active # NoMember /\ reg.present /\ reg.rev = rev /\ reg.seq = seq
    => reg.active = Active

\* A switch that is over is followed: once a member stays the authority, the rules
\* end up with its frames, although publications overtake each other.
SwitchIsFollowed ==
  \A m \in Members :
    <>[](exists /\ enabled /\ status[m] = "active" /\ m \in alive) => <>[](reg.active = m)

\* N-21: an enabled group that has a standby member with fresh data does not stay
\* without authority.
AuthorityReturns ==
  []<>~(/\ exists /\ enabled /\ Active = NoMember
        /\ \E m \in With("standby") : Fresh(m))

\* R2/R11: a member that is silent for good does not stay the authority of an
\* enabled group, however often it was counted, reset or elected before.
SilentYields ==
  \A m \in Members : <>[](exists /\ enabled /\ m \notin alive) => []<>(status[m] # "active")

\* selfHealGroup elects a member "from the standby members that succeeded lately":
\* a member the operator has disabled comes back by the operator's request only.
OnlyOperatorEnables ==
  [][\A m \in Members : status[m] = "disabled" /\ status'[m] = "active" =>
       \E t \in Apis : job[t] = Idle /\ job'[t] # Idle]_vars

\* ActiveChange: Next = 0 says that the group has lost its authority, and consumers
\* clear their windows on it: whenever an enabled group loses its active member,
\* the goroutine that did it carries such an event.
LossIsAnnounced ==
  [][exists' /\ enabled /\ Active # NoMember /\ Active' = NoMember =>
       \E t \in Threads : job[t] = Idle /\ job'[t].ev.rev = rev' /\ job'[t].ev.next = NoMember]_vars

\* "An authority migration must carry a monotonic revision" (DeleteGroup): no member
\* of an enabled group stops being the authority under the revision it was elected in.
LossMovesRevision ==
  [][exists' /\ enabled /\ Active # NoMember /\ Active' = NoMember => rev' > rev]_vars
=============================================================================
