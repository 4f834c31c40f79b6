------------------------- MODULE SourceGroupProofs -------------------------
(***************************************************************************)
(* Proofs about source groups, for any members, priorities, limits,         *)
(* intervals and number of requests at once, with transactions that read in *)
(* one step and write in another.  What the properties leave out, and IInv  *)
(* adds, is about what is under way: no transaction holds on to a member of *)
(* a group that is gone, or counts past a limit (Pending, Empty); a         *)
(* snapshot that a goroutine is putting together is never ahead of the      *)
(* database, and once its members have been read it is true of the revision *)
(* and the transition it carries (Honest).                                  *)
(***************************************************************************)
EXTENDS SourceGroup, FiniteSetTheorems, WellFoundedInduction, TLAPS

MemberStates == {"absent", "active", "standby", "error", "disabled"}

Single(st) == \A m, n \in Members : st[m] = "active" /\ st[n] = "active" => m = n

\* No snapshot is ahead of the database.
Behind(s) == s.present => s.rev <= rev /\ s.seq <= seq

\* A snapshot that carries the present revision and transition names the authority.
Honest(s) ==
  exists /\ Active # NoMember /\ s.present /\ s.rev = rev /\ s.seq = seq => s.active = Active

Published ==
  /\ Behind(reg) /\ Honest(reg)
  /\ \A t \in Threads : /\ job[t].at \in {"members", "put", "emit", "clear"} => Behind(job[t].snap)
                        /\ job[t].at = "put" => Honest(job[t].snap)
                        /\ job[t].at = "members" => job[t].snap.present

\* What a transaction has read: a count within the limit, and a member to elect only
\* while the group exists.
Within(r) == (r.m \in Members => r.n <= MaxFail[r.m]) /\ (r.to \in Members => exists)
Pending   == \A t \in Threads : Within(tx[t])

\* A group that is gone has no authority.
Empty == ~exists => \A m \in Members : status[m] # "active"

Typed == TypeOK /\ fails \in [Members -> Nat]

IInv == Typed /\ Single(status) /\ Empty /\ Pending /\ Published

-----------------------------------------------------------------------------
(* A finite set has a best member: the rank is a number, so that no set of  *)
(* members that lacks one is the smallest of its kind.                      *)

LEMMA LeastNumber ==
  ASSUME NEW T \in SUBSET Nat, T # {}
  PROVE  \E n \in T : \A k \in T : ~(k < n)
<1>1. IsWellFoundedOn(OpToRel(<, Nat), Nat)
  BY NatLessThanWellFounded
<1>2. PICK n \in T : \A k \in T : ~(<<k, n>> \in OpToRel(<, Nat))
  BY <1>1, WFMin
<1> QED  BY <1>2 DEF OpToRel

\* Of the members of a set that is not empty one is the best.
LEMMA BestExists ==
  ASSUME NEW S \in SUBSET Members, S # {}
  PROVE  \E m \in S : \A n \in S : Rank[n] <= Rank[m]
<1> USE SourceAssumption
<1> DEFINE NoBest(U) == U # {} /\ \A m \in U : \E n \in U : ~(Rank[n] <= Rank[m])
<1> DEFINE Sizes == {k \in Nat : \E U \in SUBSET Members : NoBest(U) /\ Cardinality(U) = k}
<1>1. SUFFICES ASSUME NoBest(S) PROVE FALSE
  OBVIOUS
<1>2. \A U \in SUBSET Members : IsFiniteSet(U) /\ Cardinality(U) \in Nat
  BY FS_Subset, FS_CardinalityType
<1>3. Sizes # {}
  BY <1>1, <1>2
<1>4. PICK k \in Sizes : \A j \in Sizes : ~(j < k)
  <2> HIDE DEF Sizes
  <2>1. Sizes \in SUBSET Nat
    BY DEF Sizes
  <2> QED  BY <1>3, <2>1, LeastNumber
<1>5. PICK U \in SUBSET Members : NoBest(U) /\ Cardinality(U) = k
  BY <1>4
<1>6. PICK x \in U : TRUE
  BY <1>5
<1>7. Cardinality(U \ {x}) = k - 1 /\ k \in Nat
  BY <1>2, <1>5, <1>6, <1>4, FS_RemoveElement
<1>8. ~NoBest(U \ {x})
  <2>1. SUFFICES ASSUME NoBest(U \ {x}) PROVE FALSE
    OBVIOUS
  <2>2. k - 1 \in Nat
    BY <1>2, <1>7
  <2>3. k - 1 \in Sizes
    BY <1>7, <2>1, <2>2
  <2> QED  BY <1>4, <2>3, <1>7
<1>9. CASE U \ {x} = {}
  BY <1>5, <1>6, <1>9
<1>10. CASE U \ {x} # {}
  <2>1. PICK y \in U \ {x} : \A n \in U \ {x} : Rank[n] <= Rank[y]
    BY <1>8, <1>10
  <2>2. \A n \in U : Rank[n] \in Nat
    OBVIOUS
  <2>3. CASE Rank[x] <= Rank[y]
    BY <1>5, <2>1, <2>3
  <2>4. CASE Rank[y] <= Rank[x]
    <3>1. \A n \in U : Rank[n] <= Rank[x]
      BY <2>1, <2>2, <2>4, <1>6
    <3> QED  BY <1>5, <1>6, <3>1
  <2> QED  BY <2>1, <2>2, <2>3, <2>4, <1>6
<1> QED  BY <1>9, <1>10

\* The best of a set of members is one of them.
LEMMA BestIn ==
  ASSUME NEW S \in SUBSET Members, S # {}
  PROVE  Best(S) \in S
BY BestExists DEF Best

\* The candidate is a standby member, if there is any.
LEMMA CandidateIn ==
  ASSUME NEW st
  PROVE  pickCandidate(st) # NoMember =>
           pickCandidate(st) \in Members /\ st[pickCandidate(st)] = "standby"
<1> DEFINE S == {m \in Members : st[m] = "standby"}
<1>1. CASE S = {}
  BY <1>1 DEF pickCandidate
<1>2. CASE S # {}
  <2>1. Best(S) \in S
    BY <1>2, BestIn
  <2> QED  BY <1>2, <2>1 DEF pickCandidate
<1> QED  BY <1>1, <1>2

-----------------------------------------------------------------------------
(* The authority of a group.                                                *)

\* The active member, of a group that has at most one.
LEMMA ActiveIs ==
  ASSUME NEW st, Single(st)
  PROVE  /\ \A m \in Members : st[m] = "active" => ActiveIn(st) = m
         /\ ActiveIn(st) # NoMember => ActiveIn(st) \in Members /\ st[ActiveIn(st)] = "active"
         /\ (\A m \in Members : st[m] # "active") => ActiveIn(st) = NoMember
BY DEF ActiveIn, Single

\* Two states of the members with the same active one have the same authority.
LEMMA SameActive ==
  ASSUME NEW st, NEW su, Single(st), \A m \in Members : st[m] = "active" <=> su[m] = "active"
  PROVE  Single(su) /\ ActiveIn(su) = ActiveIn(st)
<1>1. Single(su)
  BY DEF Single
<1>2. CASE \E m \in Members : st[m] = "active"
  <2>1. PICK m \in Members : st[m] = "active"
    BY <1>2
  <2>2. ActiveIn(st) = m
    BY <2>1, ActiveIs
  <2>3. ActiveIn(su) = m
    BY <1>1, <2>1, ActiveIs
  <2> QED  BY <1>1, <2>2, <2>3
<1>3. CASE ~\E m \in Members : st[m] = "active"
  BY <1>1, <1>3 DEF ActiveIn
<1> QED  BY <1>1, <1>2, <1>3

Members2 == [Members -> MemberStates]

\* An UPDATE that puts a member into another state than active elects nobody.
LEMMA Updated ==
  ASSUME NEW st \in Members2, NEW m, NEW v \in MemberStates, v # "active"
  PROVE  /\ Update(st, m, v) \in Members2
         /\ \A n \in Members : Update(st, m, v)[n] = "active" => st[n] = "active"
BY DEF Update, Members2

-----------------------------------------------------------------------------
(* Transactions.                                                            *)

\* Goroutine t has committed and begins to publish; readers see nothing yet.
Commits(t) ==
  /\ UNCHANGED reg
  /\ \E ev \in Event : job' = [job EXCEPT ![t] = [at |-> "row", snap |-> NoSnapshot, ev |-> ev]]

\* The revision and the transition number go on, and no member becomes the authority
\* without; the group may lose its authority and keep its revision.
Moves ==
  /\ rev' \in Nat /\ seq' \in Nat /\ rev' >= rev /\ seq' >= seq
  /\ exists' => exists
  /\ rev' > rev \/ Active' = Active \/ Active' = NoMember

Transaction(t) ==
  Commits(t) /\ Moves /\ status' \in Members2 /\ Single(status') /\ Empty'

\* The members and the numbers there are.
LEMMA Facts ==
  ASSUME IInv
  PROVE  /\ status \in Members2 /\ Single(status) /\ rev \in Nat /\ seq \in Nat
         /\ exists \in BOOLEAN /\ Bumped \in Nat /\ Bumped >= rev /\ NewRev \in Nat
BY DEF IInv, Typed, TypeOK, Members2, MemberStates, Bumped, NewRev

\* The events there are.
LEMMA Events ==
  ASSUME Typed
  PROVE  /\ NoEvent \in Event /\ NoSnapshot \in Snapshot
         /\ \A m \in Members \cup {NoMember, Gone}, n \in Nat : [next |-> m, rev |-> n] \in Event
BY DEF NoEvent, NoSnapshot, Event, Snapshot

\* Writing run state: the authority stays, or the group loses it.
LEMMA Writing ==
  ASSUME IInv, NEW t \in Threads, NEW ev \in Event, Publish(t, ev), UNCHANGED reg,
         rev' \in Nat, rev' >= rev, seq' \in Nat, seq' >= seq, exists' => exists,
         status' \in Members2, \A m \in Members : status'[m] = "active" => status[m] = "active",
         exists' = exists \/ \A m \in Members : status'[m] # "active"
  PROVE  Transaction(t)
<1>1. Single(status)
  BY Facts
<1>2. Commits(t)
  BY DEF Publish, Commits
<1>3. Single(status') /\ (Active' = Active \/ Active' = NoMember)
  <2>1. CASE \A m \in Members : status'[m] # "active"
    <3>1. Single(status') /\ ActiveIn(status') = NoMember
      BY <2>1 DEF Single, ActiveIn
    <3> QED  BY <3>1 DEF Active
  <2>2. CASE \E m \in Members : status'[m] = "active"
    <3>1. \A m \in Members : status[m] = "active" <=> status'[m] = "active"
      BY <1>1, <2>2 DEF Single
    <3>2. Single(status') /\ ActiveIn(status') = ActiveIn(status)
      BY <1>1, <3>1, SameActive
    <3> QED  BY <3>2 DEF Active
  <2> QED  BY <2>1, <2>2
<1>4. Empty'
  BY DEF IInv, Empty
<1> QED  BY <1>2, <1>3, <1>4 DEF Transaction, Moves

\* The same without a revision, an event or another group.
LEMMA RunState ==
  ASSUME IInv, NEW t \in Threads, Publish(t, NoEvent), UNCHANGED <<exists, rev, seq, reg>>,
         status' \in Members2, \A m \in Members : status'[m] = "active" => status[m] = "active"
  PROVE  Transaction(t)
<1>1. NoEvent \in Event
  BY Events DEF IInv
<1>2. UNCHANGED exists /\ UNCHANGED rev /\ UNCHANGED seq /\ UNCHANGED reg
  OBVIOUS
<1>3. rev' \in Nat /\ rev' >= rev /\ seq' \in Nat /\ seq' >= seq
  BY <1>2, Facts
<1> QED  BY <1>1, <1>2, <1>3, Writing

\* Every other transaction moves the revision of a group that exists.
LEMMA Bumps ==
  ASSUME IInv, NEW t \in Threads, NEW ev \in Event, Publish(t, ev), UNCHANGED reg,
         rev' \in Nat, rev' > rev, seq' \in Nat, seq' >= seq, exists, exists',
         status' \in Members2, Single(status')
  PROVE  Transaction(t)
<1>1. Commits(t)
  BY DEF Publish, Commits
<1>2. rev' >= rev /\ Empty'
  BY Facts DEF Empty
<1> QED  BY <1>1, <1>2 DEF Transaction, Moves

\* An election that the index lets through, of a member that may be gone.
LEMMA Elects ==
  ASSUME IInv, NEW t \in Threads, NEW st \in Members2, NEW c, Elect(t, st, c),
         \A n \in Members : st[n] = "active" => status[n] = "active",
         UNCHANGED exists, UNCHANGED reg
  PROVE  Transaction(t)
<1> DEFINE m  == tx[t].to
           ev == [next |-> m, rev |-> NewRev]
<1>1. /\ ~Refused(st, m) /\ status' = Update(st, m, "active") /\ rev' = Bumped
      /\ seq' = seq + 1 /\ Publish(t, ev)
  BY DEF Elect, Commit
<1>2. Typed
  BY DEF IInv
<1>3. m \in Members \cup {NoMember, Gone}
  BY <1>2 DEF Typed, TypeOK
<1>4. ev \in Event
  BY <1>2, <1>3, Facts, Events
<1>5. seq' \in Nat /\ seq' >= seq
  BY <1>1, Facts
<1>6. CASE m \in Members
  <2>1. exists
    BY <1>6 DEF IInv, Pending, Within
  <2>2. rev' \in Nat /\ rev' > rev
    BY <1>1, <2>1, Facts DEF Bumped
  <2>3. status' = [st EXCEPT ![m] = "active"]
    BY <1>1, <1>6 DEF Update
  <2>4. \A n \in Members \ {m} : st[n] # "active"
    BY <1>1, <1>6 DEF Refused
  <2>5. status' \in Members2 /\ Single(status')
    BY <1>6, <2>3, <2>4 DEF Members2, MemberStates, Single
  <2> HIDE DEF ev
  <2> QED  BY <1>1, <1>4, <1>5, <2>1, <2>2, <2>5, Bumps
<1>7. CASE m \notin Members
  <2>1. status' = st
    BY <1>1, <1>7 DEF Update
  <2>2. rev' \in Nat /\ rev' >= rev
    BY <1>1, Facts
  <2> HIDE DEF ev
  <2> QED  BY <1>1, <1>4, <1>5, <2>1, <2>2, Writing
<1> QED  BY <1>6, <1>7

-----------------------------------------------------------------------------
(* Kinds of steps.                                                          *)

\* The database's part of the state that readers are told about.
facts == <<exists, rev, status, seq>>

\* A step of the server that is running, and not of a publication: a transaction
\* commits, or nothing of it is to be seen.
Works ==
  \/ \E t \in Threads : Transaction(t)
  \/ UNCHANGED <<facts, reg, job>>

\* What only reads, and what is undone, shows nothing.
LEMMA ReadsShowNothing ==
  ASSUME NEW t, NEW r, Reads(t, r)
  PROVE  Works
BY DEF Reads, Works, db, facts

\* The frame worker.
LEMMA FrameWorks ==
  ASSUME IInv, applySuccess
  PROVE  Works
<1>1. "frame" \in Threads
  BY DEF Threads
<1>2. /\ Publish("frame", NoEvent) /\ UNCHANGED <<exists, rev, seq, reg>>
      /\ status' \in {status, Update(status, tx["frame"].m, "standby")}
  BY DEF applySuccess, Commit
<1>3. "standby" \in MemberStates
  BY DEF MemberStates
<1>4. status' \in Members2 /\ \A m \in Members : status'[m] = "active" => status[m] = "active"
  BY <1>2, <1>3, Facts, Updated
<1> QED  BY <1>1, <1>2, <1>4, RunState DEF Works

\* The scanner reads and decides, or commits a transaction that does nothing.
LEMMA ScannerWorks ==
  ASSUME IInv, Scanner
  PROVE  Works
<1>1. "scan" \in Threads
  BY DEF Threads
<1>2. CASE \E r : Reads("scan", r)
  BY <1>2, ReadsShowNothing
<1>3. CASE ScanDone
  <2>1. /\ Publish("scan", NoEvent) /\ UNCHANGED <<exists, rev, seq, reg>> /\ UNCHANGED status
    BY <1>3 DEF ScanDone, Commit, db
  <2> QED  BY <1>1, <2>1, Facts, RunState DEF Works
<1> QED
  BY <1>2, <1>3 DEF Scanner, scanGroup, failStaleGroupMember, selfHealGroup, countFailure

\* A transaction of a failure count, of a request or of an election writes.
LEMMA WritesWork ==
  ASSUME IInv, NEW t \in Threads, Writes(t)
  PROVE  Works
<1>1. status \in Members2 /\ Single(status) /\ rev \in Nat /\ seq \in Nat
  BY Facts
<1>2. {"error", "standby", "disabled"} \subseteq MemberStates
  BY DEF MemberStates
<1>3. /\ Failed(t) \in Members2 /\ \A m \in Members : Failed(t)[m] = "active" => status[m] = "active"
  BY <1>1, <1>2, Updated DEF Failed
<1>4. /\ Disabled(t) \in Members2 /\ \A m \in Members : Disabled(t)[m] = "active" => status[m] = "active"
  BY <1>1, <1>2, Updated DEF Disabled
<1>5. CASE JustCount(t)
  <2>1. Publish(t, NoEvent) /\ UNCHANGED <<exists, rev, seq, reg>> /\ UNCHANGED status
    BY <1>5 DEF JustCount, Commit
  <2> QED  BY <1>1, <2>1, RunState DEF Works
<1>6. CASE maybeGroupFailover(t)
  <2>1. CASE \E r : Reads(t, r)
    BY <2>1, ReadsShowNothing
  <2>2. CASE Commit(t, NoEvent) /\ status' = Failed(t) /\ UNCHANGED <<exists, rev, seq, reg>>
    <3>1. Publish(t, NoEvent)
      BY <2>2 DEF Commit
    <3> QED  BY <1>3, <2>2, <3>1, RunState DEF Works
  <2> QED  BY <1>6, <2>1, <2>2 DEF maybeGroupFailover, Failed
<1>7. CASE LoseAuthority(t)
  <2> DEFINE ev == [next |-> NoMember, rev |-> NewRev]
  <2>1. /\ Publish(t, ev) /\ status' = Failed(t) /\ rev' = Bumped /\ seq' = seq + 1
        /\ UNCHANGED exists /\ UNCHANGED reg
    BY <1>7 DEF LoseAuthority, Commit
  <2>2. ev \in Event
    BY Events, Facts DEF IInv
  <2>3. rev' \in Nat /\ rev' >= rev /\ seq' \in Nat /\ seq' >= seq
    BY <1>1, <2>1, Facts
  <2> HIDE DEF ev
  <2> QED  BY <1>3, <2>1, <2>2, <2>3, Writing DEF Works
<1>8. CASE SwitchTo(t)
  BY <1>3, <1>8, Elects DEF SwitchTo, Works
<1>9. CASE IndexRefuses(t)
  BY <1>9, ReadsShowNothing DEF IndexRefuses, Rollback
<1>10. CASE Activate(t)
  <2>1. SteppedDown \in Members2 /\ \A m \in Members : SteppedDown[m] # "active"
    BY <1>1, <1>2 DEF SteppedDown, Members2
  <2> QED  BY <1>10, <2>1, Elects DEF Activate, Works
<1>11. CASE DisableMember(t)
  <2>1. Publish(t, NoEvent) /\ UNCHANGED <<exists, rev, seq, reg>> /\ status' = Disabled(t)
    BY <1>11 DEF DisableMember, Commit
  <2> QED  BY <1>4, <2>1, RunState DEF Works
<1>12. CASE Handover(t)
  BY <1>4, <1>12, Elects DEF Handover, Works
<1>13. CASE Reset(t)
  <2>1. CASE Elect(t, status, cool)
    <3>1. UNCHANGED exists /\ UNCHANGED reg
      BY <1>13 DEF Reset
    <3> QED  BY <1>1, <2>1, <3>1, Elects DEF Works
  <2>2. CASE ~Elect(t, status, cool)
    <3>1. /\ Publish(t, NoEvent) /\ UNCHANGED <<exists, rev, seq, reg>>
          /\ status' = Update(status, tx[t].m, "standby")
      BY <1>13, <2>2 DEF Reset, Commit
    <3>2. status' \in Members2 /\ \A m \in Members : status'[m] = "active" => status[m] = "active"
      BY <1>1, <1>2, <3>1, Updated
    <3> QED  BY <3>1, <3>2, RunState DEF Works
  <2> QED  BY <2>1, <2>2
<1>14. CASE Delete(t)
  <2>1. PICK ev \in Event : Publish(t, ev)
    <3>1. /\ [next |-> NoMember, rev |-> NewRev] \in Event /\ NoEvent \in Event
      BY Events, Facts DEF IInv
    <3> QED  BY <1>14, <3>1 DEF Delete
  <2>2. /\ status' = [m \in Members |-> "absent"] /\ exists' = FALSE /\ UNCHANGED reg
        /\ rev' \in {rev, Bumped} /\ seq' \in {seq, seq + 1}
    BY <1>14 DEF Delete
  <2>3. status' \in Members2 /\ \A m \in Members : status'[m] # "active"
    BY <2>2 DEF Members2, MemberStates
  <2>4. rev' \in Nat /\ rev' >= rev /\ seq' \in Nat /\ seq' >= seq
    BY <1>1, <2>2, Facts
  <2> QED  BY <2>1, <2>2, <2>3, <2>4, Writing DEF Works
<1> QED
  BY <1>5, <1>6, <1>7, <1>8, <1>9, <1>10, <1>11, <1>12, <1>13, <1>14, Zenon DEF Writes, Failover

\* A request reads, or is done in one transaction without reading before.
LEMMA ApiWorks ==
  ASSUME IInv, NEW t \in Apis, Api(t)
  PROVE  Works
<1>1. status \in Members2 /\ Single(status) /\ rev \in Nat /\ seq \in Nat
  BY Facts
<1>2. t \in Threads
  BY DEF Threads
<1>3. NoEvent \in Event
  BY Events DEF IInv
<1>4. CASE \E r : Reads(t, r)
  BY <1>4, ReadsShowNothing
<1>5. CASE Publish(t, NoEvent) /\ UNCHANGED <<db, reg>>
  <2>1. UNCHANGED <<exists, rev, seq, reg>> /\ UNCHANGED status
    BY <1>5 DEF db
  <2> QED  BY <1>1, <1>2, <1>5, <2>1, RunState DEF Works
<1>6. ASSUME NEW m \in Members, ActivateGroupMember(t, m) PROVE Works
  BY <1>4, <1>5, <1>6 DEF ActivateGroupMember
<1>7. ASSUME NEW m \in Members, DeactivateGroupMember(t, m) \/ ResetGroupMember(t, m) PROVE Works
  BY <1>4, <1>7 DEF DeactivateGroupMember, ResetGroupMember
<1>8. ASSUME NEW b \in BOOLEAN, SetEnabled(t, b) PROVE Works
  <2>1. Publish(t, NoEvent) /\ UNCHANGED <<exists, rev, seq, reg>> /\ UNCHANGED status
    BY <1>8 DEF SetEnabled
  <2> QED  BY <1>1, <1>2, <2>1, RunState DEF Works
<1>9. ASSUME NEW S \in SUBSET Members, UpdateMembers(t, S) PROVE Works
  <2> DEFINE m == pickCandidate(Replaced(S))
             elects == ActiveIn(Replaced(S)) = NoMember /\ m # NoMember
  <2>1. Replaced(S) \in Members2 /\ Single(Replaced(S))
    BY <1>1 DEF Replaced, Members2, MemberStates, Single
  <2>2. /\ status' = IF elects THEN [Replaced(S) EXCEPT ![m] = "active"] ELSE Replaced(S)
        /\ rev' = IF elects THEN rev + 2 ELSE rev + 1
        /\ seq' = IF elects THEN seq + 1 ELSE seq
        /\ Publish(t, IF elects THEN [next |-> m, rev |-> rev + 2] ELSE NoEvent)
        /\ UNCHANGED <<exists, reg>> /\ exists
    BY <1>9 DEF UpdateMembers, Request
  <2>3. status' \in Members2 /\ Single(status')
    <3>1. CASE elects
      <4>1. \A n \in Members : Replaced(S)[n] # "active"
        BY <2>1, <3>1, ActiveIs, SourceAssumption
      <4>2. m \in Members
        BY <3>1, CandidateIn
      <4>3. status' = [Replaced(S) EXCEPT ![m] = "active"]
        BY <2>2, <3>1
      <4> HIDE DEF m, elects
      <4> QED  BY <2>1, <4>1, <4>2, <4>3 DEF Members2, MemberStates, Single
    <3> QED  BY <2>1, <2>2, <3>1
  <2>4. (IF elects THEN [next |-> m, rev |-> rev + 2] ELSE NoEvent) \in Event
    BY <1>1, <1>3, CandidateIn, Events DEF IInv
  <2>5. rev' \in Nat /\ rev' > rev /\ seq' \in Nat /\ seq' >= seq /\ exists'
    BY <1>1, <2>2
  <2> HIDE DEF m, elects
  <2> QED  BY <1>2, <2>2, <2>3, <2>4, <2>5, Bumps DEF Works
<1>10. ASSUME DeleteGroup(t) PROVE Works
  BY <1>4, <1>10 DEF DeleteGroup
<1> QED  BY <1>6, <1>7, <1>8, <1>9, <1>10, Zenon DEF Api

-----------------------------------------------------------------------------
(* IInv is inductive.                                                       *)

\* Every step is a publication, a restart or what Works says.
LEMMA Kinds ==
  ASSUME IInv, [Next]_vars
  PROVE  \/ Works
         \/ UNCHANGED db /\ (Publishing \/ ReloadStart \/ ReloadDone)
         \/ Restart
<1>1. CASE Hook \/ Tick \/ (\E m \in Members : Silence(m) \/ Revive(m)) \/ UNCHANGED vars
  BY <1>1 DEF Hook, Tick, Silence, Revive, vars, db, facts, Works
<1>2. CASE Publishing \/ ReloadStart \/ ReloadDone
  BY <1>2 DEF Publishing, ReadRow, ReadMembers, Put, Emit, ReloadStart, ReloadDone
<1>3. CASE Restart
  BY <1>3
<1>4. CASE Scanner
  BY <1>4, ScannerWorks
<1>5. CASE Frames \/ Offline
  BY <1>5, ReadsShowNothing DEF Frames, Offline, MarkSuccess, MarkFailure, countFailure
<1>6. CASE applySuccess
  BY <1>6, FrameWorks
<1>7. CASE \E t \in Threads : Writes(t) \/ Break(t)
  BY <1>7, WritesWork, ReadsShowNothing DEF Break, Rollback
<1>8. CASE \E t \in Apis : Api(t)
  BY <1>8, ApiWorks
<1> QED
  BY <1>1, <1>2, <1>3, <1>4, <1>5, <1>6, <1>7, <1>8, Zenon DEF Next, Dispatcher, Devices

\* A snapshot in flight is as true after a transaction as before it.
LEMMA Outdated ==
  ASSUME Moves, NEW s, s.present => s.rev \in Nat /\ s.seq \in Nat, rev \in Nat, seq \in Nat, Behind(s)
  PROVE  Behind(s)' /\ (Honest(s) => Honest(s)')
<1>1. Behind(s)'
  BY DEF Behind, Moves
<1>2. ASSUME Honest(s), exists', Active' # NoMember, s.present, s.rev = rev', s.seq = seq'
      PROVE  s.active = Active'
  BY <1>2 DEF Behind, Honest, Moves
<1> QED  BY <1>1, <1>2 DEF Honest

\* Publications stay true of the revision they carry.
LEMMA PublishedStep ==
  ASSUME IInv, [Next]_vars
  PROVE  Published'
<1>1. /\ job \in [Threads -> [at : {"idle", "row", "members", "put", "emit", "clear"},
                             snap : Snapshot, ev : Event]]
      /\ reg \in Snapshot /\ rev \in Nat /\ seq \in Nat
      /\ \A t \in Threads : job[t].snap \in Snapshot
  BY DEF IInv, Typed, TypeOK
<1>2. \A s \in Snapshot : s.rev \in Nat /\ s.seq \in Nat
  BY DEF Snapshot
<1>3. CASE \E t \in Threads : Transaction(t)
  <2>1. PICK t \in Threads : Transaction(t)
    BY <1>3
  <2>2. \A s \in Snapshot : Behind(s) => Behind(s)' /\ (Honest(s) => Honest(s)')
    BY <1>1, <1>2, <2>1, Outdated DEF Transaction
  <2>3. /\ reg' = reg /\ job'[t].at = "row"
        /\ \A u \in Threads \ {t} : job'[u] = job[u]
    BY <1>1, <2>1 DEF Transaction, Commits
  <2>4. Behind(reg)' /\ Honest(reg)'
    <3>1. Behind(reg) /\ Honest(reg)
      BY DEF IInv, Published
    <3> QED  BY <1>1, <2>2, <2>3, <3>1 DEF Behind, Honest
  <2>5. ASSUME NEW u \in Threads, u # t
        PROVE  /\ job'[u].at \in {"members", "put", "emit", "clear"} => Behind(job[u].snap)'
               /\ job'[u].at = "put" => Honest(job[u].snap)'
               /\ job'[u].at = "members" => job'[u].snap.present
    <3>1. /\ job[u].at \in {"members", "put", "emit", "clear"} => Behind(job[u].snap)
          /\ job[u].at = "put" => Honest(job[u].snap)
          /\ job[u].at = "members" => job[u].snap.present
      BY DEF IInv, Published
    <3>2. job'[u] = job[u] /\ job[u].snap \in Snapshot
      BY <1>1, <2>3, <2>5
    <3> QED  BY <2>2, <3>1, <3>2 DEF Behind, Honest
  <2> QED  BY <2>3, <2>4, <2>5 DEF Published
<1>4. CASE UNCHANGED db /\ (Publishing \/ ReloadStart \/ ReloadDone)
  <2>1. UNCHANGED <<exists, rev, seq, Active>>
    BY <1>4 DEF db, Active
  <2>2. \A s \in Snapshot : (Behind(s) => Behind(s)') /\ (Honest(s) => Honest(s)')
    BY <2>1 DEF Behind, Honest
  <2>3. ASSUME NEW t \in Threads, NEW x, job' = [job EXCEPT ![t] = x],
               x.at \in {"members", "put", "emit", "clear"} => Behind(x.snap),
               x.at = "put" => Honest(x.snap),
               x.at = "members" => x.snap.present,
               x.snap \in Snapshot,
               reg' = reg \/ (job[t].at = "put" /\ reg' = job[t].snap)
        PROVE  Published'
    <3>1. Behind(reg)' /\ Honest(reg)'
      <4>1. Behind(reg) /\ Honest(reg) /\ (job[t].at = "put" => Behind(job[t].snap) /\ Honest(job[t].snap))
        BY DEF IInv, Published
      <4> QED  BY <1>1, <2>2, <2>3, <4>1 DEF Behind, Honest
    <3>2. job'[t] = x
      BY <1>1, <2>3
    <3>3. /\ job'[t].at \in {"members", "put", "emit", "clear"} => Behind(job[t].snap)'
          /\ job'[t].at = "put" => Honest(job[t].snap)'
          /\ job'[t].at = "members" => job'[t].snap.present
      BY <2>2, <2>3, <3>2 DEF Behind, Honest
    <3>4. ASSUME NEW u \in Threads, u # t
          PROVE  /\ job'[u].at \in {"members", "put", "emit", "clear"} => Behind(job[u].snap)'
                 /\ job'[u].at = "put" => Honest(job[u].snap)'
                 /\ job'[u].at = "members" => job'[u].snap.present
      <4>1. /\ job[u].at \in {"members", "put", "emit", "clear"} => Behind(job[u].snap)
            /\ job[u].at = "put" => Honest(job[u].snap)
            /\ job[u].at = "members" => job[u].snap.present
        BY DEF IInv, Published
      <4>2. job'[u] = job[u] /\ job[u].snap \in Snapshot
        BY <1>1, <2>3, <3>4
      <4> QED  BY <2>2, <4>1, <4>2 DEF Behind, Honest
    <3> QED  BY <3>1, <3>3, <3>4 DEF Published
  <2> DEFINE Was(t) == /\ job[t].at \in {"members", "put", "emit", "clear"} => Behind(job[t].snap)
                       /\ job[t].at = "put" => Honest(job[t].snap)
                       /\ job[t].at = "members" => job[t].snap.present
  <2>a. \A t \in Threads : Was(t)
    BY DEF IInv, Published
  <2>4. ASSUME NEW t \in Threads, ReadRow(t) PROVE Published'
    <3> DEFINE sn == IF exists THEN [NoSnapshot EXCEPT !.present = TRUE, !.enabled = enabled, !.rev = rev]
                     ELSE NoSnapshot
    <3> DEFINE x == [job[t] EXCEPT !.at = IF exists THEN "members" ELSE "put", !.snap = sn]
    <3>1. job' = [job EXCEPT ![t] = x] /\ reg' = reg
      BY <1>1, <2>4 DEF ReadRow
    <3>2. sn \in Snapshot /\ Behind(sn) /\ (~exists => Honest(sn)) /\ (exists => sn.present)
      <4>1. enabled \in BOOLEAN
        BY DEF IInv, Typed, TypeOK
      <4>2. NoSnapshot \in Snapshot /\ ~NoSnapshot.present
        BY Events DEF IInv, NoSnapshot
      <4>3. CASE exists
        <5>1. sn = [NoSnapshot EXCEPT !.present = TRUE, !.enabled = enabled, !.rev = rev]
          BY <4>3
        <5>2. sn \in Snapshot /\ sn.present /\ sn.rev = rev /\ sn.seq = 0
          BY <1>1, <4>1, <5>1 DEF NoSnapshot, Snapshot
        <5> HIDE DEF sn
        <5> QED  BY <1>1, <4>3, <5>2 DEF Behind
      <4>4. CASE ~exists
        BY <4>2, <4>4 DEF Behind, Honest
      <4> QED  BY <4>3, <4>4
    <3>3. x.snap = sn /\ x.at = IF exists THEN "members" ELSE "put"
      BY <1>1
    <3> HIDE DEF x, sn
    <3> QED  BY <2>3, <3>1, <3>2, <3>3
  <2>5. ASSUME NEW t \in Threads, ReadMembers(t) PROVE Published'
    <3> DEFINE sn == [job[t].snap EXCEPT !.active = Active, !.seq = seq]
    <3> DEFINE x == [job[t] EXCEPT !.at = "put", !.snap = sn]
    <3>1. job' = [job EXCEPT ![t] = x] /\ reg' = reg
      BY <1>1, <2>5 DEF ReadMembers
    <3>2. sn \in Snapshot /\ Behind(sn) /\ Honest(sn)
      <4>1. Active \in Members \cup {NoMember}
        BY ActiveIs DEF IInv, Active
      <4>2. job[t].at = "members" /\ job[t].snap.present /\ Behind(job[t].snap)
        BY <2>a, <2>5 DEF ReadMembers
      <4>3. sn.active = Active /\ sn.seq = seq /\ sn.rev = job[t].snap.rev /\ sn.present /\ sn \in Snapshot
        BY <1>1, <4>1, <4>2 DEF Snapshot
      <4> QED  BY <1>1, <4>2, <4>3 DEF Behind, Honest
    <3>3. x.snap = sn /\ x.at = "put"
      BY <1>1
    <3> HIDE DEF x, sn
    <3> QED  BY <2>3, <3>1, <3>2, <3>3
  <2>6. ASSUME NEW t \in Threads, Put(t) PROVE Published'
    <3>1. PICK at \in {"clear", "emit", "idle"} :
            \/ at # "idle" /\ job' = [job EXCEPT ![t] = [job[t] EXCEPT !.at = at]]
            \/ job' = [job EXCEPT ![t] = Idle]
      BY <1>1, <2>6 DEF Put
    <3>2. Behind(job[t].snap) /\ reg' = job[t].snap /\ job[t].at = "put"
      BY <2>a, <2>6 DEF Put
    <3>3. CASE at # "idle" /\ job' = [job EXCEPT ![t] = [job[t] EXCEPT !.at = at]]
      <4> DEFINE x == [job[t] EXCEPT !.at = at]
      <4>1. x.snap = job[t].snap /\ x.at = at
        BY <1>1
      <4>2. job' = [job EXCEPT ![t] = x]
        BY <3>3
      <4> HIDE DEF x
      <4> QED  BY <1>1, <2>3, <3>1, <3>2, <3>3, <4>1, <4>2
    <3>4. CASE job' = [job EXCEPT ![t] = Idle]
      <4>1. Idle.at = "idle" /\ Idle.snap \in Snapshot
        BY Events DEF Idle, IInv
      <4> QED  BY <2>3, <3>2, <3>4, <4>1
    <3> QED  BY <3>1, <3>3, <3>4
  <2>7. ASSUME NEW t \in Threads, NEW x, job' = [job EXCEPT ![t] = x], x.at \in {"idle", "row"},
               x.snap = NoSnapshot, UNCHANGED reg
        PROVE  Published'
    BY <2>3, <2>7, Events DEF IInv
  <2>8. ASSUME NEW t \in Threads, Emit(t) PROVE Published'
    <3>1. job' = [job EXCEPT ![t] = Idle] /\ UNCHANGED reg
      BY <2>8 DEF Emit
    <3>2. Idle.at = "idle" /\ Idle.snap = NoSnapshot
      BY DEF Idle
    <3> QED  BY <2>7, <3>1, <3>2
  <2>9. "reload" \in Threads
    BY DEF Threads
  <2>10. CASE ReloadStart
    <3> DEFINE x == [at |-> "row", snap |-> NoSnapshot, ev |-> NoEvent]
    <3>1. job' = [job EXCEPT !["reload"] = x] /\ UNCHANGED reg
      BY <2>10 DEF ReloadStart, Publish
    <3>2. x.at = "row" /\ x.snap = NoSnapshot
      OBVIOUS
    <3> HIDE DEF x
    <3> QED  BY <2>7, <2>9, <3>1, <3>2
  <2>11. CASE ReloadDone
    <3>1. job' = [job EXCEPT !["reload"] = Idle] /\ UNCHANGED reg
      BY <2>11 DEF ReloadDone
    <3>2. Idle.at = "idle" /\ Idle.snap = NoSnapshot
      BY DEF Idle
    <3> QED  BY <2>7, <2>9, <3>1, <3>2
  <2> QED  BY <1>4, <2>4, <2>5, <2>6, <2>8, <2>10, <2>11 DEF Publishing
<1>5. CASE UNCHANGED <<facts, reg, job>>
  BY <1>5 DEF facts, IInv, Published, Behind, Honest, Active
<1>6. CASE Restart
  <2>1. /\ rev' = rev /\ seq' = 0 /\ exists' = exists /\ Active' = Active
        /\ job' = [t \in Threads |-> Idle]
        /\ reg' = IF exists THEN [present |-> TRUE, active |-> Active, enabled |-> enabled, rev |-> rev, seq |-> 0]
                  ELSE NoSnapshot
    BY <1>6 DEF Restart, Active
  <2>2. Behind(reg)' /\ Honest(reg)'
    BY <1>1, <2>1 DEF Behind, Honest, NoSnapshot
  <2>3. \A t \in Threads : job'[t].at = "idle"
    BY <2>1 DEF Idle
  <2> QED  BY <2>2, <2>3 DEF Published
<1> QED  BY <1>3, <1>4, <1>5, <1>6, Kinds DEF Works

-----------------------------------------------------------------------------
(* Types.                                                                   *)

\* What no reader sees: run state, intervals, the dispatcher's.
Counters ==
  /\ exists \in BOOLEAN /\ enabled \in BOOLEAN
  /\ (\A m \in Members : fails[m] \in 0 .. MaxFail[m]) /\ fails \in [Members -> Nat]
  /\ age \in [Members -> 0 .. Staleness + 1]
  /\ resid \in 0 .. Residency /\ cool \in 0 .. Cooldown
  /\ queued \in 0 .. QueueCap /\ dirty \in BOOLEAN /\ alive \subseteq Members

\* What a transaction writes of the run state.
RunWrite(t) ==
  /\ fails' \in {fails, Update(fails, tx[t].m, tx[t].n), Update(fails, tx[t].m, 0)}
  /\ age' \in {age, Update(age, tx[t].m, 0)}
  /\ resid' \in {0, resid} /\ cool' \in {0, cool}
  /\ UNCHANGED <<exists, enabled, queued, dirty, alive>>

\* A count that was read within its limit is written within it, whatever the row is now.
LEMMA RunWritten ==
  ASSUME IInv, NEW t \in Threads, RunWrite(t)
  PROVE  Counters'
<1> USE SourceAssumption
<1>1. Counters /\ tx[t].n \in Nat /\ Within(tx[t])
  BY DEF IInv, Typed, TypeOK, Counters, Pending
<1>2. (\A m \in Members : fails'[m] \in 0 .. MaxFail[m]) /\ fails' \in [Members -> Nat]
  BY <1>1 DEF RunWrite, Update, Counters, Within
<1>3. age' \in [Members -> 0 .. Staleness + 1]
  BY <1>1 DEF RunWrite, Update, Counters
<1>4. resid' \in 0 .. Residency /\ cool' \in 0 .. Cooldown
  BY <1>1 DEF RunWrite, Counters
<1> QED  BY <1>1, <1>2, <1>3, <1>4 DEF RunWrite, Counters

\* A transaction that only reads, or that does nothing, counts nothing.
LEMMA CountsNothing ==
  ASSUME IInv, UNCHANGED <<db, queued, dirty, alive>>
  PROVE  Counters'
<1>1. Counters /\ UNCHANGED <<exists, enabled, fails, age, resid, cool, queued, dirty, alive>>
  BY DEF Counters, IInv, Typed, TypeOK, db
<1> QED  BY <1>1 DEF Counters

\* The writes of a transaction that has read before.
LEMMA WritesCount ==
  ASSUME IInv, NEW t \in Threads, Writes(t)
  PROVE  Counters'
<1> USE SourceAssumption
<1>1. Counters
  BY DEF Counters, IInv, Typed, TypeOK
<1>2. CASE \E r : Reads(t, r)
  BY <1>2, CountsNothing DEF Reads
<1>3. CASE JustCount(t) \/ LoseAuthority(t)
  BY <1>3, RunWritten DEF JustCount, LoseAuthority, Touch, RunWrite
<1>4. CASE maybeGroupFailover(t)
  <2>1. CASE ~\E r : Reads(t, r)
    BY <1>4, <2>1, RunWritten DEF maybeGroupFailover, Touch, RunWrite
  <2> QED  BY <1>2, <2>1
<1>5. CASE SwitchTo(t) \/ Activate(t) \/ Handover(t)
  BY <1>5, RunWritten DEF SwitchTo, Activate, Handover, Elect, RunWrite
<1>6. CASE IndexRefuses(t)
  BY <1>2, <1>6 DEF IndexRefuses, Rollback
<1>7. CASE DisableMember(t)
  BY <1>7, RunWritten DEF DisableMember, Touch, RunWrite
<1>8. CASE Reset(t)
  <2>1. resid' \in {0, resid} /\ cool' \in {0, cool}
    BY <1>8 DEF Reset, Elect, Touch
  <2> QED  BY <1>8, <2>1, RunWritten DEF Reset, RunWrite
<1>9. CASE Delete(t)
  <2>1. /\ exists' = FALSE /\ fails' = [m \in Members |-> 0] /\ age' = [m \in Members |-> Staleness + 1]
        /\ resid' = 0 /\ UNCHANGED <<enabled, cool, queued, dirty, alive>>
    BY <1>9 DEF Delete
  <2>2. fails' \in [Members -> Nat] /\ age' \in [Members -> 0 .. Staleness + 1]
        /\ \A m \in Members : fails'[m] \in 0 .. MaxFail[m]
    BY <2>1
  <2>3. exists' \in BOOLEAN
    BY <2>1
  <2>4. resid' \in 0 .. Residency /\ UNCHANGED <<enabled, cool, queued, dirty, alive>>
    BY <2>1
  <2> QED  BY <1>1, <2>2, <2>3, <2>4 DEF Counters
<1> QED
  BY <1>3, <1>4, <1>5, <1>6, <1>7, <1>8, <1>9, Zenon DEF Writes, Failover

\* A request.
LEMMA ApiCounts ==
  ASSUME IInv, NEW t \in Apis, Api(t)
  PROVE  Counters'
<1> USE SourceAssumption
<1>1. Counters /\ t \in Threads
  BY DEF Counters, IInv, Typed, TypeOK, Threads
<1>2. CASE \E r : Reads(t, r)
  BY <1>2, CountsNothing DEF Reads
<1>3. ASSUME NEW m \in Members, ActivateGroupMember(t, m) PROVE Counters'
  BY <1>2, <1>3, CountsNothing DEF ActivateGroupMember
<1>4. ASSUME NEW m \in Members, DeactivateGroupMember(t, m) \/ ResetGroupMember(t, m) PROVE Counters'
  BY <1>2, <1>4 DEF DeactivateGroupMember, ResetGroupMember
<1>5. ASSUME NEW b \in BOOLEAN, SetEnabled(t, b) PROVE Counters'
  <2>1. enabled' \in BOOLEAN /\ UNCHANGED <<exists, fails, age, resid, cool, queued, dirty, alive>>
    BY <1>5 DEF SetEnabled
  <2> QED  BY <1>1, <2>1 DEF Counters
<1>6. ASSUME NEW S \in SUBSET Members, UpdateMembers(t, S) PROVE Counters'
  <2>1. /\ \A n \in Members : fails'[n] \in {0, fails[n]} /\ age'[n] \in {Staleness + 1, age[n]}
        /\ fails' = [n \in Members |-> fails'[n]] /\ age' = [n \in Members |-> age'[n]]
    BY <1>6 DEF UpdateMembers
  <2>2. resid' = 0 /\ UNCHANGED <<exists, enabled, cool, queued, dirty, alive>>
    BY <1>6 DEF UpdateMembers
  <2>3. \A n \in Members : /\ fails'[n] \in 0 .. MaxFail[n] /\ fails'[n] \in Nat
                           /\ age'[n] \in 0 .. Staleness + 1
    BY <1>1, <2>1 DEF Counters
  <2>4. fails' \in [Members -> Nat] /\ age' \in [Members -> 0 .. Staleness + 1]
    BY <2>1, <2>3, Zenon
  <2> QED  BY <1>1, <2>2, <2>3, <2>4 DEF Counters
<1>7. ASSUME DeleteGroup(t) PROVE Counters'
  BY <1>2, <1>7 DEF DeleteGroup
<1> QED  BY <1>3, <1>4, <1>5, <1>6, <1>7, Zenon DEF Api

\* Every step keeps the types of the counters.
LEMMA CountersStep ==
  ASSUME IInv, [Next]_vars
  PROVE  Counters'
<1> USE SourceAssumption
<1>1. Counters
  BY DEF Counters, IInv, Typed, TypeOK
<1>2. CASE UNCHANGED <<db, queued, dirty, alive>>
  BY <1>2, CountsNothing
<1>3. CASE Publishing \/ Dispatcher
  <2>a. ASSUME NEW t \in Threads, ReadRow(t) \/ ReadMembers(t) \/ Put(t) \/ Emit(t)
        PROVE  /\ UNCHANGED <<db, alive>> /\ dirty' \in {dirty, TRUE}
               /\ queued' = queued \/ (queued < QueueCap /\ queued' = queued + 1)
    BY <2>a DEF ReadRow, ReadMembers, Put, Emit
  <2>b. CASE Dispatcher
    <3>1. /\ UNCHANGED <<db, alive>> /\ dirty' \in {dirty, FALSE}
          /\ queued' = queued \/ (queued > 0 /\ queued' = queued - 1)
      BY <2>b DEF Dispatcher, Hook, ReloadStart, ReloadDone
    <3>2. UNCHANGED <<exists, enabled, fails, age, resid, cool, alive>>
      BY <3>1 DEF db
    <3>3. dirty' \in BOOLEAN
      BY <1>1, <3>1 DEF Counters
    <3>4. queued' \in 0 .. QueueCap
      BY <1>1, <3>1 DEF Counters
    <3> QED  BY <1>1, <3>2, <3>3, <3>4 DEF Counters
  <2>c. CASE Publishing
    <3>1. /\ UNCHANGED <<db, alive>> /\ dirty' \in {dirty, TRUE}
          /\ queued' = queued \/ (queued < QueueCap /\ queued' = queued + 1)
      BY <2>a, <2>c DEF Publishing
    <3>2. UNCHANGED <<exists, enabled, fails, age, resid, cool, alive>>
      BY <3>1 DEF db
    <3>3. dirty' \in BOOLEAN
      BY <1>1, <3>1 DEF Counters
    <3>4. queued' \in 0 .. QueueCap
      BY <1>1, <3>1 DEF Counters
    <3> QED  BY <1>1, <3>2, <3>3, <3>4 DEF Counters
  <2> QED  BY <1>3, <2>b, <2>c
<1>4. CASE applySuccess
  <2>1. "frame" \in Threads
    BY DEF Threads
  <2> QED  BY <1>4, <2>1, RunWritten DEF applySuccess, Touch, RunWrite
<1>5. CASE Scanner
  BY <1>2, <1>5 DEF Scanner, scanGroup, failStaleGroupMember, selfHealGroup, countFailure, ScanDone, Reads
<1>6. CASE Frames \/ Offline
  BY <1>2, <1>6 DEF Frames, Offline, MarkSuccess, MarkFailure, countFailure, Reads
<1>7. CASE Tick
  <2>1. /\ age' = [m \in Members |-> IF age[m] <= Staleness THEN age[m] + 1 ELSE age[m]]
        /\ cool' = IF cool < Cooldown THEN cool + 1 ELSE cool
        /\ resid' \in {resid, IF resid < Residency THEN resid + 1 ELSE resid}
        /\ UNCHANGED <<exists, enabled, fails, queued, dirty, alive>>
    BY <1>7 DEF Tick
  <2> QED  BY <1>1, <2>1 DEF Counters
<1>8. CASE Devices
  <2>1. /\ UNCHANGED <<exists, enabled, fails, age, resid, cool, queued, dirty>>
        /\ alive' \subseteq Members
    BY <1>1, <1>8 DEF Devices, Silence, Revive, Counters, db
  <2> QED  BY <1>1, <2>1 DEF Counters
<1>9. CASE Restart
  <2>1. UNCHANGED <<exists, enabled, fails, age, resid, cool, alive>> /\ queued' = 0
    BY <1>9 DEF Restart
  <2>2. dirty' \in BOOLEAN
    BY <1>9 DEF Restart
  <2> QED  BY <1>1, <2>1, <2>2 DEF Counters
<1>10. CASE \E t \in Threads : Writes(t) \/ Break(t)
  BY <1>2, <1>10, WritesCount DEF Break, Rollback, Reads
<1>11. CASE \E t \in Apis : Api(t)
  BY <1>11, ApiCounts
<1>12. CASE UNCHANGED vars
  BY <1>2, <1>12 DEF vars
<1> QED
  BY <1>3, <1>4, <1>5, <1>6, <1>7, <1>8, <1>9, <1>10, <1>11, <1>12, Zenon DEF Next

-----------------------------------------------------------------------------
(* What transactions have read.                                             *)

Readings == [at : Stages, m : Members \cup {NoMember, Gone}, to : Members \cup {NoMember, Gone}, n : Nat]

Ledger == tx \in [Threads -> Readings] /\ Pending

\* A transaction reads, commits or is undone; what the others have read stays.
LEMMA TxRecords ==
  ASSUME IInv, NEW t \in Threads, NEW r \in Readings, tx' = [tx EXCEPT ![t] = r],
         exists' = exists, Within(r)
  PROVE  Ledger'
<1>1. tx \in [Threads -> Readings] /\ Pending
  BY DEF IInv, Typed, TypeOK, Readings
<1>2. tx' \in [Threads -> Readings]
  BY <1>1
<1>3. \A u \in Threads : Within(tx[u])'
  <2> TAKE u \in Threads
  <2>1. PICK x \in Readings : x = tx'[u] /\ Within(x)
    BY <1>1, <1>2 DEF Pending
  <2> QED  BY <2>1 DEF Within
<1> QED  BY <1>2, <1>3 DEF Ledger, Pending

\* Rows are deleted: who has read them holds on to none of the members.
LEMMA TxForgets ==
  ASSUME IInv, NEW R \in SUBSET Members, NEW f, f = Forget(R), exists' = exists \/ R = Members
  PROVE  f \in [Threads -> Readings] /\ \A u \in Threads : Within(f[u])'
<1> USE SourceAssumption
<1>1. tx \in [Threads -> Readings] /\ Pending
  BY DEF IInv, Typed, TypeOK, Readings
<1> SUFFICES ASSUME NEW u \in Threads PROVE f[u] \in Readings /\ Within(f[u])'
  BY DEF Forget
<1> DEFINE m == IF tx[u].m \in R THEN Gone ELSE tx[u].m
           to == IF tx[u].to \in R THEN Gone ELSE tx[u].to
<1>2. f[u] = [tx[u] EXCEPT !.m = m, !.to = to]
  BY DEF Forget
<1>3. tx[u] \in Readings /\ Within(tx[u])
  BY <1>1 DEF Pending
<1>4. f[u] \in Readings /\ f[u].m = m /\ f[u].to = to /\ f[u].n = tx[u].n
  BY <1>2, <1>3 DEF Readings
<1>5. Within(f[u])'
  BY <1>3, <1>4 DEF Within
<1> QED  BY <1>4, <1>5

\* The empty reading.
LEMMA TxNothing ==
  NoTx \in Readings /\ Within(NoTx) /\ (Within(NoTx))'
BY SourceAssumption DEF NoTx, Readings, Within, Stages

\* A transaction that commits or is undone has read nothing any more.
LEMMA TxEnds ==
  ASSUME IInv, NEW t \in Threads, tx' = [tx EXCEPT ![t] = NoTx], exists' = exists
  PROVE  Ledger'
BY TxRecords, TxNothing

\* Who counts a failure has read the count, and its limit.
LEMMA TxCounts ==
  ASSUME IInv, NEW t \in Threads, NEW m \in Members, countFailure(t, m)
  PROVE  Ledger'
<1> USE SourceAssumption
<1>1. fails \in [Members -> Nat] /\ fails[m] \in 0 .. MaxFail[m]
  BY DEF IInv, Typed, TypeOK
<1> DEFINE n == IF fails[m] < MaxFail[m] THEN fails[m] + 1 ELSE fails[m]
           r == [NoTx EXCEPT !.at = IF fails[m] + 1 >= MaxFail[m] THEN "trip" ELSE "count",
                             !.m = m, !.n = n]
<1>2. n \in 0 .. MaxFail[m] /\ n \in Nat
  BY <1>1
<1>3. r \in Readings /\ r.m = m /\ r.n = n /\ r.to = NoMember
  <2> HIDE DEF n
  <2> QED  BY <1>2 DEF NoTx, Readings, Stages
<1>4. tx' = [tx EXCEPT ![t] = r] /\ exists' = exists
  BY DEF countFailure, Reads, db
<1>5. Within(r)
  <2> HIDE DEF n, r
  <2> QED  BY <1>2, <1>3 DEF Within
<1> HIDE DEF r
<1> QED  BY <1>3, <1>4, <1>5, TxRecords

\* Who reads to elect or to write a member of a group that exists.
LEMMA TxReads ==
  ASSUME IInv, NEW t \in Threads, NEW r \in Readings, r.n = 0, exists, Reads(t, r)
  PROVE  Ledger'
<1> USE SourceAssumption
<1>1. Within(r)
  BY DEF Within
<1>2. tx' = [tx EXCEPT ![t] = r] /\ exists' = exists
  BY DEF Reads, db
<1> QED  BY <1>1, <1>2, TxRecords

\* A write of a transaction that has read.
LEMMA WritesRead ==
  ASSUME IInv, NEW t \in Threads, Writes(t)
  PROVE  Ledger'
<1> USE SourceAssumption
<1>1. tx \in [Threads -> Readings] /\ Within(tx[t])
  BY DEF IInv, Typed, TypeOK, Readings, Pending
<1>2. CASE JustCount(t) \/ LoseAuthority(t) \/ DisableMember(t)
  BY <1>2, TxEnds DEF JustCount, LoseAuthority, DisableMember, Commit
<1>3. CASE SwitchTo(t) \/ Activate(t) \/ Handover(t)
  BY <1>3, TxEnds DEF SwitchTo, Activate, Handover, Elect, Commit
<1>4. CASE Reset(t)
  BY <1>4, TxEnds DEF Reset, Elect, Commit
<1>5. CASE IndexRefuses(t)
  BY <1>5, TxEnds DEF IndexRefuses, Rollback, Reads, db
<1>6. CASE maybeGroupFailover(t)
  <2> DEFINE to == IF cooldownActive THEN NoMember ELSE pickCandidate(Update(status, tx[t].m, "error"))
             r  == [tx[t] EXCEPT !.at = "settle", !.to = to]
  <2>1. CASE tx' = [tx EXCEPT ![t] = NoTx] /\ exists' = exists
    BY <2>1, TxEnds
  <2>2. CASE Reads(t, r) /\ exists
    <3>1. to \in Members \cup {NoMember}
      BY CandidateIn
    <3>2. r \in Readings /\ r.m = tx[t].m /\ r.n = tx[t].n
      <4>1. PICK x \in Readings : x = tx[t]
        BY <1>1
      <4>2. r = [x EXCEPT !.at = "settle", !.to = to]
        BY <4>1
      <4> HIDE DEF to, r
      <4>3. r \in Readings
        BY <3>1, <4>1, <4>2 DEF Readings, Stages
      <4>4. r.m = x.m /\ r.n = x.n
        BY <4>1, <4>2 DEF Readings
      <4> QED  BY <4>1, <4>3, <4>4
    <3>3. Within(r)
      <4> HIDE DEF r
      <4> QED  BY <1>1, <2>2, <3>2 DEF Within
    <3>4. tx' = [tx EXCEPT ![t] = r] /\ exists' = exists
      BY <2>2 DEF Reads, db
    <3> HIDE DEF r
    <3> QED  BY <3>2, <3>3, <3>4, TxRecords
  <2> HIDE DEF r
  <2> QED  BY <1>6, <2>1, <2>2 DEF maybeGroupFailover, Commit, r
<1>7. CASE Delete(t)
  <2>1. PICK f : f = Forget(Members)
    OBVIOUS
  <2>2. f \in [Threads -> Readings] /\ \A u \in Threads : Within(f[u])'
    BY <2>1, TxForgets
  <2>3. tx' = [f EXCEPT ![t] = NoTx]
    BY <1>7, <2>1 DEF Delete
  <2>4. tx' \in [Threads -> Readings]
    BY <2>2, <2>3, TxNothing
  <2>5. \A u \in Threads : Within(tx[u])'
    BY <2>2, <2>3, TxNothing DEF Within
  <2> QED  BY <2>4, <2>5 DEF Ledger, Pending
<1> QED
  BY <1>2, <1>3, <1>4, <1>5, <1>6, <1>7, Zenon DEF Writes, Failover

\* A request reads members of a group that exists, or deletes some.
LEMMA ApiReads ==
  ASSUME IInv, NEW t \in Apis, Api(t)
  PROVE  Ledger'
<1> USE SourceAssumption
<1>1. Ledger /\ t \in Threads
  BY DEF IInv, Typed, TypeOK, Readings, Ledger, Threads
<1>2. CASE UNCHANGED <<exists, tx>>
  BY <1>1, <1>2 DEF Ledger, Pending, Within
<1>3. {"activate", "disable", "handover", "reset", "delete"} \subseteq Stages
  BY DEF Stages
<1>4. Active \in Members \cup {NoMember} /\ pickCandidate(status) \in Members \cup {NoMember}
  BY ActiveIs, CandidateIn DEF IInv, Active
<1>5. ASSUME NEW m \in Members, ActivateGroupMember(t, m) PROVE Ledger'
  <2>1. CASE Reads(t, [NoTx EXCEPT !.at = "activate", !.to = m])
    <3> DEFINE r == [NoTx EXCEPT !.at = "activate", !.to = m]
    <3>1. r \in Readings /\ r.n = 0
      BY <1>3 DEF NoTx, Readings
    <3>2. exists /\ Reads(t, r)
      BY <1>5, <2>1 DEF ActivateGroupMember, Request
    <3> HIDE DEF r
    <3> QED  BY <1>1, <1>3, <3>1, <3>2, TxReads
  <2> QED  BY <1>2, <1>5, <2>1 DEF ActivateGroupMember, db
<1>6. ASSUME NEW m \in Members, DeactivateGroupMember(t, m) PROVE Ledger'
  <2>1. CASE Reads(t, [NoTx EXCEPT !.at = "disable", !.m = m])
    <3> DEFINE r == [NoTx EXCEPT !.at = "disable", !.m = m]
    <3>1. r \in Readings /\ r.n = 0
      BY <1>3 DEF NoTx, Readings
    <3>2. exists /\ Reads(t, r)
      BY <1>6, <2>1 DEF DeactivateGroupMember, Request
    <3> HIDE DEF r
    <3> QED  BY <1>1, <1>3, <3>1, <3>2, TxReads
  <2>2. CASE Reads(t, [NoTx EXCEPT !.at = "handover", !.m = m, !.to = pickCandidate(status)])
    <3> DEFINE r == [NoTx EXCEPT !.at = "handover", !.m = m, !.to = pickCandidate(status)]
    <3>1. r \in Readings /\ r.n = 0
      BY <1>3, <1>4 DEF NoTx, Readings
    <3>2. exists /\ Reads(t, r)
      BY <1>6, <2>2 DEF DeactivateGroupMember, Request
    <3> HIDE DEF r
    <3> QED  BY <1>1, <1>3, <1>4, <3>1, <3>2, TxReads
  <2> QED  BY <1>6, <2>1, <2>2 DEF DeactivateGroupMember
<1>7. ASSUME NEW m \in Members, ResetGroupMember(t, m) PROVE Ledger'
  <2> DEFINE r == [NoTx EXCEPT !.at = "reset", !.m = m, !.to = IF Active = NoMember THEN m ELSE NoMember]
  <2>1. r \in Readings /\ r.n = 0
    BY <1>3 DEF NoTx, Readings
  <2>2. exists /\ Reads(t, r)
    BY <1>7 DEF ResetGroupMember, Request
  <2> HIDE DEF r
  <2> QED  BY <1>1, <1>3, <2>1, <2>2, TxReads
<1>8. ASSUME NEW b \in BOOLEAN, SetEnabled(t, b) PROVE Ledger'
  BY <1>2, <1>8 DEF SetEnabled
<1>9. ASSUME NEW S \in SUBSET Members, UpdateMembers(t, S) PROVE Ledger'
  <2>1. PICK f : f = Forget(Members \ S)
    OBVIOUS
  <2>2. tx' = f /\ exists' = exists
    BY <1>9, <2>1 DEF UpdateMembers
  <2>3. f \in [Threads -> Readings] /\ \A u \in Threads : Within(f[u])'
    BY <2>1, <2>2, TxForgets
  <2> QED  BY <2>2, <2>3 DEF Ledger, Pending, Within
<1>10. ASSUME DeleteGroup(t) PROVE Ledger'
  <2> DEFINE r == [NoTx EXCEPT !.at = "delete", !.m = Active]
  <2>1. r \in Readings /\ r.n = 0
    BY <1>3, <1>4 DEF NoTx, Readings
  <2>2. exists /\ Reads(t, r)
    BY <1>10 DEF DeleteGroup, Request
  <2> HIDE DEF r
  <2> QED  BY <1>1, <1>3, <1>4, <2>1, <2>2, TxReads
<1> QED  BY <1>5, <1>6, <1>7, <1>8, <1>9, <1>10, Zenon DEF Api

\* Every step keeps what transactions have read within bounds.
LEMMA LedgerStep ==
  ASSUME IInv, [Next]_vars
  PROVE  Ledger'
<1> USE SourceAssumption
<1>1. Ledger
  BY DEF IInv, Typed, TypeOK, Readings, Ledger
<1>2. CASE UNCHANGED <<exists, tx>>
  BY <1>1, <1>2 DEF Ledger, Pending, Within
<1>3. {"frame", "offline", "scan"} \subseteq Threads /\ {"recover", "success", "stale", "heal"} \subseteq Stages
  BY DEF Threads, Stages
<1>4. CASE Publishing
  <2>1. ASSUME NEW t \in Threads, ReadRow(t) \/ ReadMembers(t) \/ Put(t) \/ Emit(t)
        PROVE  UNCHANGED <<exists, tx>>
    BY <2>1 DEF ReadRow, ReadMembers, Put, Emit, db
  <2> QED  BY <1>2, <1>4, <2>1 DEF Publishing
<1>5. CASE Dispatcher \/ Devices \/ Tick \/ UNCHANGED vars
  <2>1. UNCHANGED <<exists, tx>>
    BY <1>5 DEF Dispatcher, Hook, ReloadStart, ReloadDone, Devices, Silence, Revive, Tick, vars, db
  <2> QED  BY <1>2, <2>1
<1>6. CASE scanGroup
  <2>1. Active # NoMember => Active \in Members
    BY ActiveIs DEF IInv, Active
  <2>2. HealCandidate # NoMember => HealCandidate \in Members
    BY BestIn DEF HealCandidate, With
  <2>3. CASE ScanTarget = [NoTx EXCEPT !.at = "stale", !.m = Active] /\ Active # NoMember
    <3> DEFINE r == [NoTx EXCEPT !.at = "stale", !.m = Active]
    <3>1. r \in Readings /\ r.n = 0
      BY <1>3, <2>1, <2>3 DEF NoTx, Readings
    <3>2. exists /\ Reads("scan", r)
      BY <1>6, <2>3 DEF scanGroup
    <3> HIDE DEF r
    <3> QED  BY <1>3, <2>1, <2>3, <3>1, <3>2, TxReads
  <2>4. CASE ScanTarget = [NoTx EXCEPT !.at = "heal", !.to = HealCandidate] /\ HealCandidate # NoMember
    <3> DEFINE r == [NoTx EXCEPT !.at = "heal", !.to = HealCandidate]
    <3>1. r \in Readings /\ r.n = 0
      BY <1>3, <2>2, <2>4 DEF NoTx, Readings
    <3>2. exists /\ Reads("scan", r)
      BY <1>6, <2>4 DEF scanGroup
    <3> HIDE DEF r
    <3> QED  BY <1>3, <2>2, <2>4, <3>1, <3>2, TxReads
  <2> QED  BY <1>6, <2>3, <2>4 DEF scanGroup, ScanTarget
<1>7. CASE failStaleGroupMember
  <2>1. CASE tx["scan"].m \in Members /\ countFailure("scan", tx["scan"].m)
    BY <1>3, <2>1, TxCounts
  <2>2. CASE ScanDone
    BY <1>3, <2>2, TxEnds DEF ScanDone, Commit, db
  <2> QED  BY <1>7, <2>1, <2>2 DEF failStaleGroupMember
<1>8. CASE selfHealGroup
  <2> DEFINE r == [tx["scan"] EXCEPT !.at = "settle"]
  <2>1. r \in Readings /\ r.m = tx["scan"].m /\ r.to = tx["scan"].to /\ r.n = tx["scan"].n
    <3>1. PICK x \in Readings : x = tx["scan"]
      BY <1>1, <1>3 DEF Ledger
    <3>2. r = [x EXCEPT !.at = "settle"]
      BY <3>1
    <3> HIDE DEF r
    <3>3. r \in Readings
      BY <3>1, <3>2 DEF Readings, Stages
    <3>4. r.m = x.m /\ r.to = x.to /\ r.n = x.n
      BY <3>1, <3>2 DEF Readings
    <3> QED  BY <3>1, <3>3, <3>4
  <2>2. Within(r)
    <3>1. Within(tx["scan"])
      BY <1>1, <1>3 DEF Ledger, Pending
    <3> HIDE DEF r
    <3> QED  BY <2>1, <3>1 DEF Within
  <2>3. CASE Reads("scan", r)
    <3>1. tx' = [tx EXCEPT !["scan"] = r] /\ exists' = exists
      BY <2>3 DEF Reads, db
    <3> HIDE DEF r
    <3> QED  BY <1>3, <2>1, <2>2, <3>1, TxRecords
  <2>4. CASE ScanDone
    BY <1>3, <2>4, TxEnds DEF ScanDone, Commit, db
  <2> HIDE DEF r
  <2> QED  BY <1>8, <2>3, <2>4 DEF selfHealGroup, r
<1>9. ASSUME NEW m \in Members, MarkSuccess(m) PROVE Ledger'
  <2> DEFINE r == [NoTx EXCEPT !.at = IF status[m] = "error" THEN "recover" ELSE "success", !.m = m]
  <2>1. r \in Readings /\ r.n = 0
    BY <1>3 DEF NoTx, Readings
  <2>2. exists /\ Reads("frame", r)
    BY <1>9 DEF MarkSuccess
  <2> HIDE DEF r
  <2> QED  BY <1>3, <2>1, <2>2, TxReads
<1>10. CASE applySuccess
  BY <1>3, <1>10, TxEnds DEF applySuccess, Commit
<1>11. ASSUME NEW m \in Members, MarkFailure(m) PROVE Ledger'
  BY <1>3, <1>11, TxCounts DEF MarkFailure
<1>12. CASE Restart
  <2>1. tx' = [t \in Threads |-> NoTx]
    BY <1>12 DEF Restart
  <2>2. tx' \in [Threads -> Readings]
    BY <2>1, TxNothing
  <2>3. \A u \in Threads : Within(tx[u])'
    BY <2>1, TxNothing DEF Within
  <2> QED  BY <2>2, <2>3 DEF Ledger, Pending
<1>13. ASSUME NEW t \in Threads, Writes(t) \/ Break(t) PROVE Ledger'
  <2>1. CASE Break(t)
    BY <2>1, TxEnds DEF Break, Rollback, Reads, db
  <2> QED  BY <1>13, <2>1, WritesRead
<1>14. ASSUME NEW t \in Apis, Api(t) PROVE Ledger'
  BY <1>14, ApiReads
<1> QED
  BY <1>4, <1>5, <1>6, <1>7, <1>8, <1>9, <1>10, <1>11, <1>12, <1>13, <1>14, Zenon
  DEF Next, Scanner, Frames, Offline

Jobs == [at : {"idle", "row", "members", "put", "emit", "clear"}, snap : Snapshot, ev : Event]

\* What readers are told about, and how.
Seen ==
  /\ job \in [Threads -> Jobs] /\ reg \in Snapshot /\ rev \in Nat /\ seq \in Nat
  /\ status \in Members2 /\ Single(status) /\ Empty

\* The database and the publications keep their types, and the group one authority.
LEMMA TypedStep ==
  ASSUME IInv, [Next]_vars
  PROVE  Typed' /\ Single(status') /\ Empty' /\ Pending'
<1>1. /\ job \in [Threads -> Jobs] /\ reg \in Snapshot /\ rev \in Nat /\ seq \in Nat
      /\ status \in Members2 /\ Single(status) /\ exists \in BOOLEAN /\ enabled \in BOOLEAN
      /\ Empty
  BY DEF IInv, Typed, TypeOK, Members2, MemberStates, Jobs
<1>2. NoEvent \in Event /\ NoSnapshot \in Snapshot
  BY Events DEF IInv
<1>3. Active \in Members \cup {NoMember}
  BY <1>1, ActiveIs DEF Active
<1>4. ASSUME NEW t \in Threads, Transaction(t) PROVE Seen'
  <2>1. PICK ev \in Event : job' = [job EXCEPT ![t] = [at |-> "row", snap |-> NoSnapshot, ev |-> ev]]
    BY <1>4 DEF Transaction, Commits
  <2>2. job' \in [Threads -> Jobs]
    BY <1>1, <1>2, <2>1 DEF Jobs
  <2> QED  BY <1>1, <1>4, <2>2 DEF Transaction, Commits, Moves, Seen
<1>5. ASSUME UNCHANGED <<facts, reg, job>> PROVE Seen'
  <2>1. UNCHANGED <<exists, rev, seq, status, reg, job>>
    BY <1>5 DEF facts
  <2>2. Single(status') /\ Empty'
    BY <1>1, <2>1 DEF Empty
  <2> QED  BY <1>1, <2>1, <2>2 DEF Seen
<1>6. ASSUME UNCHANGED db /\ (Publishing \/ ReloadStart \/ ReloadDone) PROVE Seen'
  <2>1. UNCHANGED <<exists, rev, seq, status>>
    BY <1>6 DEF db
  <2>2. Idle \in Jobs /\ "reload" \in Threads
    BY <1>2 DEF Idle, Threads, Jobs
  <2>0. Single(status') /\ Empty'
    BY <1>1, <2>1 DEF Empty
  <2>3. ASSUME NEW t \in Threads, ReadRow(t) \/ ReadMembers(t) \/ Put(t) \/ Emit(t)
        PROVE  (\E x \in Jobs : job' = [job EXCEPT ![t] = x]) /\ reg' \in Snapshot
    <3>1. [NoSnapshot EXCEPT !.present = TRUE, !.enabled = enabled, !.rev = rev] \in Snapshot
      BY <1>1, <1>2 DEF Snapshot
    <3>2. job[t] \in Jobs /\ job[t].snap \in Snapshot
      BY <1>1 DEF Jobs
    <3>3. [job[t].snap EXCEPT !.active = Active, !.seq = seq] \in Snapshot
      BY <1>1, <1>3, <3>2 DEF Snapshot
    <3>4. CASE ReadRow(t)
      <4>1. PICK sn \in Snapshot, at \in {"members", "put"} :
              job' = [job EXCEPT ![t] = [job[t] EXCEPT !.at = at, !.snap = sn]]
        BY <1>1, <1>2, <3>1, <3>4 DEF ReadRow
      <4>2. [job[t] EXCEPT !.at = at, !.snap = sn] \in Jobs
        BY <3>2 DEF Jobs
      <4> QED  BY <1>1, <3>4, <4>1, <4>2 DEF ReadRow
    <3>5. CASE ReadMembers(t)
      <4>1. job' = [job EXCEPT ![t] = [job[t] EXCEPT !.at = "put", !.snap = [job[t].snap EXCEPT !.active = Active, !.seq = seq]]]
        BY <1>1, <3>5 DEF ReadMembers
      <4>2. [job[t] EXCEPT !.at = "put", !.snap = [job[t].snap EXCEPT !.active = Active, !.seq = seq]] \in Jobs
        BY <3>2, <3>3 DEF Jobs
      <4> QED  BY <1>1, <3>5, <4>1, <4>2 DEF ReadMembers
    <3>6. CASE Put(t)
      <4>1. \/ \E at \in {"clear", "emit"} : job' = [job EXCEPT ![t] = [job[t] EXCEPT !.at = at]]
            \/ job' = [job EXCEPT ![t] = Idle]
        BY <1>1, <3>6 DEF Put
      <4>2. \A at \in {"clear", "emit"} : [job[t] EXCEPT !.at = at] \in Jobs
        BY <3>2 DEF Jobs
      <4>3. reg' \in Snapshot
        BY <3>2, <3>6 DEF Put
      <4> QED  BY <2>2, <4>1, <4>2, <4>3
    <3>7. CASE Emit(t)
      BY <1>1, <2>2, <3>7 DEF Emit
    <3> QED  BY <2>3, <3>4, <3>5, <3>6, <3>7
  <2>4. CASE ReloadStart
    <3>1. [at |-> "row", snap |-> NoSnapshot, ev |-> NoEvent] \in Jobs
      BY <1>2 DEF Jobs
    <3> QED  BY <1>1, <2>0, <2>1, <2>2, <2>4, <3>1 DEF ReloadStart, Publish, Seen
  <2>5. CASE ReloadDone
    BY <1>1, <2>0, <2>1, <2>2, <2>5 DEF ReloadDone, Seen
  <2>6. CASE Publishing
    <3>1. PICK t \in Threads : (\E x \in Jobs : job' = [job EXCEPT ![t] = x]) /\ reg' \in Snapshot
      BY <2>3, <2>6 DEF Publishing
    <3> QED  BY <1>1, <2>0, <2>1, <3>1 DEF Seen
  <2> QED  BY <1>6, <2>4, <2>5, <2>6
<1>7. ASSUME Restart PROVE Seen'
  <2>1. job' = [t \in Threads |-> Idle] /\ seq' = 0 /\ UNCHANGED <<exists, rev, status>>
    BY <1>7 DEF Restart
  <2>2. Idle \in Jobs /\ Single(status') /\ Empty'
    BY <1>1, <1>2, <2>1 DEF Idle, Jobs, Empty
  <2>3. reg' \in Snapshot
    BY <1>1, <1>2, <1>3, <1>7 DEF Restart, Snapshot
  <2> QED  BY <1>1, <2>1, <2>2, <2>3 DEF Seen
<1>8. Seen'
  BY <1>4, <1>5, <1>6, <1>7, Kinds DEF Works
<1>9. Typed'
  BY <1>8, CountersStep, LedgerStep
  DEF Counters, Ledger, Readings, Typed, TypeOK, Members2, MemberStates, Seen, Jobs
<1> QED  BY <1>8, <1>9, LedgerStep DEF Seen, Ledger

-----------------------------------------------------------------------------
(* Theorems.                                                                *)

\* A group that has just been created has its best member active, and says so.
LEMMA InitIInv == Init => IInv
<1> USE SourceAssumption
<1> SUFFICES ASSUME NEW S \in SUBSET Members, InitWith(S) PROVE IInv
  BY DEF Init
<1>1. Best(S) \in Members
  BY BestIn DEF InitWith
<1>2. status \in Members2 /\ Single(status) /\ Active = Best(S)
  <2>1. status \in Members2 /\ Single(status)
    BY DEF InitWith, Members2, MemberStates, Single
  <2>2. status[Best(S)] = "active"
    BY <1>1, BestIn DEF InitWith
  <2> QED  BY <1>1, <2>1, <2>2, ActiveIs DEF Active
<1>3. reg \in Snapshot /\ \A t \in Threads : job[t] = Idle
  BY <1>1 DEF InitWith, Snapshot
<1>4. Idle \in Jobs /\ Idle.at = "idle"
  BY DEF Idle, Jobs, NoSnapshot, NoEvent, Snapshot, Event
<1>5. job \in [Threads -> Jobs]
  BY <1>3, <1>4 DEF InitWith
<1>6. Published
  <2>1. Behind(reg) /\ Honest(reg)
    BY <1>2 DEF InitWith, Behind, Honest
  <2> QED  BY <1>3, <1>4, <2>1 DEF Published
<1>7. Counters
  <2>1. fails \in [Members -> Nat] /\ age \in [Members -> 0 .. Staleness + 1]
        /\ (\A m \in Members : fails[m] \in 0 .. MaxFail[m])
    BY DEF InitWith
  <2>3. exists \in BOOLEAN /\ enabled \in BOOLEAN /\ dirty \in BOOLEAN
    BY DEF InitWith
  <2>4. alive \subseteq Members /\ resid \in 0 .. Residency /\ cool \in 0 .. Cooldown /\ queued \in 0 .. QueueCap
    BY DEF InitWith
  <2> QED  BY <2>1, <2>3, <2>4 DEF Counters
<1>8. rev \in Nat /\ seq \in Nat
  BY DEF InitWith
<1>9. Ledger /\ Empty
  <2>1. tx = [t \in Threads |-> NoTx] /\ exists
    BY DEF InitWith
  <2> QED  BY <2>1, TxNothing DEF Ledger, Pending, Empty
<1>10. Typed
  BY <1>2, <1>3, <1>5, <1>7, <1>8, <1>9
  DEF Typed, TypeOK, Counters, Ledger, Readings, Members2, MemberStates, Jobs
<1> QED  BY <1>2, <1>6, <1>9, <1>10 DEF IInv, Ledger

\* IInv holds in every reachable state.
THEOREM Invariance == Spec => []IInv
<1>1. IInv /\ [Next]_vars => IInv'
  BY TypedStep, PublishedStep DEF IInv
<1> QED  BY <1>1, InitIInv, PTL DEF Spec

\* Every variable keeps its type.
THEOREM TypeCorrect == Spec => []TypeOK
<1>1. IInv => TypeOK
  BY DEF IInv, Typed
<1> QED  BY <1>1, Invariance, PTL

\* A group never has two active members, for any number of requests, reports and
\* scans that count the active members before others elect one.
THEOREM AuthoritySingle == Spec => []OneAuthority
<1>1. ASSUME IInv PROVE OneAuthority
  <2>1. Single(status)
    BY <1>1 DEF IInv
  <2>2. CASE With("active") = {}
    BY <2>2, FS_EmptySet DEF OneAuthority
  <2>3. CASE With("active") # {}
    <3>1. PICK m \in With("active") : TRUE
      BY <2>3
    <3>2. With("active") = {m}
      BY <2>1, <3>1 DEF With, Single
    <3> QED  BY <3>2, FS_Singleton DEF OneAuthority
  <2> QED  BY <2>2, <2>3
<1> QED  BY <1>1, Invariance, PTL

\* A snapshot that carries the present revision and transition names the authority,
\* in whatever order publications read and overtake each other.
THEOREM SnapshotsTrue == Spec => []CurrentIsTrue
<1>1. IInv => CurrentIsTrue
  BY DEF IInv, Published, Honest, CurrentIsTrue
<1> QED  BY <1>1, Invariance, PTL

\* No member becomes the authority under the revision another had, for any number
\* of transactions that write what they read when the rows were different.
THEOREM RevisionMoves == Spec => RevisionNamesOne
<1>1. ASSUME IInv, [Next]_vars
      PROVE  [Active' # Active /\ Active' # NoMember => rev' > rev]_vars
  <2>1. CASE Works
    <3>1. CASE \E t \in Threads : Transaction(t)
      BY <3>1 DEF Transaction, Moves
    <3>2. CASE UNCHANGED <<facts, reg, job>>
      BY <3>2 DEF facts, Active
    <3> QED  BY <2>1, <3>1, <3>2 DEF Works
  <2>2. CASE UNCHANGED db \/ Restart
    BY <2>2 DEF db, Restart, Active
  <2> QED  BY <1>1, <2>1, <2>2, Kinds
<1> QED  BY <1>1, Invariance, PTL DEF Spec, RevisionNamesOne
=============================================================================
