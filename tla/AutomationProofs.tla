-------------------------- MODULE AutomationProofs --------------------------
(***************************************************************************)
(* Proofs about one rule, for any workers, operators, loaders, actions,    *)
(* triggers, limits and lengths of the day.  The properties speak of       *)
(* events and commands; what makes them true is in the hands of those who  *)
(* are about to write them.  IInv adds that: a job has sent the actions it *)
(* has counted, under a number that no proposal has, or holds a proposal   *)
(* as it was recorded (JobOK).                                             *)
(***************************************************************************)
EXTENDS Automation, FiniteSetTheorems, WellFoundedInduction, TLAPS

Procs == Workers \cup Operators

Typed ==
  /\ now \in Times /\ rule \in Rules /\ cache \in Rules
  /\ anchor \in Times \cup {Never} /\ fired \in Times \cup {Never}
  /\ window \in Seq(Samples)
  /\ loader \in [Loaders -> [read : BOOLEAN, row : Rules]]
  /\ proc \in [Procs -> Jobs]
  /\ events \in Seq(Events)
  /\ commands \in SUBSET [key : Keys, act : Versions]
  /\ edits \in 0 .. MaxEdits /\ faults \in 0 .. MaxFaults

\* The command of a job's action.
CommandOf(job, k) == [key |-> Key(job, k), act |-> job.acts]

\* A key names one command; those of a confirmation are what the proposal says.
CommandsOK ==
  /\ \A c, d \in commands : c.key = d.key => c = d
  /\ \A c \in commands : c.key.src = "confirm" =>
       /\ c.key.of = 0 /\ c.key.seq \in DOMAIN events
       /\ c.act = events[c.key.seq].acts /\ c.key.k <= events[c.key.seq].n

\* A job that is planned has sent the actions up to its last one; one that
\* confirms holds the proposal as it was recorded.
JobOK(job) ==
  /\ job.pc \in {"frame", "limit", "plan"} => job.src # "confirm" /\ job.seq = 0 /\ job.k = 0
  /\ job.pc = "rule" => job.src = "confirm" /\ job.k = 0
  /\ job.pc \in {"exec", "fail"} =>
       /\ job.n >= 1
       /\ job.src # "confirm" => job.seq >= 1
       /\ \A k \in 1 .. job.k : CommandOf(job, k) \in commands
  /\ job.src = "confirm" =>
       /\ job.seq \in DOMAIN events /\ Proposal(job.seq)
       /\ events[job.seq].acts = job.acts /\ events[job.seq].n = job.n
       /\ events[job.seq].at = job.at

JobsOK == \A p \in Procs : JobOK(proc[p])

\* Action k of event i was sent in version v.
SentAs(i, k, v) == \E c \in CommandsOf(i) : c.key.k = k /\ c.act = v

EventOK(i) ==
  /\ events[i].result = "pending" => Proposal(i)
  /\ events[i].result = "executed" =>
       events[i].n >= 1 /\ \E v \in Versions : \A k \in 1 .. events[i].n : SentAs(i, k, v)
  /\ events[i].result = "partial" =>
       \A k \in 1 .. events[i].k : \E v \in Versions : SentAs(i, k, v)

EventsOK == \A i \in DOMAIN events : EventOK(i)

IInv == Typed /\ CommandsOK /\ JobsOK /\ EventsOK /\ AnchorBacked

-----------------------------------------------------------------------------
(* What the proofs use of the constants, of numbers and of sequences.      *)

\* The constants as numbers and sets.
LEMMA Constants ==
  /\ MaxTime \in Nat /\ MaxEdits \in Nat /\ MaxFaults \in Nat /\ MaxSamples \in Nat \ {0}
  /\ NumActions \in Nat \ {0} /\ DayLength \in Nat \ {0}
  /\ Duration \in [Triggers -> Nat] /\ Ticker \in Loaders
BY NatConstants, TickerLoads

\* A set of numbers that is not empty has a least one.
LEMMA LeastNumber ==
  ASSUME NEW T \in SUBSET Nat, T # {}
  PROVE  \E n \in T : \A k \in T : n <= k
<1>1. IsWellFoundedOn(OpToRel(<, Nat), Nat)
  BY NatLessThanWellFounded
<1>2. PICK n \in T : \A k \in T : ~(<<k, n>> \in OpToRel(<, Nat))
  BY <1>1, WFMin
<1>3. \A k \in T : ~(k < n)
  BY <1>2 DEF OpToRel
<1> QED  BY <1>3

\* Days are numbered from 0.
LEMMA DayNumber ==
  ASSUME NEW t \in Nat
  PROVE  Day(t) \in Nat
BY Constants DEF Day

\* The largest of three numbers.
LEMMA MaxOfThree ==
  ASSUME NEW a \in Int, NEW b \in Int, NEW c \in Int
  PROVE  Max({a, b, c}) \in {a, b, c} /\ Max({a, b, c}) >= a /\ Max({a, b, c}) >= b
<1>1. \E x \in {a, b, c} : \A y \in {a, b, c} : x >= y
  OBVIOUS
<1> QED  BY <1>1 DEF Max

\* What is left of a window is a sequence of samples.
LEMMA RecentSamples ==
  ASSUME NEW win \in Seq(Samples), win # <<>>, NEW d \in Nat, NEW t \in Nat
  PROVE  Recent(win, d, t) \in Seq(Samples)
<1> DEFINE inside == {i \in DOMAIN win : win[i].at >= t - d}
           first  == CHOOSE i \in inside : \A j \in inside : i <= j
           start  == Max({1, first - 1, Len(win) - MaxSamples + 1})
<1>1. Last(win) \in Samples /\ <<Last(win)>> \in Seq(Samples)
  BY DEF Last
<1>2. ASSUME inside # {} PROVE SubSeq(win, start, Len(win)) \in Seq(Samples)
  <2>1. inside \in SUBSET Nat
    OBVIOUS
  <2>2. \E i \in inside : \A j \in inside : i <= j
    BY <1>2, <2>1, LeastNumber
  <2>3. first \in inside
    BY <2>2
  <2>4. first - 1 \in Int /\ Len(win) - MaxSamples + 1 \in Int
    BY <2>1, <2>3, Constants
  <2> HIDE DEF first, inside
  <2>5. /\ start \in {1, first - 1, Len(win) - MaxSamples + 1}
        /\ start >= 1
    <3>1. 1 \in Int
      OBVIOUS
    <3> QED  BY <2>4, <3>1, MaxOfThree
  <2> HIDE DEF start
  <2> QED  BY <2>4, <2>5
<1> QED  BY <1>1, <1>2 DEF Recent

\* The decisions of a day can be counted.
LEMMA DayCounted ==
  ASSUME Typed, NEW job
  PROVE  NextSeq(job) \in Nat /\ NextSeq(job) >= 1
<1>1. IsFiniteSet(DOMAIN events)
  <2>1. DOMAIN events = 1 .. Len(events) /\ Len(events) \in Nat
    BY DEF Typed
  <2> QED  BY <2>1, FS_Interval
<1>2. Counted(job) \subseteq DOMAIN events
  BY DEF Counted, OfDay
<1>3. Cardinality(Counted(job)) \in Nat
  BY <1>1, <1>2, FS_Subset, FS_CardinalityType
<1> QED  BY <1>3 DEF NextSeq

\* What a plan may load and the number it may get, with or without an answer.
LEMMA PlanFacts ==
  ASSUME Typed, NEW own \in Versions, NEW job
  PROVE  /\ \A load \in Loads(own) :
              /\ load.acts \in Versions /\ load.n \in 1 .. NumActions /\ load.n \in 0 .. NumActions
              /\ load.failed \in Nat
         /\ \A number \in Numbers(job) :
              number.seq \in Nat /\ number.seq >= 1 /\ number.failed \in Nat
<1>1. rule.acts \in Versions
  BY DEF Typed, Rules
<1> QED  BY <1>1, Constants, DayCounted DEF Loads, Numbers

\* The faults stay within their bound.
LEMMA FaultsBounded ==
  ASSUME Typed, NEW n \in Nat, Fails(n)
  PROVE  faults' \in 0 .. MaxFaults
BY Constants DEF Typed, Fails

-----------------------------------------------------------------------------
(* Types.                                                                  *)

\* What an idle process and an idle loader hold.
LEMMA IdleTyped ==
  ASSUME Typed
  PROVE  /\ Idle \in Jobs /\ Unloaded \in [read : BOOLEAN, row : Rules]
         /\ AnyTrigger \in Triggers
<1>1. AnyTrigger \in Triggers
  BY DEF Typed, Rules, AnyTrigger
<1> QED
  BY <1>1, Constants DEF Idle, Jobs, Unloaded, NewRule, Rules, Sources, Times, Versions, Never

\* The evaluator's steps keep the types.
LEMMA TypedEvaluator ==
  ASSUME Typed, NEW w \in Workers, Frame(w) \/ ApplyTrigger(w)
  PROVE  Typed'
<1> USE Constants, IdleTyped
<1>1. w \in Procs /\ proc[w] \in Jobs
  BY DEF Typed, Procs
<1>2. CASE Frame(w)
  <2>1. PICK sat \in BOOLEAN :
          proc' = [proc EXCEPT ![w] = [Idle EXCEPT !.pc = "frame", !.at = now, !.sat = sat,
                                                   !.trig = cache.trig, !.confirm = cache.confirm,
                                                   !.acts = cache.acts]]
    BY <1>2 DEF Frame
  <2>2. [Idle EXCEPT !.pc = "frame", !.at = now, !.sat = sat,
                     !.trig = cache.trig, !.confirm = cache.confirm,
                     !.acts = cache.acts] \in Jobs
    BY DEF Typed, Jobs, Rules
  <2>3. proc' \in [Procs -> Jobs]
    BY <2>1, <2>2 DEF Typed
  <2> QED  BY <1>2, <2>3 DEF Frame, Typed
<1>3. CASE ApplyTrigger(w)
  <2> DEFINE job == proc[w]
             one == [at |-> job.at, sat |-> job.sat, by |-> w, trig |-> job.trig]
             win == Recent(Append(SameSource(window, w), one), Duration[job.trig], job.at)
             tri == job.sat /\ Continuous(win, Duration[job.trig], job.at)
  <2>1. proc' \in [Procs -> Jobs]
    <3>1. proc' = [proc EXCEPT ![w] = Idle]
            \/ proc' = [proc EXCEPT ![w] = [job EXCEPT !.pc = "limit", !.sat = FALSE, !.trig = AnyTrigger]]
      BY <1>3 DEF ApplyTrigger
    <3>2. [job EXCEPT !.pc = "limit", !.sat = FALSE, !.trig = AnyTrigger] \in Jobs
      BY <1>1 DEF Jobs
    <3> QED  BY <3>1, <3>2 DEF Typed
  <2>2. fired' \in Times \cup {Never}
    <3>1. fired' \in {fired, job.at, Never}
      BY <1>3 DEF ApplyTrigger
    <3>2. job.at \in Times
      BY <1>1 DEF Jobs
    <3> QED  BY <3>1, <3>2 DEF Typed
  <2>3. window' \in Seq(Samples)
    <3>1. window' = window \/ window' = win
      BY <1>3 DEF ApplyTrigger
    <3>2. SameSource(window, w) \in Seq(Samples)
      BY DEF SameSource, Typed
    <3>3. one \in Samples
      BY <1>1, <1>3 DEF Jobs, Samples
    <3>4. /\ Append(SameSource(window, w), one) \in Seq(Samples)
          /\ Append(SameSource(window, w), one) # <<>>
      <4>1. PICK s \in Seq(Samples) : s = SameSource(window, w)
        BY <3>2
      <4>2. PICK x \in Samples : x = one
        BY <3>3
      <4>3. Append(s, x) \in Seq(Samples) /\ Append(s, x) # <<>>
        OBVIOUS
      <4> QED  BY <4>1, <4>2, <4>3
    <3>5. Duration[job.trig] \in Nat /\ job.at \in Nat
      BY <1>1 DEF Jobs, Times
    <3>6. win \in Seq(Samples)
      BY <3>4, <3>5, RecentSamples
    <3> QED  BY <3>1, <3>6 DEF Typed
  <2>4. UNCHANGED now /\ UNCHANGED rule /\ UNCHANGED cache /\ UNCHANGED anchor /\ UNCHANGED loader
        /\ UNCHANGED events /\ UNCHANGED commands /\ UNCHANGED edits /\ UNCHANGED faults
    BY <1>3 DEF ApplyTrigger
  <2> QED  BY <2>1, <2>2, <2>3, <2>4 DEF Typed
<1> QED  BY <1>2, <1>3

\* Loaders, the clock and the editor keep the types, and so does a restart.
LEMMA TypedSurroundings ==
  ASSUME Typed, (\E l \in Loaders : LoadRead(l) \/ LoadSwap(l)) \/ Edit \/ Restart \/ Tick
  PROVE  Typed'
<1> USE Constants, IdleTyped
<1>1. ASSUME NEW l \in Loaders, LoadRead(l) PROVE Typed'
  BY <1>1 DEF LoadRead, Typed
<1>2. ASSUME NEW l \in Loaders, LoadSwap(l) PROVE Typed'
  BY <1>2 DEF LoadSwap, Typed
<1>3. ASSUME Edit PROVE Typed'
  <2>1. rule \in Rules /\ edits + 1 \in Versions
    BY <1>3 DEF Edit, Typed, Versions
  <2>2. ASSUME NEW t \in Triggers, rule' = [rule EXCEPT !.trig = t] PROVE rule' \in Rules
    BY <2>1, <2>2 DEF Rules
  <2>3. ASSUME rule' = [rule EXCEPT !.acts = edits + 1] PROVE rule' \in Rules
    BY <2>1, <2>3 DEF Rules
  <2>4. ASSUME rule' = [rule EXCEPT !.confirm = ~@] PROVE rule' \in Rules
    BY <2>1, <2>4 DEF Rules
  <2>5. ASSUME NEW x \in {"enabled", "disabled", "deleted"}, rule' = [rule EXCEPT !.state = x]
        PROVE  rule' \in Rules
    BY <2>1, <2>5 DEF Rules
  <2>6. rule' \in Rules
    BY <1>3, <2>2, <2>3, <2>4, <2>5 DEF Edit
  <2> QED  BY <1>3, <2>6 DEF Edit, Typed
<1>4. ASSUME Restart PROVE Typed'
  BY <1>4 DEF Restart, Typed, Rebuilt
<1>5. ASSUME Tick PROVE Typed'
  BY <1>5 DEF Tick, Typed, Times
<1> QED  BY <1>1, <1>2, <1>3, <1>4, <1>5

\* Write and WriteFails keep the types.
LEMMA TypedWrite ==
  ASSUME Typed, NEW job \in Jobs, NEW result \in {"pending", "executed", "partial", "failed", "expired"},
         NEW acts \in Versions, Write(job, result, acts)
  PROVE  events' \in Seq(Events)
<1>1. [at |-> job.at, src |-> job.src, result |-> result, acts |-> acts, n |-> job.n,
       seq |-> job.seq, k |-> job.k] \in Events
  BY DEF Jobs, Events
<1> QED  BY <1>1 DEF Write, Typed

\* A process that takes on a job and writes nothing, or whose write fails.
LEMMA TypedBecome ==
  ASSUME Typed, NEW p \in Procs, NEW job \in Jobs, Become(p, job)
  PROVE  proc' \in [Procs -> Jobs]
BY DEF Typed, Become

\* A write that fails leaves the events and the anchor well typed.
LEMMA TypedFails ==
  ASSUME Typed, WriteFails
  PROVE  events' \in Seq(Events) /\ anchor' \in Times \cup {Never} /\ faults' \in 0 .. MaxFaults
BY Constants DEF Typed, WriteFails

\* The event of a confirmation, before and after its verdict.
LEMMA VerdictEvents ==
  ASSUME Typed, NEW job \in Jobs, NEW result, Verdict(job, result), job.seq \in DOMAIN events
  PROVE  /\ DOMAIN events' = DOMAIN events
         /\ \A i \in DOMAIN events \ {job.seq} : events'[i] = events[i]
         /\ events[job.seq].result # "pending" => events'[job.seq] = events[job.seq]
         /\ events[job.seq].result = "pending" =>
              events'[job.seq] = [events[job.seq] EXCEPT !.result = result, !.k = job.k]
<1>1. events[job.seq] \in Events
  BY DEF Typed
<1>2. DOMAIN events' = DOMAIN events /\ \A i \in DOMAIN events \ {job.seq} : events'[i] = events[i]
  BY DEF Verdict, Typed
<1>3. ASSUME events[job.seq].result # "pending" PROVE events'[job.seq] = events[job.seq]
  BY <1>1, <1>3 DEF Verdict, StillPending, Events
<1>4. ASSUME events[job.seq].result = "pending"
      PROVE  events'[job.seq] = [events[job.seq] EXCEPT !.result = result, !.k = job.k]
  BY <1>1, <1>4 DEF Verdict, StillPending, Events
<1> QED  BY <1>2, <1>3, <1>4

\* The log of decisions stays well typed when a confirmation ends.
LEMMA TypedVerdict ==
  ASSUME Typed, NEW job \in Jobs, NEW result \in {"executed", "partial", "failed"},
         Verdict(job, result), job.seq \in DOMAIN events
  PROVE  events' \in Seq(Events)
<1>1. \A i \in DOMAIN events : events[i] \in Events
  BY DEF Typed
<1>2. [events[job.seq] EXCEPT !.result = result, !.k = job.k] \in Events
  <2>1. events[job.seq] \in Events /\ job.k \in 0 .. NumActions
    BY <1>1 DEF Jobs
  <2>2. PICK e \in Events : e = events[job.seq]
    BY <2>1
  <2>3. [e EXCEPT !.result = result, !.k = job.k] \in Events
    BY <2>1 DEF Events
  <2> QED  BY <2>2, <2>3
<1>3. \A i \in DOMAIN events : events'[i] \in Events
  <2>1. events'[job.seq] \in Events
    BY <1>1, <1>2, VerdictEvents
  <2>2. \A i \in DOMAIN events \ {job.seq} : events'[i] \in Events
    BY <1>1, VerdictEvents
  <2> QED  BY <2>1, <2>2
<1>4. DOMAIN events' = 1 .. Len(events) /\ Len(events) \in Nat
  <2>1. DOMAIN events = 1 .. Len(events) /\ Len(events) \in Nat
    BY DEF Typed
  <2>2. DOMAIN events' = DOMAIN events
    BY VerdictEvents
  <2> QED  BY <2>1, <2>2
<1>5. events' = [i \in DOMAIN events |-> events'[i]]
  BY DEF Verdict, Typed
<1> QED  BY <1>3, <1>4, <1>5

\* The steps of the planner keep the types.
LEMMA TypedPlanner ==
  ASSUME Typed, NEW p \in Procs, Step(p) \/ Propose(p) \/ PlanRefused(p)
  PROVE  Typed'
<1> USE Constants, IdleTyped
<1> DEFINE job == proc[p]
<1>1. job \in Jobs
  BY DEF Typed
<1>2. rule.acts \in Versions /\ rule \in Rules
  BY DEF Typed, Rules
<1>3. ASSUME Limit(p) PROVE Typed'
  <2>1. [job EXCEPT !.pc = "plan"] \in Jobs
    BY <1>1 DEF Jobs
  <2>2. proc' \in [Procs -> Jobs]
    BY <1>3, <2>1, TypedBecome DEF Limit
  <2>3. PICK limit \in 0 .. 1, base \in 0 .. 1 : Fails(limit + base)
    BY <1>3 DEF Limit
  <2>4. faults' \in 0 .. MaxFaults
    <3>1. limit + base \in Nat
      OBVIOUS
    <3> QED  BY <2>3, <3>1, FaultsBounded
  <2> QED  BY <1>3, <2>2, <2>4 DEF Limit, Typed
<1>4. ASSUME Plan(p) PROVE Typed'
  <2>1. PICK load \in Loads(job.acts), number \in Numbers(job) :
          /\ Fails(load.failed + number.failed)
          /\ Become(p, [job EXCEPT !.pc = "exec", !.acts = load.acts, !.n = load.n,
                                   !.seq = number.seq])
    BY <1>4 DEF Plan
  <2>2. job.acts \in Versions
    BY <1>1 DEF Jobs
  <2>3. /\ load.acts \in Versions /\ load.n \in 0 .. NumActions /\ number.seq \in Nat
        /\ load.failed + number.failed \in Nat
    BY <2>2, PlanFacts
  <2>4. [job EXCEPT !.pc = "exec", !.acts = load.acts, !.n = load.n, !.seq = number.seq] \in Jobs
    BY <1>1, <2>3 DEF Jobs
  <2>5. proc' \in [Procs -> Jobs]
    BY <2>1, <2>4, TypedBecome
  <2>6. faults' \in 0 .. MaxFaults
    BY <2>1, <2>3, FaultsBounded
  <2> QED  BY <1>4, <2>5, <2>6 DEF Plan, Typed
<1>5. ASSUME CreateCommand(p) PROVE Typed'
  <2>1. job.k + 1 \in 1 .. NumActions /\ job.k + 1 \in 0 .. NumActions
    BY <1>1, <1>5 DEF CreateCommand, Jobs
  <2>2. [job EXCEPT !.k = @ + 1] \in Jobs
    BY <1>1, <2>1 DEF Jobs
  <2>3. proc' \in [Procs -> Jobs]
    BY <1>5, <2>2, TypedBecome DEF CreateCommand
  <2>4. Day(job.at) \in Nat
    BY <1>1, DayNumber DEF Jobs, Times
  <2>5. Key(job, job.k + 1) \in Keys
    BY <1>1, <2>1, <2>4 DEF Key, Keys, Jobs
  <2>6. [key |-> Key(job, job.k + 1), act |-> job.acts] \in [key : Keys, act : Versions]
    BY <1>1, <2>5 DEF Jobs
  <2>7. commands' \in SUBSET [key : Keys, act : Versions]
    BY <1>5, <2>6 DEF CreateCommand, Typed
  <2> QED  BY <1>5, <2>3, <2>7 DEF CreateCommand, Typed
<1>6. ASSUME CreateRefused(p) PROVE Typed'
  <2>1. [job EXCEPT !.pc = "fail"] \in Jobs
    BY <1>1 DEF Jobs
  <2>2. proc' \in [Procs -> Jobs]
    BY <1>6, <2>1, TypedBecome DEF CreateRefused
  <2> QED  BY <1>6, <2>2 DEF CreateRefused, Typed
<1>7. 0 \in Versions /\ job.at \in Times
  BY <1>1 DEF Versions, Jobs
<1>8. ASSUME RecordExecuted(p) PROVE Typed'
  <2>1. proc' \in [Procs -> Jobs]
    BY <1>8, TypedBecome DEF RecordExecuted
  <2>2. events' \in Seq(Events) /\ anchor' \in Times \cup {Never} /\ faults' \in 0 .. MaxFaults
    <3>1. CASE WriteFails
      BY <3>1, TypedFails
    <3>2. CASE ~WriteFails
      <4>1. Write(job, "executed", 0) /\ anchor' \in {anchor, job.at} /\ UNCHANGED faults
        BY <1>8, <3>2 DEF RecordExecuted
      <4>2. events' \in Seq(Events)
        BY <1>1, <1>7, <4>1, TypedWrite
      <4> QED  BY <1>7, <4>1, <4>2 DEF Typed
    <3> QED  BY <3>1, <3>2
  <2> QED  BY <1>8, <2>1, <2>2 DEF RecordExecuted, Typed
<1>9. ASSUME RecordFailure(p) PROVE Typed'
  <2>1. proc' \in [Procs -> Jobs]
    BY <1>9, TypedBecome DEF RecordFailure
  <2>2. events' \in Seq(Events) /\ anchor' \in Times \cup {Never} /\ faults' \in 0 .. MaxFaults
    <3>1. CASE WriteFails
      BY <3>1, TypedFails
    <3>2. CASE ~WriteFails
      <4>1. Write(job, Outcome(job), 0) /\ anchor' = anchor /\ UNCHANGED faults
        BY <1>9, <3>2 DEF RecordFailure, FailureAnchor
      <4>2. Outcome(job) \in {"partial", "failed"}
        BY DEF Outcome
      <4>3. events' \in Seq(Events)
        BY <1>1, <1>7, <4>1, <4>2, TypedWrite
      <4> QED  BY <4>1, <4>3 DEF Typed
    <3> QED  BY <3>1, <3>2
  <2> QED  BY <1>9, <2>1, <2>2 DEF RecordFailure, Typed
<1>10. ASSUME Propose(p) PROVE Typed'
  <2>1. proc' \in [Procs -> Jobs]
    BY <1>10, TypedBecome DEF Propose
  <2>2. events' \in Seq(Events) /\ anchor' \in Times \cup {Never} /\ faults' \in 0 .. MaxFaults
    <3>1. CASE WriteFails
      BY <3>1, TypedFails
    <3>2. CASE ~WriteFails
      <4>1. PICK load \in Loads(job.acts) :
              /\ Fails(load.failed) /\ UNCHANGED anchor
              /\ Write([job EXCEPT !.n = load.n], "pending", load.acts)
        BY <1>10, <3>2 DEF Propose
      <4>2. job.acts \in Versions
        BY <1>1 DEF Jobs
      <4>3. load.acts \in Versions /\ load.n \in 0 .. NumActions /\ load.failed \in Nat
        BY <4>2, PlanFacts
      <4>4. [job EXCEPT !.n = load.n] \in Jobs
        BY <1>1, <4>3 DEF Jobs
      <4>5. events' \in Seq(Events)
        BY <4>1, <4>3, <4>4, TypedWrite
      <4>6. faults' \in 0 .. MaxFaults
        BY <4>1, <4>3, FaultsBounded
      <4> QED  BY <4>1, <4>5, <4>6 DEF Typed
    <3> QED  BY <3>1, <3>2
  <2> QED  BY <1>10, <2>1, <2>2 DEF Propose, Typed
<1>11. ASSUME PlanRefused(p) PROVE Typed'
  <2>1. proc' \in [Procs -> Jobs]
    BY <1>11, TypedBecome DEF PlanRefused
  <2>2. events' \in Seq(Events) /\ anchor' \in Times \cup {Never} /\ faults' \in 0 .. MaxFaults
    <3>1. CASE WriteFails
      BY <3>1, TypedFails
    <3>2. CASE ~WriteFails
      <4>1. Write(job, "failed", 0) /\ UNCHANGED anchor /\ UNCHANGED faults
        BY <1>11, <3>2 DEF PlanRefused
      <4>2. events' \in Seq(Events)
        BY <1>1, <1>7, <4>1, TypedWrite
      <4> QED  BY <4>1, <4>2 DEF Typed
    <3> QED  BY <3>1, <3>2
  <2> QED  BY <1>11, <2>1, <2>2 DEF PlanRefused, Typed
<1> QED  BY <1>3, <1>4, <1>5, <1>6, <1>8, <1>9, <1>10, <1>11 DEF Step

\* The steps of an operator keep the types: the proposal confirmed is on record.
LEMMA TypedOperator ==
  ASSUME Typed, JobsOK, NEW o \in Procs,
         \/ Manual(o) \/ (\E i \in DOMAIN events : Confirm(o, i))
         \/ ConfirmPlan(o) \/ ConfirmExecuted(o) \/ ConfirmFailed(o)
  PROVE  Typed'
<1> USE Constants, IdleTyped
<1> DEFINE job == proc[o]
<1>1. job \in Jobs /\ job.at \in Times /\ (job.src = "confirm" => job.seq \in DOMAIN events)
  BY DEF Typed, Jobs, JobsOK, JobOK
<1>2. rule.acts \in Versions
  BY DEF Typed, Rules
<1>3. ASSUME Manual(o) PROVE Typed'
  <2>1. [Idle EXCEPT !.pc = "limit", !.src = "manual", !.at = now, !.base = anchor,
                     !.acts = rule.acts] \in Jobs
    BY <1>2 DEF Typed, Jobs, Sources
  <2>2. proc' \in [Procs -> Jobs]
    BY <1>3, <2>1, TypedBecome DEF Manual
  <2> QED  BY <1>3, <2>2 DEF Manual, Typed
<1>4. ASSUME NEW i \in DOMAIN events, Confirm(o, i) PROVE Typed'
  <2>1. events[i] \in Events /\ i \in Nat
    BY DEF Typed
  <2>2. [Idle EXCEPT !.pc = "rule", !.src = "confirm", !.at = events[i].at,
                     !.acts = events[i].acts, !.n = events[i].n, !.seq = i] \in Jobs
    BY <2>1 DEF Jobs, Sources, Events
  <2>3. proc' \in [Procs -> Jobs]
    BY <1>4, <2>2, TypedBecome DEF Confirm
  <2> QED  BY <1>4, <2>3 DEF Confirm, Typed
<1>5. ASSUME ConfirmPlan(o) PROVE Typed'
  <2>1. PICK load \in Loads(rule.acts) :
          /\ Fails(load.failed)
          /\ Become(o, IF Unchanged(job, load)
                        THEN [job EXCEPT !.pc = "exec", !.acts = load.acts, !.n = load.n] ELSE Idle)
    BY <1>5 DEF ConfirmPlan
  <2>2. load.acts \in Versions /\ load.n \in 0 .. NumActions /\ load.failed \in Nat
    BY <1>2, PlanFacts
  <2>3. [job EXCEPT !.pc = "exec", !.acts = load.acts, !.n = load.n] \in Jobs
    BY <1>1, <2>2 DEF Jobs
  <2>4. proc' \in [Procs -> Jobs]
    BY <2>1, <2>3, TypedBecome
  <2>5. faults' \in 0 .. MaxFaults
    BY <2>1, <2>2, FaultsBounded
  <2> QED  BY <1>5, <2>4, <2>5 DEF ConfirmPlan, Typed
<1>6. ASSUME ConfirmExecuted(o) PROVE Typed'
  <2>1. proc' \in [Procs -> Jobs]
    BY <1>6, TypedBecome DEF ConfirmExecuted
  <2>2. events' \in Seq(Events) /\ anchor' \in Times \cup {Never} /\ faults' \in 0 .. MaxFaults
    <3>1. CASE WriteFails
      BY <3>1, TypedFails
    <3>2. CASE ~WriteFails
      <4>1. Verdict(job, "executed") /\ anchor' \in {anchor, job.at} /\ UNCHANGED faults
        BY <1>6, <3>2 DEF ConfirmExecuted
      <4>2. job.seq \in DOMAIN events
        BY <1>1, <1>6 DEF ConfirmExecuted
      <4>3. events' \in Seq(Events)
        BY <1>1, <4>1, <4>2, TypedVerdict
      <4> QED  BY <1>1, <4>1, <4>3 DEF Typed
    <3> QED  BY <3>1, <3>2
  <2> QED  BY <1>6, <2>1, <2>2 DEF ConfirmExecuted, Typed
<1>7. ASSUME ConfirmFailed(o) PROVE Typed'
  <2>1. proc' \in [Procs -> Jobs]
    BY <1>7, TypedBecome DEF ConfirmFailed
  <2>2. events' \in Seq(Events) /\ anchor' \in Times \cup {Never} /\ faults' \in 0 .. MaxFaults
    <3>1. CASE WriteFails
      BY <3>1, TypedFails
    <3>2. CASE ~WriteFails
      <4>1. Verdict(job, Outcome(job)) /\ UNCHANGED anchor /\ UNCHANGED faults
        BY <1>7, <3>2 DEF ConfirmFailed
      <4>2. job.seq \in DOMAIN events /\ Outcome(job) \in {"partial", "failed"}
        BY <1>1, <1>7 DEF ConfirmFailed, Outcome
      <4>3. events' \in Seq(Events)
        BY <1>1, <4>1, <4>2, TypedVerdict
      <4> QED  BY <4>1, <4>3 DEF Typed
    <3> QED  BY <3>1, <3>2
  <2> QED  BY <1>7, <2>1, <2>2 DEF ConfirmFailed, Typed
<1> QED  BY <1>3, <1>4, <1>5, <1>6, <1>7

\* The sweeper keeps the types.
LEMMA TypedSweep ==
  ASSUME Typed, Sweep
  PROVE  Typed'
<1>1. DOMAIN events = 1 .. Len(events) /\ Len(events) \in Nat /\ \A i \in DOMAIN events : events[i] \in Events
  BY DEF Typed
<1>2. \A i \in DOMAIN events : [events[i] EXCEPT !.result = "expired"] \in Events
  BY <1>1 DEF Events
<1>3. \A i \in DOMAIN events :
        (IF Expired(i) THEN [events[i] EXCEPT !.result = "expired"] ELSE events[i]) \in Events
  BY <1>1, <1>2
<1>4. events' \in Seq(Events)
  BY <1>1, <1>3 DEF Sweep
<1> QED  BY <1>4 DEF Sweep, Typed

\* No step changes a type.
LEMMA TypedNext ==
  ASSUME Typed, JobsOK, [Next]_vars
  PROVE  Typed'
<1>1. ASSUME NEW w \in Workers, WorkerNext(w) PROVE Typed'
  BY <1>1, TypedEvaluator, TypedPlanner DEF WorkerNext, Procs
<1>2. ASSUME NEW o \in Operators, OperatorNext(o) PROVE Typed'
  BY <1>2, TypedOperator, TypedPlanner DEF OperatorNext, Procs
<1>3. ASSUME UNCHANGED vars PROVE Typed'
  BY <1>3 DEF Typed, vars
<1> QED  BY <1>1, <1>2, <1>3, TypedSurroundings, TypedSweep DEF Next

-----------------------------------------------------------------------------
(* Nothing is taken back: events and commands stay, an event keeps what it *)
(* was recorded for, and its result once it is decided.                    *)

Keeps(i) ==
  /\ i \in DOMAIN events'
  /\ events'[i].src = events[i].src /\ events'[i].seq = events[i].seq
  /\ events'[i].at = events[i].at /\ events'[i].acts = events[i].acts
  /\ events'[i].n = events[i].n
  /\ events[i].result # "pending" => events'[i] = events[i]

Grows == commands \subseteq commands' /\ \A i \in DOMAIN events : Keeps(i)

\* A step that records an event.
LEMMA WriteAppends ==
  ASSUME Typed, NEW job \in Jobs, NEW result, NEW acts, Write(job, result, acts)
  PROVE  /\ DOMAIN events' = DOMAIN events \cup {Len(events) + 1}
         /\ Len(events) + 1 \notin DOMAIN events
         /\ \A i \in DOMAIN events : events'[i] = events[i]
         /\ events'[Len(events) + 1] =
              [at |-> job.at, src |-> job.src, result |-> result, acts |-> acts,
               n |-> job.n, seq |-> job.seq, k |-> job.k]
<1>1. events \in Seq(Events) /\ Len(events) \in Nat /\ DOMAIN events = 1 .. Len(events)
  BY DEF Typed
<1>2. DOMAIN events' = 1 .. Len(events) + 1
  BY <1>1 DEF Write
<1> QED  BY <1>1, <1>2 DEF Write

\* No step takes an event or a command back.
LEMMA GrowsNext ==
  ASSUME Typed, JobsOK, [Next]_vars
  PROVE  Grows
<1>1. SUFFICES ASSUME events' # events \/ commands' # commands PROVE Grows
  BY DEF Grows, Keeps
<1>2. \A p \in Procs : proc[p] \in Jobs
  BY DEF Typed
<1>3. ASSUME NEW job \in Jobs, NEW result, NEW acts, Write(job, result, acts), UNCHANGED commands
      PROVE  Grows
  BY <1>3, WriteAppends DEF Grows, Keeps
<1>4. ASSUME NEW p \in Procs, Propose(p) \/ PlanRefused(p) \/ RecordExecuted(p) \/ RecordFailure(p)
      PROVE  Grows
  <2>1. CASE Propose(p)
    <3>1. PICK load \in Loads(proc[p].acts) : Write([proc[p] EXCEPT !.n = load.n], "pending", load.acts)
      BY <1>1, <2>1 DEF Propose, WriteFails
    <3>2. load.n \in 0 .. NumActions
      <4>1. proc[p].acts \in Versions
        BY <1>2 DEF Jobs
      <4> QED  BY <4>1, PlanFacts
    <3>3. [proc[p] EXCEPT !.n = load.n] \in Jobs
      BY <1>2, <3>2 DEF Jobs
    <3> QED  BY <1>3, <2>1, <3>1, <3>3 DEF Propose
  <2>2. CASE PlanRefused(p) \/ RecordExecuted(p) \/ RecordFailure(p)
    BY <1>1, <1>2, <1>3, <2>2 DEF PlanRefused, RecordExecuted, RecordFailure, WriteFails
  <2> QED  BY <1>4, <2>1, <2>2
<1>5. ASSUME NEW p \in Procs, CreateCommand(p) PROVE Grows
  BY <1>5 DEF CreateCommand, Grows, Keeps
<1>6. ASSUME NEW o \in Procs, NEW result, Verdict(proc[o], result), proc[o].src = "confirm",
             UNCHANGED commands
      PROVE  Grows
  <2>1. proc[o] \in Jobs /\ proc[o].seq \in DOMAIN events
    BY <1>2, <1>6 DEF JobsOK, JobOK
  <2>2. PICK s \in DOMAIN events : s = proc[o].seq
    BY <2>1
  <2>3. events[s] \in Events
    BY DEF Typed
  <2>4. Keeps(s)
    <3>1. CASE events[s].result # "pending"
      BY <1>6, <2>1, <2>2, <3>1, VerdictEvents DEF Keeps
    <3>2. CASE events[s].result = "pending"
      <4>1. events'[s] = [events[s] EXCEPT !.result = result, !.k = proc[o].k] /\ s \in DOMAIN events'
        BY <1>6, <2>1, <2>2, <3>2, VerdictEvents
      <4>2. /\ events'[s].src = events[s].src /\ events'[s].seq = events[s].seq
            /\ events'[s].at = events[s].at /\ events'[s].acts = events[s].acts
            /\ events'[s].n = events[s].n
        BY <2>3, <4>1 DEF Events
      <4> QED  BY <3>2, <4>1, <4>2 DEF Keeps
    <3> QED  BY <3>1, <3>2
  <2>5. \A i \in DOMAIN events \ {s} : Keeps(i)
    BY <1>6, <2>1, <2>2, VerdictEvents DEF Keeps
  <2> QED  BY <1>6, <2>4, <2>5 DEF Grows
<1>7. ASSUME NEW o \in Procs, ConfirmExecuted(o) \/ ConfirmFailed(o) PROVE Grows
  BY <1>1, <1>6, <1>7 DEF ConfirmExecuted, ConfirmFailed, WriteFails
<1>8. ASSUME Sweep PROVE Grows
  <2> SUFFICES ASSUME NEW i \in DOMAIN events PROVE Keeps(i)
    BY <1>8 DEF Sweep, Grows
  <2>1. events[i] \in Events
    BY DEF Typed
  <2>2. i \in DOMAIN events' /\ events'[i] = IF Expired(i) THEN [events[i] EXCEPT !.result = "expired"] ELSE events[i]
    BY <1>8 DEF Sweep
  <2>3. CASE Expired(i)
    <3>1. events[i].result = "pending"
      BY <2>3 DEF Expired, StillPending
    <3> QED  BY <2>1, <2>2, <2>3, <3>1 DEF Keeps, Events
  <2> QED  BY <2>2, <2>3 DEF Keeps
<1>9. ASSUME \/ \E p \in Procs : Frame(p) \/ ApplyTrigger(p) \/ Limit(p) \/ Plan(p) \/ CreateRefused(p)
                                  \/ Manual(p) \/ (\E i \in DOMAIN events : Confirm(p, i)) \/ ConfirmPlan(p)
             \/ \E l \in Loaders : LoadRead(l) \/ LoadSwap(l)
             \/ Edit \/ Restart \/ Tick \/ UNCHANGED vars
      PROVE  FALSE
  BY <1>1, <1>9 DEF Frame, ApplyTrigger, Limit, Plan, CreateRefused, Manual, Confirm, ConfirmPlan,
    LoadRead, LoadSwap, Edit, Restart, Tick, vars
<1>10. ASSUME NEW w \in Workers, WorkerNext(w) PROVE Grows
  BY <1>4, <1>5, <1>9, <1>10 DEF WorkerNext, Step, Procs
<1>11. ASSUME NEW o \in Operators, OperatorNext(o) PROVE Grows
  BY <1>4, <1>5, <1>7, <1>9, <1>11 DEF OperatorNext, Step, Procs
<1> QED  BY <1>8, <1>9, <1>10, <1>11 DEF Next

\* What is recorded for an event stays what it was recorded for.
LEMMA SentStays ==
  ASSUME Grows, NEW i \in DOMAIN events, NEW k, NEW v, SentAs(i, k, v)
  PROVE  SentAs(i, k, v)' /\ Proposal(i)' = Proposal(i)
<1>1. Proposal(i)' = Proposal(i)
  BY DEF Grows, Keeps, Proposal
<1>2. CommandsOf(i) \subseteq CommandsOf(i)'
  BY <1>1 DEF Grows, Keeps, CommandsOf
<1> QED  BY <1>1, <1>2 DEF SentAs

\* An event that has not changed is as good as before.
LEMMA EventStays ==
  ASSUME Grows, NEW i \in DOMAIN events, EventOK(i), events'[i] = events[i]
  PROVE  EventOK(i)'
<1>1. Proposal(i)' = Proposal(i)
  BY DEF Proposal
<1>2. \A k, v : SentAs(i, k, v) => SentAs(i, k, v)'
  BY SentStays
<1> QED  BY <1>1, <1>2 DEF EventOK

\* A process whose job has not changed knows what it knew.
LEMMA JobStays ==
  ASSUME Grows, NEW p \in Procs, JobOK(proc[p]), proc'[p] = proc[p]
  PROVE  JobOK(proc[p])'
<1>1. \A k : CommandOf(proc[p], k)' = CommandOf(proc[p], k)
  BY DEF CommandOf, Key
<1>2. proc[p].seq \in DOMAIN events =>
        /\ proc[p].seq \in DOMAIN events'
        /\ Proposal(proc[p].seq)' = Proposal(proc[p].seq)
        /\ events'[proc[p].seq].acts = events[proc[p].seq].acts
        /\ events'[proc[p].seq].n = events[proc[p].seq].n
        /\ events'[proc[p].seq].at = events[proc[p].seq].at
  BY DEF Grows, Keeps, Proposal
<1> QED  BY <1>1, <1>2 DEF JobOK, Grows

\* The commands of proposals stay what the proposals say.
LEMMA CommandsStay ==
  ASSUME Grows, CommandsOK, UNCHANGED commands
  PROVE  CommandsOK'
BY DEF CommandsOK, Grows, Keeps

-----------------------------------------------------------------------------
(* The parts of the invariant, kept by every step.                         *)

\* A step of one process is a matter of that process.
LEMMA JobsOfOne ==
  ASSUME Typed, Grows, JobsOK, NEW p \in Procs, NEW job, Become(p, job),
         proc'[p] = job => JobOK(proc[p])'
  PROVE  JobsOK'
<1>1. proc'[p] = job /\ \A q \in Procs \ {p} : proc'[q] = proc[q]
  BY DEF Typed, Become
<1>2. \A q \in Procs \ {p} : JobOK(proc[q])'
  BY <1>1, JobStays DEF JobsOK
<1> QED  BY <1>1, <1>2 DEF JobsOK

\* An idle process knows nothing.
LEMMA JobIdle ==
  ASSUME NEW p \in Procs, proc'[p] = Idle
  PROVE  JobOK(proc[p])'
BY DEF JobOK, Idle

\* A process that goes idle, with an event or without.
LEMMA JobsEnd ==
  ASSUME Typed, Grows, JobsOK, NEW p \in Procs, Become(p, Idle)
  PROVE  JobsOK'
BY JobIdle, JobsOfOne

\* What a process knows of its job is true after every step.
LEMMA JobsNext ==
  ASSUME Typed, Grows, JobsOK, EventsOK, [Next]_vars
  PROVE  JobsOK'
<1>1. \A p \in Procs : proc[p] \in Jobs /\ JobOK(proc[p])
  BY DEF Typed, JobsOK
<1>2. ASSUME UNCHANGED proc PROVE JobsOK'
  BY <1>1, <1>2, JobStays DEF JobsOK
<1>3. ASSUME NEW p \in Procs, Frame(p) PROVE JobsOK'
  <2>1. PICK sat \in BOOLEAN :
          Become(p, [Idle EXCEPT !.pc = "frame", !.at = now, !.sat = sat,
                                 !.trig = cache.trig, !.confirm = cache.confirm,
                                 !.acts = cache.acts])
    BY <1>3 DEF Frame, Become
  <2>2. ASSUME proc'[p] = [Idle EXCEPT !.pc = "frame", !.at = now, !.sat = sat,
                                 !.trig = cache.trig, !.confirm = cache.confirm,
                                 !.acts = cache.acts]
        PROVE  JobOK(proc[p])'
    BY <2>2 DEF JobOK, Idle
  <2> QED  BY <2>1, <2>2, JobsOfOne
<1>4. ASSUME NEW p \in Procs, ApplyTrigger(p) PROVE JobsOK'
  <2>1. \/ Become(p, Idle)
        \/ Become(p, [proc[p] EXCEPT !.pc = "limit", !.sat = FALSE, !.trig = AnyTrigger])
    BY <1>4 DEF ApplyTrigger, Become
  <2>2. ASSUME proc'[p] = [proc[p] EXCEPT !.pc = "limit", !.sat = FALSE, !.trig = AnyTrigger]
        PROVE  JobOK(proc[p])'
    <3>1. proc[p].pc = "frame"
      BY <1>4 DEF ApplyTrigger
    <3> QED  BY <1>1, <2>2, <3>1 DEF JobOK, Jobs
  <2> QED  BY <2>1, <2>2, JobsOfOne, JobsEnd
<1>5. ASSUME NEW p \in Procs, Limit(p) PROVE JobsOK'
  <2>1. Become(p, Idle) \/ Become(p, [proc[p] EXCEPT !.pc = "plan"])
    BY <1>5 DEF Limit
  <2>2. ASSUME proc'[p] = [proc[p] EXCEPT !.pc = "plan"]
        PROVE  JobOK(proc[p])'
    <3>1. proc[p].pc = "limit"
      BY <1>5 DEF Limit
    <3> QED  BY <1>1, <2>2, <3>1 DEF JobOK, Jobs
  <2> QED  BY <2>1, <2>2, JobsOfOne, JobsEnd
<1>6. ASSUME NEW p \in Procs, Plan(p) PROVE JobsOK'
  <2>1. PICK load \in Loads(proc[p].acts), number \in Numbers(proc[p]) :
          Become(p, [proc[p] EXCEPT !.pc = "exec", !.acts = load.acts, !.n = load.n,
                                    !.seq = number.seq])
    BY <1>6 DEF Plan
  <2>2. load.n \in 1 .. NumActions /\ number.seq \in Nat /\ number.seq >= 1
    <3>1. proc[p].acts \in Versions
      BY <1>1 DEF Jobs
    <3> QED  BY <3>1, PlanFacts
  <2>3. ASSUME proc'[p] = [proc[p] EXCEPT !.pc = "exec", !.acts = load.acts, !.n = load.n,
                                          !.seq = number.seq]
        PROVE  JobOK(proc[p])'
    <3>1. proc[p].src # "confirm" /\ proc[p].k = 0
      BY <1>1, <1>6 DEF Plan, JobOK
    <3>2. /\ proc'[p].pc = "exec" /\ proc'[p].src # "confirm" /\ proc'[p].k = 0
          /\ proc'[p].seq >= 1 /\ proc'[p].n >= 1
      BY <1>1, <2>2, <2>3, <3>1 DEF Jobs
    <3> QED  BY <3>2 DEF JobOK
  <2> QED  BY <2>1, <2>3, JobsOfOne
<1>7. ASSUME NEW p \in Procs, CreateCommand(p) PROVE JobsOK'
  <2>1. Become(p, [proc[p] EXCEPT !.k = @ + 1])
    BY <1>7 DEF CreateCommand
  <2>2. ASSUME proc'[p] = [proc[p] EXCEPT !.k = @ + 1]
        PROVE  JobOK(proc[p])'
    <3>1. /\ proc'[p].pc = "exec" /\ proc[p].pc = "exec" /\ proc'[p].k = proc[p].k + 1
          /\ proc'[p].src = proc[p].src /\ proc'[p].seq = proc[p].seq
          /\ proc'[p].acts = proc[p].acts /\ proc'[p].at = proc[p].at
          /\ proc'[p].n = proc[p].n /\ proc[p].k \in Nat
      BY <1>1, <1>7, <2>2 DEF Jobs, CreateCommand
    <3>2. \A k : CommandOf(proc[p], k)' = CommandOf(proc[p], k)
      BY <3>1 DEF CommandOf, Key
    <3>3. CommandOf(proc[p], proc[p].k + 1) \in commands' /\ commands \subseteq commands'
      BY <1>7 DEF CreateCommand, CommandOf
    <3>4. \A k \in 1 .. proc'[p].k : CommandOf(proc[p], k)' \in commands'
      BY <1>1, <3>1, <3>2, <3>3 DEF JobOK
    <3>5. UNCHANGED events /\ Proposal(proc[p].seq)' = Proposal(proc[p].seq)
      BY <1>7, <3>1 DEF CreateCommand, Proposal
    <3> QED  BY <1>1, <3>1, <3>4, <3>5 DEF JobOK
  <2> QED  BY <2>1, <2>2, JobsOfOne
<1>8. ASSUME NEW p \in Procs, CreateRefused(p) PROVE JobsOK'
  <2>1. Become(p, [proc[p] EXCEPT !.pc = "fail"])
    BY <1>8 DEF CreateRefused
  <2>2. ASSUME proc'[p] = [proc[p] EXCEPT !.pc = "fail"]
        PROVE  JobOK(proc[p])'
    <3>1. /\ proc'[p].pc = "fail" /\ proc[p].pc = "exec" /\ proc'[p].k = proc[p].k
          /\ proc'[p].src = proc[p].src /\ proc'[p].seq = proc[p].seq
          /\ proc'[p].acts = proc[p].acts /\ proc'[p].at = proc[p].at
          /\ proc'[p].n = proc[p].n /\ UNCHANGED events /\ UNCHANGED commands
      BY <1>1, <1>8, <2>2 DEF Jobs, CreateRefused
    <3>2. \A k : CommandOf(proc[p], k)' = CommandOf(proc[p], k)
      BY <3>1 DEF CommandOf, Key
    <3>3. Proposal(proc[p].seq)' = Proposal(proc[p].seq)
      BY <3>1 DEF Proposal
    <3> QED  BY <1>1, <3>1, <3>2, <3>3 DEF JobOK
  <2> QED  BY <2>1, <2>2, JobsOfOne
<1>9. ASSUME NEW p \in Procs, \/ Propose(p) \/ PlanRefused(p) \/ RecordExecuted(p) \/ RecordFailure(p)
                              \/ ConfirmExecuted(p) \/ ConfirmFailed(p)
      PROVE  JobsOK'
  BY <1>9, JobsEnd DEF Propose, PlanRefused, RecordExecuted, RecordFailure, ConfirmExecuted, ConfirmFailed
<1>10. ASSUME NEW p \in Procs, Manual(p) PROVE JobsOK'
  <2>1. Become(p, [Idle EXCEPT !.pc = "limit", !.src = "manual", !.at = now, !.base = anchor,
                               !.acts = rule.acts])
    BY <1>10 DEF Manual
  <2>2. ASSUME proc'[p] = [Idle EXCEPT !.pc = "limit", !.src = "manual", !.at = now, !.base = anchor,
                               !.acts = rule.acts]
        PROVE  JobOK(proc[p])'
    BY <2>2 DEF JobOK, Idle
  <2> QED  BY <2>1, <2>2, JobsOfOne
<1>11. ASSUME NEW p \in Procs, NEW i \in DOMAIN events, Confirm(p, i) PROVE JobsOK'
  <2>1. Become(p, [Idle EXCEPT !.pc = "rule", !.src = "confirm", !.at = events[i].at,
                               !.acts = events[i].acts, !.n = events[i].n, !.seq = i])
    BY <1>11 DEF Confirm
  <2>2. Proposal(i) /\ UNCHANGED events
    BY <1>11 DEF Confirm, Open, EventsOK, EventOK
  <2>3. ASSUME proc'[p] = [Idle EXCEPT !.pc = "rule", !.src = "confirm", !.at = events[i].at,
                               !.acts = events[i].acts, !.n = events[i].n, !.seq = i]
        PROVE  JobOK(proc[p])'
    <3>1. /\ proc'[p].pc = "rule" /\ proc'[p].src = "confirm" /\ proc'[p].k = 0 /\ proc'[p].seq = i
          /\ proc'[p].acts = events[i].acts /\ proc'[p].at = events[i].at
          /\ proc'[p].n = events[i].n
      BY <2>3 DEF Idle
    <3> QED  BY <2>2, <3>1 DEF JobOK, Proposal
  <2> QED  BY <2>1, <2>3, JobsOfOne
<1>12. ASSUME NEW p \in Procs, ConfirmPlan(p) PROVE JobsOK'
  <2>1. PICK load \in Loads(rule.acts) :
          \/ Become(p, Idle)
          \/ /\ Unchanged(proc[p], load)
             /\ Become(p, [proc[p] EXCEPT !.pc = "exec", !.acts = load.acts, !.n = load.n])
    BY <1>12 DEF ConfirmPlan
  <2>2. ASSUME Unchanged(proc[p], load),
               proc'[p] = [proc[p] EXCEPT !.pc = "exec", !.acts = load.acts, !.n = load.n]
        PROVE  JobOK(proc[p])'
    <3>4. load.n \in 1 .. NumActions
      <4>1. rule.acts \in Versions
        BY DEF Typed, Rules
      <4> QED  BY <4>1, PlanFacts
    <3>1. /\ proc'[p].pc = "exec" /\ proc[p].pc = "rule" /\ proc'[p].k = proc[p].k
          /\ proc'[p].src = proc[p].src /\ proc'[p].seq = proc[p].seq
          /\ proc'[p].acts = proc[p].acts /\ proc'[p].at = proc[p].at
          /\ proc'[p].n = proc[p].n /\ proc'[p].n >= 1
          /\ UNCHANGED events
      BY <1>1, <1>12, <2>2, <3>4 DEF Jobs, ConfirmPlan, Unchanged
    <3>2. Proposal(proc[p].seq)' = Proposal(proc[p].seq)
      BY <3>1 DEF Proposal
    <3> QED  BY <1>1, <3>1, <3>2 DEF JobOK
  <2> QED  BY <2>1, <2>2, JobsOfOne, JobsEnd
<1>13. ASSUME Restart PROVE JobsOK'
  BY <1>13, JobIdle DEF Restart, JobsOK, Typed
<1>14. ASSUME \/ \E l \in Loaders : LoadRead(l) \/ LoadSwap(l)
              \/ Sweep \/ Edit \/ Tick \/ UNCHANGED vars
       PROVE  JobsOK'
  BY <1>2, <1>14 DEF LoadRead, LoadSwap, Sweep, Edit, Tick, vars
<1>15. ASSUME NEW w \in Workers, WorkerNext(w) PROVE JobsOK'
  BY <1>3, <1>4, <1>5, <1>6, <1>7, <1>8, <1>9, <1>15 DEF WorkerNext, Step, Procs
<1>16. ASSUME NEW o \in Operators, OperatorNext(o) PROVE JobsOK'
  BY <1>5, <1>6, <1>7, <1>8, <1>9, <1>10, <1>11, <1>12, <1>16 DEF OperatorNext, Step, Procs
<1> QED  BY <1>13, <1>14, <1>15, <1>16 DEF Next

\* A command that is created differs from the others in its key, and is what the
\* proposal says if it belongs to one.
LEMMA CommandsNext ==
  ASSUME Typed, Grows, JobsOK, CommandsOK, [Next]_vars
  PROVE  CommandsOK'
<1>1. ASSUME UNCHANGED commands PROVE CommandsOK'
  BY <1>1, CommandsStay
<1>2. ASSUME NEW p \in Procs, CreateCommand(p) PROVE CommandsOK'
  <2> DEFINE job == proc[p]
             new == CommandOf(job, job.k + 1)
  <2>1. /\ commands' = commands \cup {new} /\ UNCHANGED events
        /\ \A c \in commands : c.key = new.key => c = new
    BY <1>2 DEF CreateCommand, CommandOf, Accepts, Sent
  <2>2. JobOK(job) /\ job \in Jobs /\ job.k < job.n
    BY <1>2 DEF JobsOK, Typed, CreateCommand
  <2>3. new.key.src = "confirm" =>
          /\ new.key.of = 0 /\ new.key.seq \in DOMAIN events /\ new.act = events[new.key.seq].acts
          /\ new.key.k <= events[new.key.seq].n
    BY <2>2 DEF CommandOf, Key, JobOK, Jobs
  <2> HIDE DEF new
  <2> QED  BY <2>1, <2>3 DEF CommandsOK
<1>3. ASSUME commands' # commands PROVE \E p \in Procs : CreateCommand(p)
  <2>1. ASSUME NEW w \in Workers, WorkerNext(w) PROVE \E p \in Procs : CreateCommand(p)
    BY <1>3, <2>1 DEF WorkerNext, Frame, ApplyTrigger, Propose, PlanRefused, Step, Limit, Plan,
      CreateRefused, RecordExecuted, RecordFailure, Procs
  <2>2. ASSUME NEW o \in Operators, OperatorNext(o) PROVE \E p \in Procs : CreateCommand(p)
    BY <1>3, <2>2 DEF OperatorNext, Manual, Confirm, ConfirmPlan, ConfirmExecuted, ConfirmFailed,
      Step, Limit, Plan, CreateRefused, RecordExecuted, RecordFailure, Procs
  <2> QED
    BY <1>3, <2>1, <2>2 DEF Next, LoadRead, LoadSwap, Sweep, Edit, Restart, Tick, vars
<1> QED  BY <1>1, <1>2, <1>3

\* The event of a job that is recorded finds the commands that the job has sent.
LEMMA JobSent ==
  ASSUME Typed, NEW p \in Procs, JobOK(proc[p]), proc[p].pc \in {"exec", "fail"},
         proc[p].src # "confirm",
         NEW result, Write(proc[p], result, 0), UNCHANGED commands,
         NEW k \in 1 .. proc[p].k, NEW n, n = Len(events) + 1, NEW v, v = proc[p].acts
  PROVE  SentAs(n, k, v)'
<1>1. proc[p] \in Jobs
  BY DEF Typed
<1>2. PICK c \in commands : c = CommandOf(proc[p], k)
  BY DEF JobOK
<1>3. /\ c.key.src = proc[p].src /\ c.key.seq = proc[p].seq /\ c.key.of = Day(proc[p].at)
      /\ c.key.k = k /\ c.act = v
  BY <1>2 DEF CommandOf, Key
<1>4. events'[n] = [at |-> proc[p].at, src |-> proc[p].src, result |-> result, acts |-> 0,
                    n |-> proc[p].n, seq |-> proc[p].seq, k |-> proc[p].k]
  BY <1>1, WriteAppends
<1>5. /\ events'[n].src = proc[p].src /\ events'[n].seq = proc[p].seq /\ events'[n].at = proc[p].at
  BY <1>4
<1>6. proc[p].seq >= 1 /\ proc[p].seq \in Nat
  BY <1>1 DEF JobOK, Jobs
<1>7. ~Proposal(n)'
  BY <1>5, <1>6 DEF Proposal
<1>8. c \in CommandsOf(n)'
  BY <1>3, <1>5, <1>7 DEF CommandsOf
<1> QED  BY <1>3, <1>8 DEF SentAs

\* So does the proposal of a job that confirms it.
LEMMA ProposalSent ==
  ASSUME Typed, NEW p \in Procs, JobOK(proc[p]), proc[p].pc \in {"exec", "fail"},
         proc[p].src = "confirm",
         NEW k \in 1 .. proc[p].k, NEW n, n = proc[p].seq, NEW v, v = proc[p].acts
  PROVE  n \in DOMAIN events /\ SentAs(n, k, v)
<1>1. PICK c \in commands : c = CommandOf(proc[p], k)
  BY DEF JobOK
<1>2. c.key.src = "confirm" /\ c.key.seq = n /\ c.key.k = k /\ c.act = v
  BY <1>1 DEF CommandOf, Key
<1>3. Proposal(n) /\ n \in DOMAIN events
  BY DEF JobOK
<1> QED  BY <1>2, <1>3 DEF SentAs, CommandsOf

-----------------------------------------------------------------------------
(* What is recorded was done.                                              *)

\* An event that a planned job records, complete or cut off.
LEMMA EventsWritten ==
  ASSUME Typed, JobsOK, Grows, EventsOK, NEW p \in Procs,
         RecordExecuted(p) \/ RecordFailure(p) \/ Propose(p) \/ PlanRefused(p)
  PROVE  EventsOK'
<1> USE Constants
<1>1. proc[p] \in Jobs /\ JobOK(proc[p])
  BY DEF Typed, JobsOK
<1>2. ASSUME WriteFails PROVE EventsOK'
  BY <1>2, EventStays DEF WriteFails, EventsOK
<1>3. ASSUME NEW job \in Jobs, NEW result, NEW acts, Write(job, result, acts),
             NEW n, n = Len(events) + 1, EventOK(n)'
      PROVE  EventsOK'
  <2>1. DOMAIN events' = DOMAIN events \cup {n} /\ \A i \in DOMAIN events : events'[i] = events[i]
    BY <1>3, WriteAppends
  <2>2. \A i \in DOMAIN events : EventOK(i)'
    BY <2>1, EventStays DEF EventsOK
  <2> QED  BY <1>3, <2>1, <2>2 DEF EventsOK
<1>4. PICK n : n = Len(events) + 1
  OBVIOUS
<1>5. PICK v : v = proc[p].acts
  OBVIOUS
<1>6. v \in Versions
  BY <1>1, <1>5 DEF Jobs
<1>7. ASSUME RecordExecuted(p), ~WriteFails PROVE EventsOK'
  <2>1. Write(proc[p], "executed", 0) /\ proc[p].k = proc[p].n /\ proc[p].src # "confirm"
        /\ proc[p].pc = "exec" /\ UNCHANGED commands
    BY <1>7 DEF RecordExecuted
  <2>2. \A k \in 1 .. proc[p].k : SentAs(n, k, v)'
    BY <1>1, <1>4, <1>5, <2>1, JobSent
  <2>3. events'[n].result = "executed" /\ events'[n].n = proc[p].k /\ proc[p].n >= 1
    <3>1. events'[n] = [at |-> proc[p].at, src |-> proc[p].src, result |-> "executed",
                        acts |-> 0, n |-> proc[p].n, seq |-> proc[p].seq, k |-> proc[p].k]
      BY <1>1, <1>4, <2>1, WriteAppends
    <3> QED  BY <1>1, <2>1, <3>1 DEF JobOK
  <2>4. EventOK(n)'
    BY <1>6, <2>1, <2>2, <2>3 DEF EventOK
  <2> QED  BY <1>1, <1>3, <1>4, <2>1, <2>4
<1>8. ASSUME RecordFailure(p), ~WriteFails PROVE EventsOK'
  <2>1. Write(proc[p], Outcome(proc[p]), 0) /\ proc[p].src # "confirm"
        /\ proc[p].pc = "fail" /\ UNCHANGED commands
    BY <1>8 DEF RecordFailure
  <2>2. \A k \in 1 .. proc[p].k : SentAs(n, k, v)'
    BY <1>1, <1>4, <1>5, <2>1, JobSent
  <2>3. events'[n].result \in {"partial", "failed"} /\ events'[n].k = proc[p].k
    <3>1. events'[n] = [at |-> proc[p].at, src |-> proc[p].src, result |-> Outcome(proc[p]),
                        acts |-> 0, n |-> proc[p].n, seq |-> proc[p].seq, k |-> proc[p].k]
      BY <1>1, <1>4, <2>1, WriteAppends
    <3> QED  BY <3>1 DEF Outcome
  <2>4. EventOK(n)'
    BY <1>6, <2>2, <2>3 DEF EventOK
  <2> QED  BY <1>1, <1>3, <1>4, <2>1, <2>4
<1>9. ASSUME Propose(p), ~WriteFails PROVE EventsOK'
  <2>1. PICK load \in Loads(proc[p].acts) :
          Write([proc[p] EXCEPT !.n = load.n], "pending", load.acts)
    BY <1>9 DEF Propose
  <2>2. proc[p].acts \in Versions /\ proc[p].src = "auto" /\ proc[p].seq = 0
    BY <1>1, <1>9 DEF Jobs, JobOK, Propose
  <2>3. PICK job \in Jobs : job = [proc[p] EXCEPT !.n = load.n]
    <3>1. load.n \in 0 .. NumActions
      BY <2>2, PlanFacts
    <3> QED  BY <1>1, <3>1 DEF Jobs
  <2>4. job.src = "auto" /\ job.seq = 0 /\ Write(job, "pending", load.acts)
    BY <1>1, <2>1, <2>2, <2>3 DEF Jobs
  <2>5. events'[n] = [at |-> job.at, src |-> job.src, result |-> "pending", acts |-> load.acts,
                      n |-> job.n, seq |-> job.seq, k |-> job.k]
    BY <1>4, <2>4, WriteAppends
  <2>6. EventOK(n)'
    BY <2>4, <2>5 DEF EventOK, Proposal
  <2> QED  BY <1>3, <1>4, <2>4, <2>6
<1>10. ASSUME PlanRefused(p), ~WriteFails PROVE EventsOK'
  <2>1. Write(proc[p], "failed", 0)
    BY <1>10 DEF PlanRefused
  <2>2. events'[n].result = "failed"
    <3>1. events'[n] = [at |-> proc[p].at, src |-> proc[p].src, result |-> "failed",
                        acts |-> 0, n |-> proc[p].n, seq |-> proc[p].seq, k |-> proc[p].k]
      BY <1>1, <1>4, <2>1, WriteAppends
    <3> QED  BY <3>1
  <2>3. EventOK(n)'
    BY <2>2 DEF EventOK
  <2> QED  BY <1>1, <1>3, <1>4, <2>1, <2>3
<1> QED  BY <1>2, <1>7, <1>8, <1>9, <1>10

\* The verdict of an operator.
LEMMA EventsDecided ==
  ASSUME Typed, JobsOK, Grows, EventsOK, NEW p \in Procs, ConfirmExecuted(p) \/ ConfirmFailed(p)
  PROVE  EventsOK'
<1>1. proc[p] \in Jobs /\ JobOK(proc[p])
  BY DEF Typed, JobsOK
<1>2. ASSUME WriteFails PROVE EventsOK'
  BY <1>2, EventStays DEF WriteFails, EventsOK
<1>3. PICK n : n = proc[p].seq
  OBVIOUS
<1>4. PICK v : v = proc[p].acts
  OBVIOUS
<1>5. v \in Versions
  BY <1>1, <1>4 DEF Jobs
<1>6. /\ proc[p].src = "confirm" /\ proc[p].pc \in {"exec", "fail"} /\ n \in DOMAIN events
      /\ events[n].n = proc[p].n /\ proc[p].n >= 1
  BY <1>1, <1>3 DEF ConfirmExecuted, ConfirmFailed, JobOK
<1>7. \A k \in 1 .. proc[p].k : SentAs(n, k, v)'
  BY <1>1, <1>3, <1>4, <1>6, ProposalSent, SentStays
<1>8. ASSUME NEW result \in {"executed", "partial", "failed"}, Verdict(proc[p], result),
             result = "executed" => proc[p].k = proc[p].n
      PROVE  EventsOK'
  <2>1. /\ DOMAIN events' = DOMAIN events
        /\ \A i \in DOMAIN events \ {n} : events'[i] = events[i]
        /\ events[n].result # "pending" => events'[n] = events[n]
        /\ events[n].result = "pending" =>
             events'[n] = [events[n] EXCEPT !.result = result, !.k = proc[p].k]
    BY <1>1, <1>3, <1>6, <1>8, VerdictEvents
  <2>2. \A i \in DOMAIN events \ {n} : EventOK(i)'
    BY <2>1, EventStays DEF EventsOK
  <2>3. CASE events[n].result # "pending"
    BY <1>6, <2>1, <2>2, <2>3, EventStays DEF EventsOK
  <2>4. CASE events[n].result = "pending"
    <3>1. events[n] \in Events
      BY <1>6 DEF Typed
    <3>2. /\ events'[n].result = result /\ events'[n].k = proc[p].k
          /\ events'[n].n = proc[p].n
      BY <1>6, <2>1, <2>4, <3>1 DEF Events
    <3>3. EventOK(n)'
      BY <1>5, <1>6, <1>7, <1>8, <3>2 DEF EventOK
    <3> QED  BY <2>1, <2>2, <3>3 DEF EventsOK
  <2> QED  BY <2>3, <2>4
<1>9. ASSUME ConfirmExecuted(p), ~WriteFails PROVE EventsOK'
  BY <1>8, <1>9 DEF ConfirmExecuted
<1>10. ASSUME ConfirmFailed(p), ~WriteFails PROVE EventsOK'
  BY <1>8, <1>10 DEF ConfirmFailed, Outcome
<1> QED  BY <1>2, <1>9, <1>10

\* An event that is expired claims nothing.
LEMMA EventsSwept ==
  ASSUME Typed, Grows, EventsOK, Sweep
  PROVE  EventsOK'
<1> SUFFICES ASSUME NEW i \in DOMAIN events PROVE EventOK(i)'
  BY DEF Sweep, EventsOK
<1>1. events[i] \in Events /\ EventOK(i)
  BY DEF Typed, EventsOK
<1>2. events'[i] = IF Expired(i) THEN [events[i] EXCEPT !.result = "expired"] ELSE events[i]
  BY DEF Sweep
<1>3. CASE Expired(i)
  <2>1. events'[i].result = "expired"
    BY <1>1, <1>2, <1>3 DEF Events
  <2> QED  BY <2>1 DEF EventOK
<1>4. CASE ~Expired(i)
  BY <1>1, <1>2, <1>4, EventStays
<1> QED  BY <1>3, <1>4

\* The steps that write no event.
LEMMA WritesNoEvent ==
  ASSUME Next, events' # events
  PROVE  \/ \E p \in Procs : \/ RecordExecuted(p) \/ RecordFailure(p) \/ Propose(p) \/ PlanRefused(p)
                             \/ ConfirmExecuted(p) \/ ConfirmFailed(p)
         \/ Sweep
<1> DEFINE Writer(p) == \/ RecordExecuted(p) \/ RecordFailure(p) \/ Propose(p) \/ PlanRefused(p)
                        \/ ConfirmExecuted(p) \/ ConfirmFailed(p)
<1>1. ASSUME NEW w \in Workers, WorkerNext(w) PROVE \E p \in Procs : Writer(p)
  BY <1>1 DEF WorkerNext, Frame, ApplyTrigger, Step, Limit, Plan, CreateCommand, CreateRefused, Procs
<1>2. ASSUME NEW o \in Operators, OperatorNext(o) PROVE \E p \in Procs : Writer(p)
  BY <1>2 DEF OperatorNext, Manual, Confirm, ConfirmPlan,
    Step, Limit, Plan, CreateCommand, CreateRefused, Procs
<1> QED
  BY <1>1, <1>2 DEF Next, LoadRead, LoadSwap, Edit, Restart, Tick

\* Every event is backed by commands after every step.
LEMMA EventsNext ==
  ASSUME Typed, JobsOK, Grows, EventsOK, [Next]_vars
  PROVE  EventsOK'
<1>1. ASSUME UNCHANGED events PROVE EventsOK'
  BY <1>1, EventStays DEF EventsOK
<1> QED  BY <1>1, WritesNoEvent, EventsWritten, EventsDecided, EventsSwept DEF vars

\* The anchor is set in the transaction that records the execution.
LEMMA AnchorNext ==
  ASSUME Typed, JobsOK, Grows, AnchorBacked, [Next]_vars
  PROVE  AnchorBacked'
<1>1. \A p \in Procs : proc[p] \in Jobs /\ JobOK(proc[p])
  BY DEF Typed, JobsOK
<1>2. ASSUME UNCHANGED anchor PROVE AnchorBacked'
  BY <1>2 DEF AnchorBacked, Grows, Keeps
<1>3. ASSUME NEW p \in Procs, RecordExecuted(p), anchor' # anchor PROVE AnchorBacked'
  <2>1. Write(proc[p], "executed", 0) /\ anchor' = proc[p].at
    BY <1>3 DEF RecordExecuted, WriteFails
  <2>2. PICK n : n = Len(events) + 1
    OBVIOUS
  <2>3. /\ n \in DOMAIN events'
        /\ events'[n] = [at |-> proc[p].at, src |-> proc[p].src, result |-> "executed",
                         acts |-> 0, n |-> proc[p].n, seq |-> proc[p].seq, k |-> proc[p].k]
    BY <1>1, <2>1, <2>2, WriteAppends
  <2>4. events'[n].result = "executed" /\ events'[n].at = proc[p].at
    BY <2>3
  <2> QED  BY <2>1, <2>3, <2>4 DEF AnchorBacked
<1>4. ASSUME NEW p \in Procs, ConfirmExecuted(p), anchor' # anchor PROVE AnchorBacked'
  <2>1. /\ Verdict(proc[p], "executed") /\ anchor' = proc[p].at /\ StillPending(proc[p].seq)
        /\ proc[p].src = "confirm"
    BY <1>4 DEF ConfirmExecuted, WriteFails
  <2>2. PICK n \in DOMAIN events : n = proc[p].seq /\ events[n].at = proc[p].at
    BY <1>1, <2>1 DEF JobOK
  <2>3. events[n] \in Events /\ events[n].result = "pending"
    BY <2>1, <2>2 DEF Typed, StillPending
  <2>4. events'[n] = [events[n] EXCEPT !.result = "executed", !.k = proc[p].k] /\ n \in DOMAIN events'
    BY <1>1, <2>1, <2>2, <2>3, VerdictEvents
  <2>5. events'[n].result = "executed" /\ events'[n].at = events[n].at
    BY <2>3, <2>4 DEF Events
  <2> QED  BY <2>1, <2>2, <2>4, <2>5 DEF AnchorBacked
<1>5. ASSUME Next, anchor' # anchor PROVE \E p \in Procs : RecordExecuted(p) \/ ConfirmExecuted(p)
  <2>1. ASSUME NEW w \in Workers, WorkerNext(w) PROVE \E p \in Procs : RecordExecuted(p)
    BY <1>5, <2>1 DEF WorkerNext, Frame, ApplyTrigger, Propose, PlanRefused, WriteFails, Step, Limit, Plan,
      CreateCommand, CreateRefused, RecordFailure, FailureAnchor, Procs
  <2>2. ASSUME NEW o \in Operators, OperatorNext(o)
        PROVE  \E p \in Procs : RecordExecuted(p) \/ ConfirmExecuted(p)
    BY <1>5, <2>2 DEF OperatorNext, Manual, Confirm, ConfirmPlan, ConfirmFailed, WriteFails,
      Step, Limit, Plan, CreateCommand, CreateRefused, RecordFailure, FailureAnchor, Procs
  <2> QED
    BY <1>5, <2>1, <2>2 DEF Next, LoadRead, LoadSwap, Sweep, Edit, Restart, Tick
<1> QED  BY <1>2, <1>3, <1>4, <1>5 DEF vars

-----------------------------------------------------------------------------
(* The theorems.                                                           *)

\* The invariant holds at the start.
LEMMA InvariantInit == Init => IInv
<1> SUFFICES ASSUME Init PROVE IInv
  OBVIOUS
<1> USE Constants
<1>1. rule \in Rules /\ cache \in Rules /\ AnyTrigger \in Triggers
  BY DEF Init, Rules, Versions, AnyTrigger
<1>2. NewRule \in Rules /\ Idle \in Jobs
  BY <1>1 DEF NewRule, Rules, Idle, Jobs, Sources, Times, Versions, Never
<1>3. Typed
  BY <1>1, <1>2 DEF Init, Typed, Procs, Times, Unloaded
<1>4. CommandsOK /\ EventsOK /\ AnchorBacked
  BY DEF Init, CommandsOK, EventsOK, AnchorBacked
<1>5. JobsOK
  BY DEF Init, JobsOK, JobOK, Procs, Idle
<1> QED  BY <1>3, <1>4, <1>5 DEF IInv

\* Every step keeps the invariant.
LEMMA InvariantStep == IInv /\ [Next]_vars => IInv'
<1> SUFFICES ASSUME IInv, [Next]_vars PROVE IInv'
  OBVIOUS
<1>1. Grows
  BY GrowsNext DEF IInv
<1> QED
  BY <1>1, TypedNext, CommandsNext, JobsNext, EventsNext, AnchorNext DEF IInv

\* What jobs, commands and events say of one another holds in every reachable
\* state (planner.go, handler_automation.go).
THEOREM Invariance == Spec => []IInv
<1> QED  BY InvariantInit, InvariantStep, PTL DEF Spec

\* Rules, jobs, commands and events keep their types.
THEOREM TypeCorrect == Spec => []TypeOK
<1>1. IInv => TypeOK
  BY DEF IInv, Typed, TypeOK, Procs
<1> QED  BY <1>1, Invariance, PTL

\* "executed" is said only of a plan all of whose actions were sent in one version of
\* the rule, "partial" only if the actions before the failed one were.
THEOREM ExecutedWhole == Spec => []ExecutedIsWhole
<1> DEFINE sent(i) == {<<c.key.k, c.act>> : c \in CommandsOf(i)}
<1>1. ASSUME IInv, NEW i \in DOMAIN events, NEW n \in 0 .. NumActions,
             NEW v \in Versions, \A k \in 1 .. n : SentAs(i, k, v)
      PROVE  {a \in sent(i) : a[1] <= n} = (1 .. n) \X {v}
  <2>1. \A c \in CommandsOf(i) : c \in commands /\ c.key \in Keys /\ c.key.k \in 1 .. NumActions
    BY <1>1 DEF IInv, Typed, CommandsOf, Keys
  <2>2. \A c, d \in CommandsOf(i) : c.key.k = d.key.k => c = d
    <3> SUFFICES ASSUME NEW c \in CommandsOf(i), NEW d \in CommandsOf(i), c.key.k = d.key.k
                 PROVE  c.key = d.key
      BY <1>1, <2>1 DEF IInv, CommandsOK
    <3>1. c.key.src = d.key.src /\ c.key.seq = d.key.seq /\ c.key.of = d.key.of
      BY <1>1 DEF IInv, CommandsOK, CommandsOf
    <3> QED  BY <2>1, <3>1 DEF Keys
  <2>3. \A k \in 1 .. n : \E c \in CommandsOf(i) : c.key.k = k /\ c.act = v
    BY <1>1 DEF SentAs
  <2>4. ASSUME NEW a \in sent(i), a[1] <= n
        PROVE  a \in (1 .. n) \X {v}
    <3>1. PICK c \in CommandsOf(i) : a = <<c.key.k, c.act>>
      OBVIOUS
    <3>2. c.key.k \in 1 .. n
      BY <2>1, <2>4, <3>1, Constants
    <3>3. c.act = v
      BY <2>2, <2>3, <3>2
    <3> QED  BY <3>1, <3>2, <3>3
  <2>5. ASSUME NEW k \in 1 .. n
        PROVE  <<k, v>> \in sent(i) /\ <<k, v>>[1] <= n
    BY <2>3
  <2> QED  BY <2>4, <2>5
<1>2. ASSUME IInv PROVE ExecutedIsWhole
  <2> SUFFICES ASSUME NEW i \in DOMAIN events
               PROVE  /\ events[i].result = "executed" =>
                           /\ events[i].n > 0
                           /\ \E v \in Versions :
                                {a \in sent(i) : a[1] <= events[i].n} = (1 .. events[i].n) \X {v}
                      /\ events[i].result = "partial" =>
                           \A k \in 1 .. events[i].k : \E c \in CommandsOf(i) : c.key.k = k
    BY DEF ExecutedIsWhole
  <2>1. EventOK(i) /\ events[i].n \in 0 .. NumActions
    <3>1. events[i] \in Events
      BY <1>2 DEF IInv, Typed
    <3> QED  BY <1>2, <3>1 DEF IInv, EventsOK, Events
  <2>2. ASSUME events[i].result = "executed"
        PROVE  /\ events[i].n > 0
               /\ \E v \in Versions :
                    {a \in sent(i) : a[1] <= events[i].n} = (1 .. events[i].n) \X {v}
    <3>1. PICK v \in Versions : \A k \in 1 .. events[i].n : SentAs(i, k, v)
      BY <2>1, <2>2 DEF EventOK
    <3>2. events[i].n > 0
      BY <2>1, <2>2 DEF EventOK
    <3> HIDE DEF sent
    <3> QED  BY <1>1, <1>2, <2>1, <3>1, <3>2
  <2>3. ASSUME events[i].result = "partial"
        PROVE  \A k \in 1 .. events[i].k : \E c \in CommandsOf(i) : c.key.k = k
    BY <2>1, <2>3 DEF EventOK, SentAs
  <2> QED  BY <2>2, <2>3
<1> QED  BY <1>2, Invariance, PTL

\* A confirmation sends what was proposed, and no more.
THEOREM ConfirmedSeen == Spec => []ConfirmedAsSeen
<1>1. IInv => ConfirmedAsSeen
  BY DEF IInv, CommandsOK, ConfirmedAsSeen
<1> QED  BY <1>1, Invariance, PTL

\* The anchor of the cooldown is the time of a complete execution on record.
THEOREM AnchorTrue == Spec => []AnchorBacked
<1>1. IInv => AnchorBacked
  BY DEF IInv
<1> QED  BY <1>1, Invariance, PTL

\* A decision that is no longer pending is final.
THEOREM DecisionsFinal == Spec => DecisionIsFinal
<1>1. ASSUME IInv, [Next]_vars
      PROVE  \A i \in DOMAIN events : events[i].result # "pending" =>
               events'[i].result = events[i].result
  BY <1>1, GrowsNext DEF IInv, Grows, Keeps
<1>2. IInv /\ [Next]_vars =>
        [\A i \in DOMAIN events : events[i].result # "pending" =>
           events'[i].result = events[i].result]_vars
  BY <1>1
<1> QED  BY <1>2, Invariance, PTL DEF Spec, DecisionIsFinal

=============================================================================
