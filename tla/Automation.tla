------------------------------ MODULE Automation ------------------------------
(***************************************************************************)
(* One automation rule of the backend: the evaluator that decides from the *)
(* reported values when the rule triggers (automation/evaluator.go), the   *)
(* planner that executes its actions, proposes them for confirmation and   *)
(* records what happened (automation/planner.go), the editor of the rule   *)
(* (api/handler_automation.go).  Rules share nothing but the database.     *)
(*                                                                         *)
(* Workers evaluate the frames of one device each; operators trigger the   *)
(* rule by hand or confirm a proposal; loaders copy the rule's row into    *)
(* the evaluator.  A statement of the database is one step, but for the    *)
(* queries a plan rests on, which are one together.  Each of those may     *)
(* fail, and the planner goes on without its answer.  Notifications and    *)
(* the audit rows of suppressed triggers, which nothing reads back, are    *)
(* left out.  The system has one user, so that operators share the scope   *)
(* of their idempotency keys.                                              *)
(***************************************************************************)
EXTENDS Integers, Sequences, FiniteSets, SequencesExt

CONSTANTS
  Workers, Operators,  \* goroutines of the data bus; requests of the API
  Loaders, Ticker,     \* calls of LoadRules; the one of the 30 s ticker
  NumActions,          \* device actions of the rule, executed in this order
  Triggers, Duration,  \* contents of the trigger's fields; trigger_duration_sec
  MaxSamples,          \* maxWindowSamples
  Cooldown,            \* cooldown_sec; 0 is none
  MaxDaily,            \* max_daily_exec; 0 is no limit
  DayLength,           \* length of the day that numbers the triggers
  TTL,                 \* pendingConfirmTTL
  LastFrame, MaxTime,  \* bounds: the last report; the clock
  MaxEdits, MaxFaults, \* bounds: saved edits; restarts, failed queries and writes
  MaxEvents            \* bound: recorded events

ASSUME NatConstants ==
  /\ {Cooldown, MaxDaily, TTL, LastFrame, MaxTime} \subseteq Nat
  /\ Duration \in [Triggers -> Nat]
  /\ {MaxEdits, MaxFaults, MaxEvents} \subseteq Nat
  /\ {NumActions, DayLength, MaxSamples} \subseteq Nat \ {0}
ASSUME TickerLoads == Ticker \in Loaders

VARIABLES
  now,       \* the clock
  rule,      \* automation_rules and automation_rule_actions of the rule
  anchor,    \* its last_triggered_at
  cache,     \* the evaluator's copy of the rule; one that is not enabled is absent
  window,    \* windows[rule]: the samples of the trigger condition
  fired,     \* triggered[rule]: the start of the cooldown
  loader,    \* LoadRules between its query and its lock
  proc,      \* what each worker and each operator does
  events,    \* automation_events, by id
  commands,  \* command_executions of the rule
  edits, faults

vars == <<now, rule, anchor, cache, window, fired, loader, proc, events,
          commands, edits, faults>>

Never == -1
Times == 0 .. MaxTime
Versions == 0 .. MaxEdits
Sources == {"auto", "manual", "confirm"}
\* A version stands for a content of the actions.
Rules == [state : {"enabled", "disabled", "deleted"}, trig : Triggers,
          acts : Versions, confirm : BOOLEAN]
Samples == [at : Times, sat : BOOLEAN, by : Workers, trig : Triggers]
\* acts and n are the action_hash of a proposal; seq stands for the command_id.  Of the
\* others n is not recorded: it says how many actions their plan had.
Events == [at : Times, src : Sources, result : {"pending", "executed", "partial", "failed",
           "expired"}, acts : Versions, n : 0 .. NumActions, seq : Nat, k : 0 .. NumActions]
Keys == [src : Sources, of : Nat, seq : Nat, k : 1 .. NumActions]
Jobs == [pc : {"idle", "frame", "limit", "plan", "rule", "exec", "fail"},
         src : Sources, at : Times, sat : BOOLEAN, trig : Triggers,
         confirm : BOOLEAN, base : Times \cup {Never}, acts : Versions, n : 0 .. NumActions,
         seq : Nat, k : 0 .. NumActions]

AnyTrigger == CHOOSE t \in Triggers : TRUE
NewRule == [state |-> "enabled", trig |-> AnyTrigger, acts |-> 0, confirm |-> FALSE]
Idle == [pc |-> "idle", src |-> "auto", at |-> 0, sat |-> FALSE, trig |-> AnyTrigger,
         confirm |-> FALSE, base |-> Never, acts |-> 0, n |-> 0, seq |-> 0, k |-> 0]
Unloaded == [read |-> FALSE, row |-> NewRule]

Init ==
  /\ now = 0 /\ anchor = Never /\ fired = Never /\ window = <<>>
  /\ rule \in [state : {"enabled"}, trig : Triggers, acts : {0}, confirm : BOOLEAN]
  /\ cache = rule
  /\ loader = [l \in Loaders |-> Unloaded]
  /\ proc = [p \in Workers \cup Operators |-> Idle]
  /\ events = <<>> /\ commands = {} /\ edits = 0 /\ faults = 0

-----------------------------------------------------------------------------
(***************************************************************************)
(* The evaluator.                                                          *)
(***************************************************************************)

\* cooldownFor: the cooldown is 0 or not over at t when it started at s.
Cooling(s, t) == s # Never /\ Cooldown > 0 /\ t - s < Cooldown

\* pruneWindow: the samples of the duration and the last one before it, of
\* these the newest MaxSamples.
Recent(win, d, t) ==
  LET inside == {i \in DOMAIN win : win[i].at >= t - d}
      first  == CHOOSE i \in inside : \A j \in inside : i <= j
      start  == Max({1, first - 1, Len(win) - MaxSamples + 1})
  IN  IF d = 0 \/ inside = {} THEN <<Last(win)>> ELSE SubSeq(win, start, Len(win))

\* windowSatisfied: satisfied throughout, for the duration.
Continuous(win, d, t) ==
  d = 0 \/ (t - win[1].at >= d /\ \A i \in DOMAIN win : win[i].sat)

\* A sample of another device ends the series.
SameSource(win, w) == IF win # <<>> /\ Last(win).by # w THEN <<>> ELSE win

\* A report arrives: the condition is evaluated on the published snapshot of
\* the rules, before the lock is taken.
Frame(w) ==
  /\ proc[w].pc = "idle" /\ cache.state = "enabled" /\ now <= LastFrame
  /\ \E sat \in BOOLEAN :
       proc' = [proc EXCEPT ![w] = [Idle EXCEPT !.pc = "frame", !.at = now,
                                                !.sat = sat, !.trig = cache.trig,
                                                !.confirm = cache.confirm,
                                                !.acts = cache.acts]]
  /\ UNCHANGED <<now, rule, anchor, cache, window, fired, loader, events,
                 commands, edits, faults>>

\* Under the lock: within the cooldown nothing changes, otherwise the sample is
\* added and a series that is long enough starts the cooldown and the planner.
ApplyTrigger(w) ==
  LET job == proc[w]
      win == Recent(Append(SameSource(window, w),
                           [at |-> job.at, sat |-> job.sat, by |-> w,
                            trig |-> job.trig]), Duration[job.trig], job.at)
      triggers == job.sat /\ Continuous(win, Duration[job.trig], job.at)
  IN
  /\ job.pc = "frame"
  /\ IF Cooling(fired, job.at)
       THEN proc' = [proc EXCEPT ![w] = Idle] /\ UNCHANGED <<window, fired>>
       ELSE /\ window' = win
            /\ fired' = IF triggers THEN job.at ELSE Never
            /\ proc' = [proc EXCEPT ![w] = IF triggers THEN [job EXCEPT !.pc = "limit", !.sat = FALSE, !.trig = AnyTrigger]
                                                       ELSE Idle]
  /\ UNCHANGED <<now, rule, anchor, cache, loader, events, commands, edits, faults>>

\* LoadRules reads the rules ...
DueAfterEdit(l) == ~loader[l].read /\ l # Ticker  \* mutant: no ticker
Due(l) == ~loader[l].read
LoadRead(l) ==
  /\ Due(l)
  /\ loader' = [loader EXCEPT ![l] = [read |-> TRUE, row |-> rule]]
  /\ UNCHANGED <<now, rule, anchor, cache, window, fired, proc, events, commands,
                 edits, faults>>

\* ... and installs them: samples of another trigger condition are dropped, and
\* the cooldown of a rule that is no longer enabled.
SameTrigger(old, new) == {old.state, new.state} = {"enabled"} /\ old.trig = new.trig
KeepsCooldownOfTrigger(row) == SameTrigger(cache, row)  \* mutant: cleared with the window
KeepsCooldown(row) == row.state = "enabled"
LoadSwap(l) ==
  LET row == loader[l].row IN
  /\ loader[l].read
  /\ cache' = row
  /\ window' = IF SameTrigger(cache, row) THEN window ELSE <<>>
  /\ fired' = IF KeepsCooldown(row) THEN fired ELSE Never
  /\ loader' = [loader EXCEPT ![l] = Unloaded]
  /\ UNCHANGED <<now, rule, anchor, proc, events, commands, edits, faults>>

-----------------------------------------------------------------------------
(***************************************************************************)
(* The planner: steps of a job that is triggered or confirmed.             *)
(***************************************************************************)

Day(t) == t \div DayLength
OfDay(t) == {i \in DOMAIN events : events[i].at >= Day(t) * DayLength}
Executed(t) == {i \in OfDay(t) : events[i].result = "executed"}

\* nextTriggerSeq: the decisions of the day, the manual ones for a manual one.
CountedExecuted(job) == Executed(job.at)  \* mutant: failed decisions reuse their number
Counted(job) == {i \in OfDay(job.at) : job.src = "manual" => events[i].src = "manual"}
NextSeq(job) == Cardinality(Counted(job)) + 1

\* A query that fails is a fault.
Fails(n) == faults' = faults + n /\ faults' <= MaxFaults

\* A count that fails is 0 ...
Numbers(job) == {[seq |-> NextSeq(job), failed |-> 0], [seq |-> 1, failed |-> 1]}

\* ... and without the actions' rows, ruleActions takes the columns of the rule's row, as
\* the job has read it (own), which mirror the first action.
Loads(own) == {[acts |-> rule.acts, n |-> NumActions, failed |-> 0],
               [acts |-> own, n |-> 1, failed |-> 1]}

Become(p, job) == proc' = [proc EXCEPT ![p] = job]
Write(job, result, acts) ==
  events' = Append(events, [at |-> job.at, src |-> job.src, result |-> result, acts |-> acts,
                            n |-> job.n, seq |-> job.seq, k |-> job.k])
\* Writes of the audit fail open.
WriteFails == faults < MaxFaults /\ faults' = faults + 1 /\ UNCHANGED <<events, anchor>>

\* cooldownBase: the anchor of the row that was read, or else the last decision.
LastDecision ==
  LET at == {events[i].at : i \in {j \in DOMAIN events : events[j].result \in {"executed", "pending"}}}
  IN  IF at = {} THEN Never ELSE Max(at)
Base(job) == IF job.base # Never THEN job.base ELSE LastDecision

\* The daily limit; a manual trigger respects the cooldown as well.  A limit whose
\* query fails does not hold.
OverLimit(job) == MaxDaily > 0 /\ Cardinality(Executed(job.at)) >= MaxDaily
Limited(job, limit, base) ==
  \/ limit = 0 /\ OverLimit(job)
  \/ job.src = "manual" /\ Cooling(IF base = 0 THEN Base(job) ELSE job.base, job.at)
Limit(p) ==
  LET job == proc[p] IN
  /\ job.pc = "limit"
  /\ \E limit, base \in 0 .. 1 :
       /\ Fails(limit + base)
       /\ Become(p, IF Limited(job, limit, base) THEN Idle ELSE [job EXCEPT !.pc = "plan"])
  /\ UNCHANGED <<now, rule, anchor, cache, window, fired, loader, events, commands, edits>>

\* A rule that requires confirmation only proposes its actions.
Propose(w) ==
  LET job == proc[w] IN
  /\ job.pc = "plan" /\ job.src = "auto" /\ job.confirm
  /\ Become(w, Idle)
  /\ Len(events) < MaxEvents
  /\ \/ \E load \in Loads(job.acts) :
          /\ Fails(load.failed)
          /\ Write([job EXCEPT !.n = load.n], "pending", load.acts)
          /\ UNCHANGED anchor
     \/ WriteFails
  /\ UNCHANGED <<now, rule, cache, window, fired, loader, commands, edits>>

\* The conditions no longer hold, or there is no system user yet.
PlanRefused(w) ==
  LET job == proc[w] IN
  /\ job.pc = "plan" /\ job.src = "auto" /\ ~job.confirm
  /\ Become(w, Idle)
  /\ Len(events) < MaxEvents
  /\ \/ Write(job, "failed", 0) /\ UNCHANGED <<anchor, faults>>
     \/ WriteFails
  /\ UNCHANGED <<now, rule, cache, window, fired, loader, commands, edits>>

\* The actions as they are now, under the next number of the day.
Plan(p) ==
  LET job == proc[p] IN
  /\ job.pc = "plan" /\ (job.src = "auto" => ~job.confirm)
  /\ \E load \in Loads(job.acts), number \in Numbers(job) :
       /\ Fails(load.failed + number.failed)
       /\ Become(p, [job EXCEPT !.pc = "exec", !.acts = load.acts, !.n = load.n,
                                !.seq = number.seq])
  /\ UNCHANGED <<now, rule, anchor, cache, window, fired, loader, events, commands, edits>>

\* The idempotency key of an action: day and number, or the confirmed event.
Key(job, k) == [src |-> job.src, of |-> IF job.src = "confirm" THEN 0 ELSE Day(job.at),
                seq |-> job.seq, k |-> k]
Sent(key) == {c \in commands : c.key = key}

AcceptsAny(command) == TRUE  \* mutant: parameters are not compared
Accepts(command) == Sent(command.key) \subseteq {command}

\* commandexec's Create for the next action: a new command, or the one that its
\* key already names if the parameters are the same.
CreateCommand(p) ==
  LET job == proc[p]
      command == [key |-> Key(job, job.k + 1), act |-> job.acts]
  IN
  /\ job.pc = "exec" /\ job.k < job.n
  /\ Accepts(command)
  /\ commands' = commands \cup {command}
  /\ Become(p, [job EXCEPT !.k = @ + 1])
  /\ UNCHANGED <<now, rule, anchor, cache, window, fired, loader, events, edits, faults>>

\* The key is taken by other parameters; a gate, or for a confirmation the
\* rate limit or the recent login, refuses.  The remaining actions are aborted.
Replayed(job) == [key |-> Key(job, job.k + 1), act |-> job.acts] \in commands
Refusable(job) == job.src = "confirm" \/ ~Replayed(job)
CreateRefused(p) ==
  LET job == proc[p] IN
  /\ job.pc = "exec" /\ job.k < job.n /\ Refusable(job)
  /\ Become(p, [job EXCEPT !.pc = "fail"])
  /\ UNCHANGED <<now, rule, anchor, cache, window, fired, loader, events,
                 commands, edits, faults>>

\* recordExecuted: the event and the cooldown's anchor in one transaction.
RecordExecuted(p) ==
  LET job == proc[p] IN
  /\ job.pc = "exec" /\ job.k = job.n /\ job.src # "confirm"
  /\ Become(p, Idle)
  /\ Len(events) < MaxEvents
  /\ \/ /\ Write(job, "executed", 0)
        /\ anchor' = IF rule.state = "deleted" THEN anchor ELSE job.at
        /\ UNCHANGED faults
     \/ WriteFails
  /\ UNCHANGED <<now, rule, cache, window, fired, loader, commands, edits>>

\* The anchor is for rules that were executed completely.
OutcomeMisnamed(job) == IF job.k > 0 THEN "partial_failure" ELSE "failed"  \* mutant
Outcome(job) == IF job.k > 0 THEN "partial" ELSE "failed"
FailureAnchored(job) == IF job.k > 0 THEN job.at ELSE anchor  \* mutant
FailureAnchor(job) == anchor
RecordFailure(p) ==
  LET job == proc[p] IN
  /\ job.pc = "fail" /\ job.src # "confirm"
  /\ Become(p, Idle)
  /\ Len(events) < MaxEvents
  /\ \/ /\ Write(job, Outcome(job), 0)
        /\ anchor' = FailureAnchor(job)
        /\ UNCHANGED faults
     \/ WriteFails
  /\ UNCHANGED <<now, rule, cache, window, fired, loader, commands, edits>>

-----------------------------------------------------------------------------
(***************************************************************************)
(* Operators.                                                              *)
(***************************************************************************)

\* POST /automation-rules/:id/trigger reads the row with its anchor.
Manual(o) ==
  /\ proc[o].pc = "idle" /\ rule.state = "enabled" /\ now <= LastFrame
  /\ Become(o, [Idle EXCEPT !.pc = "limit", !.src = "manual", !.at = now, !.base = anchor,
                            !.acts = rule.acts])
  /\ UNCHANGED <<now, rule, anchor, cache, window, fired, loader, events,
                 commands, edits, faults>>

\* POST /automation-events/:id/confirm reads the event; id stands in seq.
Open(i) == events[i].result = "pending" /\ now - events[i].at <= TTL
Confirm(o, i) ==
  /\ proc[o].pc = "idle" /\ Open(i)
  /\ Become(o, [Idle EXCEPT !.pc = "rule", !.src = "confirm", !.at = events[i].at,
                            !.acts = events[i].acts, !.n = events[i].n, !.seq = i])
  /\ UNCHANGED <<now, rule, anchor, cache, window, fired, loader, events,
                 commands, edits, faults>>

\* The rule must exist and its actions be the ones that were proposed.
UnchangedRule(job, load) == rule.state # "deleted"  \* mutant: the actions are not compared
Unchanged(job, load) == rule.state # "deleted" /\ load.acts = job.acts /\ load.n = job.n
ConfirmPlan(o) ==
  LET job == proc[o] IN
  /\ job.pc = "rule"
  /\ \E load \in Loads(rule.acts) :
       /\ Fails(load.failed)
       /\ Become(o, IF Unchanged(job, load)
                     THEN [job EXCEPT !.pc = "exec", !.acts = load.acts, !.n = load.n] ELSE Idle)
  /\ UNCHANGED <<now, rule, anchor, cache, window, fired, loader, events, commands, edits>>

\* The verdict of a proposal replaces "pending" and nothing else.
StillPending(i) == events[i].result = "pending"
Verdict(job, result) ==
  events' = [events EXCEPT ![job.seq].result = IF StillPending(job.seq) THEN result ELSE @,
                           ![job.seq].k = IF StillPending(job.seq) THEN job.k ELSE @]

\* flipExecuted: the verdict and the anchor, back to the proposal's time.
ConfirmExecuted(o) ==
  LET job == proc[o] IN
  /\ job.pc = "exec" /\ job.k = job.n /\ job.src = "confirm"
  /\ Become(o, Idle)
  /\ \/ /\ Verdict(job, "executed")
        /\ anchor' = IF StillPending(job.seq) /\ rule.state # "deleted" THEN job.at ELSE anchor
        /\ UNCHANGED faults
     \/ WriteFails
  /\ UNCHANGED <<now, rule, cache, window, fired, loader, commands, edits>>

ConfirmFailed(o) ==
  LET job == proc[o] IN
  /\ job.pc = "fail" /\ job.src = "confirm"
  /\ Become(o, Idle)
  /\ \/ Verdict(job, Outcome(job)) /\ UNCHANGED <<anchor, faults>>
     \/ WriteFails
  /\ UNCHANGED <<now, rule, cache, window, fired, loader, commands, edits>>

-----------------------------------------------------------------------------
\* sweepExpiredPending: one UPDATE of all proposals that are too old.
ExpiredAll(i) == events[i].at < now - TTL  \* mutant: whatever the result
ExpiredEnabled(i) == StillPending(i) /\ events[i].at < now - TTL
                       /\ rule.state # "deleted"  \* mutant: joined with the rules
Expired(i) == StillPending(i) /\ events[i].at < now - TTL
Sweep ==
  /\ \E i \in DOMAIN events : Expired(i)
  /\ events' = [i \in DOMAIN events |->
                  IF Expired(i) THEN [events[i] EXCEPT !.result = "expired"] ELSE events[i]]
  /\ UNCHANGED <<now, rule, anchor, cache, window, fired, loader, proc, commands,
                 edits, faults>>

\* The editor saves the rule with its actions, enables, disables or deletes it;
\* the handler's LoadRules follows as a loader of its own.
Edit ==
  /\ edits < MaxEdits /\ rule.state # "deleted"
  /\ edits' = edits + 1
  /\ \/ \E t \in Triggers \ {rule.trig} : rule' = [rule EXCEPT !.trig = t]
     \/ rule' = [rule EXCEPT !.acts = edits + 1]
     \/ rule' = [rule EXCEPT !.confirm = ~@]
     \/ rule' = [rule EXCEPT !.state = IF @ = "enabled" THEN "disabled" ELSE "enabled"]
     \/ rule' = [rule EXCEPT !.state = "deleted"]
  /\ UNCHANGED <<now, anchor, cache, window, fired, loader, proc, events, commands, faults>>

\* The server restarts: LoadRules, then rebuildCooldowns from the anchors.
RebuiltArmed == Never  \* mutant: nothing is rebuilt
Rebuilt == anchor
Restart ==
  /\ faults < MaxFaults /\ faults' = faults + 1
  /\ cache' = rule /\ window' = <<>> /\ fired' = Rebuilt
  /\ loader' = [l \in Loaders |-> Unloaded]
  /\ proc' = [p \in DOMAIN proc |-> Idle]
  /\ UNCHANGED <<now, rule, anchor, events, commands, edits>>

Tick ==
  /\ now < MaxTime /\ now' = now + 1
  /\ UNCHANGED <<rule, anchor, cache, window, fired, loader, proc, events,
                 commands, edits, faults>>

Step(p) == Limit(p) \/ Plan(p) \/ CreateCommand(p) \/ CreateRefused(p)
             \/ RecordExecuted(p) \/ RecordFailure(p)
WorkerNext(w) == Frame(w) \/ ApplyTrigger(w) \/ Propose(w) \/ PlanRefused(w) \/ Step(w)
OperatorNext(o) == Manual(o) \/ (\E i \in DOMAIN events : Confirm(o, i)) \/ ConfirmPlan(o)
                     \/ ConfirmExecuted(o) \/ ConfirmFailed(o) \/ Step(o)

Next ==
  \/ \E w \in Workers : WorkerNext(w)
  \/ \E o \in Operators : OperatorNext(o)
  \/ \E l \in Loaders : LoadRead(l) \/ LoadSwap(l)
  \/ Sweep \/ Edit \/ Restart \/ Tick

\* The sweeper and the ticker run for as long as the server does, and so does
\* the clock; a LoadRules that read the rules gets its lock.
Fairness ==
  /\ WF_vars(Sweep) /\ WF_vars(Tick) /\ WF_vars(LoadRead(Ticker))
  /\ \A l \in Loaders : WF_vars(LoadSwap(l))

Spec == Init /\ [][Next]_vars /\ Fairness

-----------------------------------------------------------------------------
(* Properties *)

TypeOK ==
  /\ now \in Times /\ rule \in Rules /\ cache \in Rules
  /\ anchor \in Times \cup {Never} /\ fired \in Times \cup {Never}
  /\ \A i \in DOMAIN window : window[i] \in Samples
  /\ loader \in [Loaders -> [read : BOOLEAN, row : Rules]]
  /\ \A p \in Workers \cup Operators : proc[p] \in Jobs
  /\ \A i \in DOMAIN events : events[i] \in Events
  /\ \A c \in commands : c.key \in Keys /\ c.act \in Versions
  /\ edits \in 0 .. MaxEdits /\ faults \in 0 .. MaxFaults

\* A proposal's commands carry its id, those of other decisions their number.
Proposal(i) == events[i].src = "auto" /\ events[i].seq = 0
CommandsOf(i) ==
  LET e == events[i]
  IN  IF Proposal(i) THEN {c \in commands : c.key.src = "confirm" /\ c.key.seq = i}
      ELSE {c \in commands : /\ c.key.src = e.src /\ c.key.seq = e.seq
                             /\ c.key.of = Day(e.at)}

(* An event says "executed" only if every action that its plan had was     *)
(* sent for it, in one version of the rule, and "partial" only if the      *)
(* actions before the failed one were: replays, collisions, edits in       *)
(* between and failed queries included (executeActions,                    *)
(* executeManualDeviceAction, ConfirmEvent).                               *)
ExecutedIsWhole ==
  \A i \in DOMAIN events :
    LET e == events[i]
        sent == {<<c.key.k, c.act>> : c \in CommandsOf(i)}
    IN  /\ e.result = "executed" =>
             e.n > 0 /\ \E v \in Versions : {a \in sent : a[1] <= e.n} = (1 .. e.n) \X {v}
        /\ e.result = "partial" =>
             \A k \in 1 .. e.k : \E c \in CommandsOf(i) : c.key.k = k

(* "The anchor says that the rule has fired completely" (executeActions):  *)
(* every action of the rule, not of its plan, was sent for an event that   *)
(* says "executed".                                                        *)
ExecutedIsComplete ==
  \A i \in DOMAIN events : events[i].result = "executed" =>
    \A k \in 1 .. NumActions : \E c \in CommandsOf(i) : c.key.k = k

(* A confirmation sends the actions the operator was shown, and no more of *)
(* them, however the rule was edited since and whatever its query found    *)
(* (ConfirmEvent, Y5).                                                     *)
ConfirmedAsSeen ==
  \A c \in commands : c.key.src = "confirm" =>
    c.act = events[c.key.seq].acts /\ c.key.k <= events[c.key.seq].n

(* The result of a decision changes once, from "pending", whatever the     *)
(* sweeper and several operators do at once (flipExecuted,                 *)
(* recordConfirmFailure, sweepExpiredPending).                             *)
DecisionIsFinal ==
  [][\A i \in DOMAIN events : events[i].result # "pending" =>
       events'[i].result = events[i].result]_vars

(* The cooldown's anchor names a complete execution, never a partial one   *)
(* nor one that left no event (recordExecuted, flipExecuted).              *)
AnchorBacked ==
  anchor # Never => \E i \in DOMAIN events : /\ events[i].result = "executed"
                                             /\ events[i].at = anchor

(* Triggers of one worker are a cooldown apart if they were executed,      *)
(* across restarts and edits of the trigger (applyTrigger, LoadRules,      *)
(* rebuildCooldowns).                                                      *)
AutoExecuted == {i \in DOMAIN events : events[i].src = "auto" /\ ~Proposal(i)
                                       /\ events[i].result = "executed"}
CooldownKept ==
  \A i, j \in AutoExecuted : i < j => ~Cooling(events[i].at, events[j].at)

(* "The keys no longer coincide: a retry really sends again": decisions    *)
(* that were recorded one after the other share no command                 *)
(* (nextTriggerSeq).                                                       *)
Sending == {i \in DOMAIN events : ~Proposal(i) /\ events[i].result \in {"executed", "partial"}}
RetrySendsAgain ==
  \A i, j \in Sending : i # j => CommandsOf(i) \cap CommandsOf(j) = {}

(* nextTriggerSeq on two workers that get one number: the key's collision  *)
(* stops the second, "never silently executing less".                      *)
NeverSilentlyLess == RetrySendsAgain

(* The anchor is the rule's last trigger (models/automation.go): it does   *)
(* not go back.                                                            *)
AnchorIsLatest == [][anchor # Never => anchor' >= anchor]_vars

(* A proposal is decided in the end, by an operator or by the sweeper      *)
(* (StartCleanup).                                                         *)
PendingAt(i) == i \in DOMAIN events /\ events[i].result = "pending"
PendingSettles == \A i \in 1 .. MaxEvents : PendingAt(i) ~> ~PendingAt(i)

(* The evaluator decides by the stored rule in the end, in whatever order  *)
(* concurrent LoadRules read and install it (Start).                       *)
CacheFresh == <>[](cache = rule)
=============================================================================
