-------------------------- MODULE CommandAdmission --------------------------
(***************************************************************************)
(* The life of a command execution outside the command engine: how it gets  *)
(* on record (Service.Create with its idempotency key, gates and            *)
(* confirmation), how a confirmation is issued and consumed                 *)
(* (confirmation.go), how an operator concludes an UNKNOWN one, how the     *)
(* daily retention takes it off the record and keeps the panel's totals     *)
(* (datalifecycle/command_*_cleanup.go, metrics_baseline.go), and how the   *)
(* panel reads them (api/handler_metrics.go).                               *)
(*                                                                         *)
(* All requests are for one action of one device by one user, so that the   *)
(* idempotency scope and the binding of a confirmation differ in key and    *)
(* request hash only.  Transactions run under READ COMMITTED: what a        *)
(* transaction has written is seen by others when it commits, and a row or  *)
(* a unique key it has written makes others wait until then.  The engine's  *)
(* progress of an execution is one step to a verdict: CommandExec has it in *)
(* detail.                                                                  *)
(***************************************************************************)
EXTENDS Integers, FiniteSets

CONSTANTS
    Requests,       \* HTTP requests and planner calls in progress at once
    Acknowledged,   \* requests of the planner whose rule has the risk acknowledged
    Issuers,        \* confirmation dialogs open at once
    Keys, Hashes,   \* idempotency keys and hashes of canonical parameters
    Grants,         \* confirmation tokens
    NoGrant,        \* no token
    Ids,            \* command ids; bounds the executions ever admitted
    Cleaners,       \* replicas running the daily retention
    Panels,         \* readers of the metrics panel
    RecentAuth, Lifetime, RateWindow,   \* recentAuthenticationWindow, confirmationLifetime, confirmationRateWindow
    MaxPerWindow,   \* maxConfirmationsPerWindow
    MaxClock        \* bound on the clock

ASSUME AdmissionAssumption ==
    /\ Acknowledged \subseteq Requests
    /\ NoGrant \notin Grants
    /\ Keys # {} /\ Hashes # {}
    /\ IsFiniteSet(Ids) /\ IsFiniteSet(Grants) /\ IsFiniteSet(Issuers)
    /\ {RecentAuth, Lifetime, RateWindow, MaxPerWindow, MaxClock} \subseteq Nat
    /\ MaxPerWindow > 0

VARIABLES
    now, login,   \* the clock and the user's last_login_at
    exec,         \* command_executions, by command id
    outbox,       \* command_outboxes: the state of each command's row
    grant,        \* command_confirmations
    req, iss,     \* Create and IssueConfirmation transactions in progress
    cleaner,      \* CommandExecutionCleaner, one per replica
    baseline,     \* command_metrics_baselines.operations_total
    panel         \* requests for the metrics panel

vars == <<now, login, exec, outbox, grant, req, iss, cleaner, baseline, panel>>

Verdicts  == {"SUCCEEDED", "FAILED", "UNKNOWN", "CANCELLED"}
InFlight  == {"QUEUED", "DISPATCHED"}
Statuses  == InFlight \cup Verdicts \cup {"ABSENT", "DELETED"}
OutboxStates == {"NONE", "PENDING", "PROCESSED", "CANCELLED"}
MaybeGrant == Grants \cup {NoGrant}

Executions == [status : Statuses, key : Keys, hash : Hashes, grant : MaybeGrant,
               at : 0..MaxClock, acknowledged : BOOLEAN, resolved : BOOLEAN]
GrantRows  == [state : {"absent", "issued", "consumed"}, hash : Hashes,
               at : 0..MaxClock, expires : Int, login : 0..MaxClock]
Calls      == [pc : {"idle", "lookup", "gates", "confirm", "consume", "insert", "commit"},
               key : Keys, hash : Hashes, grant : MaybeGrant, at : 0..MaxClock]
Dialogs    == [pc : {"idle", "insert"}, hash : Hashes, at : 0..MaxClock, login : 0..MaxClock]

TypeOK ==
    /\ now \in 0..MaxClock /\ login \in 0..MaxClock
    /\ exec \in [Ids -> Executions]
    /\ outbox \in [Ids -> OutboxStates]
    /\ grant \in [Grants -> GrantRows]
    /\ req \in [Requests -> Calls]
    /\ iss \in [Issuers -> Dialogs]
    /\ cleaner \in [Cleaners -> [pc : {"idle", "delete"}, ids : SUBSET Ids]]
    /\ baseline \in 0..Cardinality(Ids)
    /\ panel \in [Panels -> [pc : {"idle", "count", "shown"}, base : Nat, floor : Nat, shown : Nat]]

OnRecord == {i \in Ids : exec[i].status \notin {"ABSENT", "DELETED"}}
Ever     == {i \in Ids : exec[i].status # "ABSENT"}

AnyKey  == CHOOSE k \in Keys : TRUE
AnyHash == CHOOSE h \in Hashes : TRUE
NoCall  == [pc |-> "idle", key |-> AnyKey, hash |-> AnyHash, grant |-> NoGrant, at |-> 0]

Init ==
    /\ now = 0 /\ login = 0
    /\ exec = [i \in Ids |-> [status |-> "ABSENT", key |-> AnyKey, hash |-> AnyHash, grant |-> NoGrant,
                              at |-> 0, acknowledged |-> FALSE, resolved |-> FALSE]]
    /\ outbox = [i \in Ids |-> "NONE"]
    /\ grant = [g \in Grants |-> [state |-> "absent", hash |-> AnyHash, at |-> 0, expires |-> 0, login |-> 0]]
    /\ req = [r \in Requests |-> NoCall]
    /\ iss = [d \in Issuers |-> [pc |-> "idle", hash |-> AnyHash, at |-> 0, login |-> 0]]
    /\ cleaner = [c \in Cleaners |-> [pc |-> "idle", ids |-> {}]]
    /\ baseline = 0
    /\ panel = [p \in Panels |-> [pc |-> "idle", base |-> 0, floor |-> 0, shown |-> 0]]

(***************************************************************************)
(* The environment: time and logins.                                        *)
(***************************************************************************)
Tick ==
    /\ now < MaxClock
    /\ now' = now + 1
    /\ UNCHANGED <<login, exec, outbox, grant, req, iss, cleaner, baseline, panel>>

Login ==
    /\ login # now
    /\ login' = now
    /\ UNCHANGED <<now, exec, outbox, grant, req, iss, cleaner, baseline, panel>>

RecentlyAuthenticated == login >= now - RecentAuth

(***************************************************************************)
(* Service.IssueConfirmation: the confirmations of the last minute are      *)
(* counted, then the new one is inserted, in one transaction.               *)
(***************************************************************************)
\* Mutant: only confirmations that have not been used yet count.
IssuedUnusedSince(t) == {g \in Grants : grant[g].state = "issued" /\ grant[g].at >= t}


IssuedSince(t) == {g \in Grants : grant[g].state # "absent" /\ grant[g].at >= t}

Least(a, b) == IF a < b THEN a ELSE b

\* Mutant: the expiry is not capped by the login.
ExpiryUncapped(at, since) == at + Lifetime


Expiry(at, since) == Least(at + Lifetime, since + RecentAuth)

IssueCount(d, h) ==
    /\ iss[d].pc = "idle"
    /\ RecentlyAuthenticated
    /\ Cardinality(IssuedSince(now - RateWindow)) < MaxPerWindow
    /\ iss' = [iss EXCEPT ![d] = [pc |-> "insert", hash |-> h, at |-> now, login |-> login]]
    /\ UNCHANGED <<now, login, exec, outbox, grant, req, cleaner, baseline, panel>>

IssueCommit(d, g) ==
    /\ iss[d].pc = "insert"
    /\ grant[g].state = "absent"
    /\ grant' = [grant EXCEPT ![g] = [state |-> "issued", hash |-> iss[d].hash, at |-> iss[d].at,
                                      expires |-> Expiry(iss[d].at, iss[d].login),
                                      login |-> iss[d].login]]
    /\ iss' = [iss EXCEPT ![d] = [pc |-> "idle", hash |-> AnyHash, at |-> 0, login |-> 0]]
    /\ UNCHANGED <<now, login, exec, outbox, req, cleaner, baseline, panel>>

\* The audit row or the insertion fails: the transaction leaves nothing behind.
IssueFails(d) ==
    /\ iss[d].pc = "insert"
    /\ iss' = [iss EXCEPT ![d] = [pc |-> "idle", hash |-> AnyHash, at |-> 0, login |-> 0]]
    /\ UNCHANGED <<now, login, exec, outbox, grant, req, cleaner, baseline, panel>>

(***************************************************************************)
(* Service.Create.                                                          *)
(***************************************************************************)
Goto(r, pc) == req' = [req EXCEPT ![r].pc = pc]
\* The request is answered, with what its transaction has come to; whether the
\* answer reaches the client or not, it may send the same request again.
Answer(r) == req' = [req EXCEPT ![r] = NoCall]

RestOfCreate == <<now, login, iss, cleaner, baseline, panel>>

\* A click, or the planner's call, new or again.
Send(r, k, h, g) ==
    /\ req[r].pc = "idle"
    /\ g \in Grants => grant[g].state # "absent"
    /\ req' = [req EXCEPT ![r] = [pc |-> "lookup", key |-> k, hash |-> h, grant |-> g, at |-> 0]]
    /\ UNCHANGED <<exec, outbox, grant, RestOfCreate>>

\* The execution of this scope and key that others have committed.
Existing(k) == {i \in OnRecord : exec[i].key = k}

\* An execution on record is the answer, a replay of it if the parameters are
\* the same and a collision otherwise, before any gate.
Lookup(r) ==
    /\ req[r].pc = "lookup"
    /\ IF Existing(req[r].key) = {} THEN Goto(r, "gates") ELSE Answer(r)
    /\ UNCHANGED <<exec, outbox, grant, RestOfCreate>>

NeedsConfirmation(r) == r \notin Acknowledged

\* The gates read the state of node, channel and capabilities, which changes at
\* any time: they pass, or they do not.
Gates(r) ==
    /\ req[r].pc = "gates"
    /\ \/ Answer(r)
       \/ Goto(r, IF NeedsConfirmation(r) THEN "confirm" ELSE "insert")
    /\ UNCHANGED <<exec, outbox, grant, RestOfCreate>>

\* Between its conditional UPDATE and the end of its transaction a request has
\* the row of its confirmation locked, and after its INSERT the unique key.
Confirming(g) == {r \in Requests : req[r].pc \in {"insert", "commit"} /\ req[r].grant = g
                                     /\ NeedsConfirmation(r)}
Inserting(k)  == {r \in Requests : req[r].pc = "commit" /\ req[r].key = k}

\* Mutant: the INSERT waits for every request of the same key past the gates.
WaitsForKey(r) ==
    \/ req[r].pc = "consume" /\ Confirming(req[r].grant) # {}
    \/ req[r].pc = "insert" /\ \E q \in Requests \ {r} :
          req[q].key = req[r].key /\ req[q].pc \in {"consume", "insert", "commit"}

Waits(r) == \/ req[r].pc = "consume" /\ Confirming(req[r].grant) # {}
            \/ req[r].pc = "insert" /\ Inserting(req[r].key) # {}

\* Mutant: the UPDATE does not ask whether the token has been consumed.
ConsumableAgain(r) ==
    LET g == req[r].grant IN
      /\ g \in Grants
      /\ grant[g].state # "absent"
      /\ grant[g].hash = req[r].hash
      /\ grant[g].expires > req[r].at

\* The WHERE clause of the UPDATE of consumeConfirmation.
Consumable(r) ==
    LET g == req[r].grant IN
      /\ g \in Grants
      /\ grant[g].state = "issued"
      /\ grant[g].hash = req[r].hash
      /\ grant[g].expires > req[r].at

\* The clock and the user are read before the UPDATE, which may wait.
Authenticate(r) ==
    /\ req[r].pc = "confirm"
    /\ IF RecentlyAuthenticated THEN req' = [req EXCEPT ![r].pc = "consume", ![r].at = now]
                               ELSE Answer(r)
    /\ UNCHANGED <<exec, outbox, grant, RestOfCreate>>

Consume(r) ==
    /\ req[r].pc = "consume"
    /\ ~Waits(r)
    /\ IF Consumable(r) THEN Goto(r, "insert") ELSE Answer(r)
    /\ UNCHANGED <<exec, outbox, grant, RestOfCreate>>

\* Mutant: no unique index.
UniqueAlways(k) == TRUE

\* idx_command_idempotency: an INSERT waits for the transaction that has
\* written the same key, and fails when it has committed.
UniqueFree(k) == Existing(k) = {}

Insert(r) ==
    /\ req[r].pc = "insert"
    /\ ~Waits(r)
    /\ IF UniqueFree(req[r].key) THEN Goto(r, "commit") ELSE Answer(r)
    /\ UNCHANGED <<exec, outbox, grant, RestOfCreate>>

\* The confirmation a request has consumed, if it needed one.
Spent(r) == IF NeedsConfirmation(r) THEN req[r].grant ELSE NoGrant

Commit(r, i) ==
    /\ req[r].pc = "commit"
    /\ exec[i].status = "ABSENT"
    /\ exec' = [exec EXCEPT ![i] = [@ EXCEPT !.status = "QUEUED", !.key = req[r].key,
                                             !.hash = req[r].hash, !.grant = Spent(r), !.at = req[r].at,
                                             !.acknowledged = r \in Acknowledged]]
    /\ outbox' = [outbox EXCEPT ![i] = "PENDING"]
    /\ grant' = [g \in Grants |-> IF g = Spent(r) THEN [grant[g] EXCEPT !.state = "consumed"]
                                                  ELSE grant[g]]
    /\ Answer(r)
    /\ UNCHANGED RestOfCreate

\* The outbox row, the audit row or the commit itself fails, or the replica
\* stops: everything the transaction wrote is rolled back.
RollBack(r) ==
    /\ req[r].pc \in {"insert", "commit"}
    /\ Answer(r)
    /\ UNCHANGED <<exec, outbox, grant, RestOfCreate>>

(***************************************************************************)
(* What becomes of an execution: the engine's verdict (CommandExec), the    *)
(* user's Cancel, the operator's ResolveUnknown.                             *)
(***************************************************************************)
RestOfExec == <<now, login, grant, req, iss, cleaner, baseline, panel>>

Conclude(i, v) ==
    /\ \/ exec[i].status = "QUEUED" /\ v \in {"DISPATCHED", "FAILED", "CANCELLED"}
       \/ exec[i].status = "DISPATCHED" /\ v \in {"SUCCEEDED", "FAILED", "UNKNOWN"}
    /\ exec' = [exec EXCEPT ![i].status = v]
    /\ outbox' = [outbox EXCEPT ![i] = CASE v = "DISPATCHED" -> "PROCESSED"
                                         [] @ = "PENDING"    -> "CANCELLED"
                                         [] OTHER            -> @]
    /\ UNCHANGED RestOfExec

ResolveUnknown(i) ==
    /\ exec[i].status = "UNKNOWN"
    /\ ~exec[i].resolved
    /\ exec' = [exec EXCEPT ![i].resolved = TRUE]
    /\ UNCHANGED <<outbox, RestOfExec>>

(***************************************************************************)
(* The daily retention.  A batch selects ids, deletes them by id and adds   *)
(* the number of rows it deleted to the baseline, in one transaction.       *)
(* Which rows are past the cutoff is left open: a row of any status may be. *)
(***************************************************************************)
\* Mutant: every verdict may go.
AnyVerdict == Verdicts

PrunableStatuses == {"SUCCEEDED", "FAILED", "CANCELLED"}

Prunable == {i \in OnRecord : \/ exec[i].status \in PrunableStatuses
                              \/ exec[i].status = "UNKNOWN" /\ exec[i].resolved}

CleanSelect(c) ==
    /\ cleaner[c].pc = "idle"
    /\ \E s \in Verdicts : \E ids \in SUBSET {i \in Prunable : exec[i].status = s} :
           /\ ids # {}
           /\ cleaner' = [cleaner EXCEPT ![c] = [pc |-> "delete", ids |-> ids]]
    /\ UNCHANGED <<now, login, exec, outbox, grant, req, iss, baseline, panel>>

\* Mutant: the ids selected are counted instead of the rows deleted.
Selected(c) == cleaner[c].ids

\* RowsAffected of the DELETE: rows another replica has deleted do not count.
Deleted(c) == cleaner[c].ids \cap OnRecord

CleanDelete(c) ==
    /\ cleaner[c].pc = "delete"
    /\ exec' = [i \in Ids |-> IF i \in cleaner[c].ids THEN [exec[i] EXCEPT !.status = "DELETED"]
                                                      ELSE exec[i]]
    /\ baseline' = baseline + Cardinality(Deleted(c))
    /\ cleaner' = [cleaner EXCEPT ![c] = [pc |-> "idle", ids |-> {}]]
    /\ UNCHANGED <<now, login, outbox, grant, req, iss, panel>>

\* Outbox rows go after 30 days, when they and their execution are finished.
outboxTerminalStates == {"PROCESSED", "CANCELLED"}
\* Mutant: the state of the execution does not matter.
OutboxAny == {i \in Ids : outbox[i] # "NONE"}

OutboxPrunable == {i \in Ids : outbox[i] \in outboxTerminalStates /\ exec[i].status \notin InFlight}

CleanOutboxes ==
    /\ Cleaners # {}
    /\ \E ids \in SUBSET OutboxPrunable :
         /\ ids # {}
         /\ outbox' = [i \in Ids |-> IF i \in ids THEN "NONE" ELSE outbox[i]]
    /\ UNCHANGED <<exec, RestOfExec>>

(***************************************************************************)
(* The panel reads the baseline and then counts the rows on record.         *)
(***************************************************************************)
RestOfPanel == <<now, login, exec, outbox, grant, req, iss, cleaner, baseline>>

\* Mutant: the rows are counted first.
ReadingRowsFirst(pc) == IF pc = "count" THEN baseline ELSE Cardinality(OnRecord)

Reading(pc) == IF pc = "idle" THEN baseline ELSE Cardinality(OnRecord)

PanelBaseline(p) ==
    /\ panel[p].pc = "idle"
    /\ panel' = [panel EXCEPT ![p] = [pc |-> "count", base |-> Reading("idle"),
                                      floor |-> Cardinality(Ever), shown |-> 0]]
    /\ UNCHANGED RestOfPanel

PanelCount(p) ==
    /\ panel[p].pc = "count"
    /\ panel' = [panel EXCEPT ![p].pc = "shown", ![p].shown = panel[p].base + Reading("count")]
    /\ UNCHANGED RestOfPanel

----------------------------------------------------------------------------
Create(r) ==
    \/ Lookup(r) \/ Gates(r) \/ Authenticate(r) \/ Consume(r) \/ Insert(r)
    \/ \E i \in Ids : Commit(r, i)

Next ==
    \/ Tick \/ Login \/ CleanOutboxes
    \/ \E d \in Issuers : \/ \E h \in Hashes : IssueCount(d, h)
                          \/ \E g \in Grants : IssueCommit(d, g)
                          \/ IssueFails(d)
    \/ \E r \in Requests : \/ \E k \in Keys, h \in Hashes, g \in MaybeGrant : Send(r, k, h, g)
                           \/ Create(r) \/ RollBack(r)
    \/ \E i \in Ids : \/ \E v \in Statuses : Conclude(i, v)
                      \/ ResolveUnknown(i)
    \/ \E c \in Cleaners : CleanSelect(c) \/ CleanDelete(c)
    \/ \E p \in Panels : PanelBaseline(p) \/ PanelCount(p)

Spec == Init /\ [][Next]_vars


----------------------------------------------------------------------------
(***************************************************************************)
(* Properties.                                                              *)
(***************************************************************************)

\* However often a button is pressed and a request sent again, one idempotency
\* key has one execution: concurrent requests both miss the lookup of
\* service.go:508, and the unique index stops all but one.
OneExecution == \A i, j \in OnRecord : exec[i].key = exec[j].key => i = j

\* A confirmation is consumed together with the one execution it confirms, or
\* not at all, and confirms the parameters it was issued for; no execution of a
\* risky action goes without one unless its rule carries the acknowledgement.
GrantBacksOne ==
    /\ \A g \in Grants :
         LET backed == {i \in Ever : exec[i].grant = g} IN
           /\ grant[g].state = "consumed" <=> backed # {}
           /\ Cardinality(backed) <= 1
           /\ \A i \in backed : exec[i].hash = grant[g].hash
    /\ \A i \in Ever : exec[i].grant = NoGrant => exec[i].acknowledged

\* A confirmation is not used after the login it was issued under has stopped
\* being recent, even if the user has logged in again since.
ConfirmedInTime ==
    \A i \in Ever : exec[i].grant # NoGrant =>
        exec[i].at <= grant[exec[i].grant].login + RecentAuth

\* The rate limit counts and inserts in a READ COMMITTED transaction, so
\* concurrent dialogs may pass it together: by one for each of them, no more.
RateBounded ==
    \A t \in 0..now :
        Cardinality({g \in Grants : grant[g].state # "absent" /\ grant[g].at \in t..(t + RateWindow)})
          < MaxPerWindow + Cardinality(Issuers)

\* The retention takes nothing off the record that still needs someone: a
\* command on its way, or an UNKNOWN one no operator has concluded.
OnlySettledLeave ==
    [][\A i \in OnRecord : exec'[i].status = "DELETED" =>
          exec[i].status \in Verdicts /\ (exec[i].status = "UNKNOWN" => exec[i].resolved)]_vars

\* A queued command keeps the outbox row that will send it.
StillDeliverable == \A i \in Ids : exec[i].status = "QUEUED" => outbox[i] = "PENDING"

\* Rows on record and rows in the baseline add up to the executions there ever
\* were, with any number of replicas cleaning at the same time.
TotalsKept == baseline + Cardinality(OnRecord) = Cardinality(Ever)

\* Requests that wait for the row of a confirmation or for the unique key do not
\* wait for each other: they take the two in this order.
NoDeadlock ==
    LET running == {r \in Requests : req[r].pc # "idle"}
    IN running # {} => \E r \in running : ~Waits(r)

\* The panel counts no execution twice, once on record and once in the baseline,
\* while the retention moves it from one to the other.
PanelCountsOnce == \A p \in Panels : panel[p].shown <= Cardinality(Ever)

\* The rows keep what AdmissionPromise says of keys and confirmations.
Command(i) == [key |-> exec[i].key, hash |-> exec[i].hash, grant |-> exec[i].grant]
Promise == INSTANCE AdmissionPromise WITH
             accepted <- {Command(i) : i \in OnRecord},
             spent    <- {g \in Grants : grant[g].state = "consumed"}
ImplementsPromise == Promise!Spec

\* handler_metrics.go:128-133 says that the panel's totals keep their
\* cumulative meaning under cleaning: a reader is shown at least the
\* executions there were when it began.
PanelNeverShrinks == \A p \in Panels : panel[p].pc = "shown" => panel[p].shown >= panel[p].floor
============================================================================
