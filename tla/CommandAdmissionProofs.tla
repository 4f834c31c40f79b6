----------------------- MODULE CommandAdmissionProofs -----------------------
(***************************************************************************)
(* Proofs about admission and retention, for any number of requests,        *)
(* dialogs, keys, tokens, executions, cleaners and readers.  IInv adds to   *)
(* the properties what a request between two of its statements relies on:   *)
(* the key it has written (KeysOK), the confirmation whose row it has       *)
(* locked (BackingOK), the login it was issued under (TimeOK); the window   *)
(* of the rate limit with the dialogs that have counted and not inserted    *)
(* yet (RateOK); the baseline a reader has seen (CountOK); and what a       *)
(* cleaner has selected (RetentionOK).                                      *)
(***************************************************************************)
EXTENDS CommandAdmission, FiniteSetTheorems, TLAPS

\* A request that has written the unique key is alone with it.
KeysOK ==
    /\ OneExecution
    /\ \A r \in Requests, i \in OnRecord : req[r].pc = "commit" => exec[i].key # req[r].key
    /\ \A r, q \in Requests :
         req[r].pc = "commit" /\ req[q].pc = "commit" /\ req[r].key = req[q].key => r = q

\* A request has consumed a confirmation that is not committed as consumed yet.
Has(r, g) == req[r].pc \in {"insert", "commit"} /\ NeedsConfirmation(r) /\ req[r].grant = g

BackingOK ==
    /\ \A r \in Requests, g \in MaybeGrant : Has(r, g) =>
         g \in Grants /\ grant[g].state = "issued" /\ grant[g].hash = req[r].hash
    /\ \A r, q \in Requests, g \in Grants : Has(r, g) /\ Has(q, g) => r = q
    /\ \A i \in Ever : exec[i].grant \in Grants =>
         grant[exec[i].grant].state = "consumed" /\ grant[exec[i].grant].hash = exec[i].hash
    /\ \A i, j \in Ever : exec[i].grant \in Grants /\ exec[j].grant = exec[i].grant => i = j
    /\ \A g \in Grants : grant[g].state = "consumed" => \E i \in Ever : exec[i].grant = g
    /\ \A i \in Ever : exec[i].grant = NoGrant => exec[i].acknowledged

\* No confirmation outlives the login it was issued under.
TimeOK ==
    /\ \A g \in Grants : grant[g].state # "absent" => grant[g].expires <= grant[g].login + RecentAuth
    /\ \A r \in Requests, g \in Grants : Has(r, g) => req[r].at <= grant[g].login + RecentAuth
    /\ ConfirmedInTime

\* The confirmations and the dialogs past the count in the window that begins at t.
GrantsIn(t)  == {g \in Grants : grant[g].state # "absent" /\ grant[g].at \in t..(t + RateWindow)}
DialogsIn(t) == {d \in Issuers : iss[d].pc = "insert" /\ iss[d].at \in t..(t + RateWindow)}

RateOK ==
    /\ \A g \in Grants : grant[g].state # "absent" => grant[g].at <= now
    /\ \A d \in Issuers : iss[d].at <= now
    /\ \A t \in Nat :
         Cardinality(GrantsIn(t)) + Cardinality(DialogsIn(t)) < MaxPerWindow + Cardinality(Issuers)

\* What a reader of the panel has seen of the baseline is in the baseline.
CountOK ==
    /\ baseline \in Nat
    /\ TotalsKept
    /\ panel \in [Panels -> [pc : {"idle", "count", "shown"}, base : Nat, floor : Nat, shown : Nat]]
    /\ \A p \in Panels : panel[p].base <= baseline
    /\ PanelCountsOnce

\* What a cleaner has selected stays settled until it is deleted.
Settled(i) == \/ exec[i].status \in PrunableStatuses \cup {"DELETED"}
              \/ exec[i].status = "UNKNOWN" /\ exec[i].resolved

RetentionOK ==
    /\ \A c \in Cleaners : \A i \in cleaner[c].ids : Settled(i)
    /\ StillDeliverable

\* Types of everything but the counters.
Typed ==
    /\ now \in 0..MaxClock /\ login \in 0..MaxClock
    /\ exec \in [Ids -> Executions]
    /\ outbox \in [Ids -> OutboxStates]
    /\ grant \in [Grants -> GrantRows]
    /\ req \in [Requests -> Calls]
    /\ iss \in [Issuers -> Dialogs]
    /\ cleaner \in [Cleaners -> [pc : {"idle", "delete"}, ids : SUBSET Ids]]

IInv == Typed /\ KeysOK /\ BackingOK /\ TimeOK /\ RateOK /\ CountOK /\ RetentionOK

-----------------------------------------------------------------------------
(* Kinds of steps.                                                          *)

\* What an execution says of its admission.
Identity(i) == <<exec[i].key, exec[i].hash, exec[i].grant, exec[i].at, exec[i].acknowledged>>

\* No execution comes on record, and none changes what it was admitted with.
Same ==
    /\ Ever' = Ever /\ OnRecord' \subseteq OnRecord
    /\ \A i \in Ids : /\ exec'[i].key = exec[i].key /\ exec'[i].hash = exec[i].hash
                      /\ exec'[i].grant = exec[i].grant /\ exec'[i].at = exec[i].at
                      /\ exec'[i].acknowledged = exec[i].acknowledged

\* A request starts, goes on to a statement that writes nothing, or ends.
Harmless(r) ==
    \E x \in Calls : /\ x.pc \notin {"insert", "commit"}
                     /\ req' = [req EXCEPT ![r] = x]

Consumes(r) ==
    /\ req[r].pc = "consume" /\ ~Waits(r) /\ Consumable(r)
    /\ req' = [req EXCEPT ![r].pc = "insert"]

WritesKey(r) ==
    /\ req[r].pc = "insert" /\ ~Waits(r) /\ UniqueFree(req[r].key)
    /\ req' = [req EXCEPT ![r].pc = "commit"]

SkipsConfirmation(r) ==
    /\ req[r].pc = "gates" /\ ~NeedsConfirmation(r)
    /\ req' = [req EXCEPT ![r].pc = "insert"]

\* The keys and hashes of an idle request are keys and hashes.
LEMMA AnyTyped == AnyKey \in Keys /\ AnyHash \in Hashes
BY AdmissionAssumption DEF AnyKey, AnyHash

\* An execution that is not new keeps what it was admitted with.
LEMMA SameExec ==
    ASSUME Typed, UNCHANGED exec
    PROVE  Same
BY DEF Same, Ever, OnRecord

\* A verdict or an operator's conclusion changes the status of one execution on record.
LEMMA SameConclude ==
    ASSUME Typed, NEW i \in Ids,
           (\E v \in Statuses : Conclude(i, v)) \/ ResolveUnknown(i)
    PROVE  Same
<1>1. exec[i].status \notin {"ABSENT", "DELETED"} /\ exec'[i].status \notin {"ABSENT", "DELETED"}
  BY DEF Conclude, ResolveUnknown, Typed, Executions
<1>2. \A j \in Ids \ {i} : exec'[j] = exec[j]
  BY DEF Conclude, ResolveUnknown, Typed
<1>3. /\ exec'[i].key = exec[i].key /\ exec'[i].hash = exec[i].hash
      /\ exec'[i].grant = exec[i].grant /\ exec'[i].at = exec[i].at
      /\ exec'[i].acknowledged = exec[i].acknowledged
  BY DEF Conclude, ResolveUnknown, Typed, Executions
<1> QED  BY <1>1, <1>2, <1>3 DEF Same, Ever, OnRecord

\* A cleaner takes executions off the record, which it selected on it.
LEMMA SameDelete ==
    ASSUME Typed, RetentionOK, NEW c \in Cleaners, CleanDelete(c)
    PROVE  Same
<1>1. \A i \in Ids : exec'[i] = IF i \in cleaner[c].ids THEN [exec[i] EXCEPT !.status = "DELETED"]
                                                        ELSE exec[i]
  BY DEF CleanDelete
<1>2. \A i \in cleaner[c].ids : exec[i].status # "ABSENT"
  BY DEF RetentionOK, Settled, PrunableStatuses
<1>3. \A i \in Ids : /\ exec'[i].key = exec[i].key /\ exec'[i].hash = exec[i].hash
                     /\ exec'[i].grant = exec[i].grant /\ exec'[i].at = exec[i].at
                     /\ exec'[i].acknowledged = exec[i].acknowledged
  BY <1>1, ZenonT(60) DEF Typed, Executions
<1>4. \A i \in Ids : exec'[i].status = IF i \in cleaner[c].ids THEN "DELETED" ELSE exec[i].status
  BY <1>1 DEF Typed, Executions
<1> QED  BY <1>2, <1>3, <1>4 DEF Same, Ever, OnRecord

\* A step of a request, but for its commit.
Requesting ==
    \E r \in Requests : Harmless(r) \/ Consumes(r) \/ WritesKey(r) \/ SkipsConfirmation(r)

\* Every step is of one of four kinds, as far as executions, confirmations and
\* requests go.
LEMMA Kinds ==
    ASSUME Typed, RetentionOK, [Next]_vars
    PROVE  \/ Same /\ UNCHANGED <<req, grant>>
           \/ Same /\ UNCHANGED req /\ \E d \in Issuers, g \in Grants : IssueCommit(d, g)
           \/ Same /\ UNCHANGED grant /\ Requesting
           \/ \E r \in Requests, i \in Ids : Commit(r, i)
<1>1. CASE Tick \/ Login \/ CleanOutboxes \/ UNCHANGED vars
  BY <1>1, SameExec DEF Tick, Login, CleanOutboxes, vars, RestOfExec
<1>2. ASSUME NEW d \in Issuers, \/ \E h \in Hashes : IssueCount(d, h)
                                \/ IssueFails(d)
                                \/ \E g \in Grants : IssueCommit(d, g)
      PROVE  Same /\ UNCHANGED req /\ (UNCHANGED grant \/ \E g \in Grants : IssueCommit(d, g))
  BY <1>2, SameExec DEF IssueCount, IssueFails, IssueCommit
<1>3. ASSUME NEW r \in Requests, \/ \E k \in Keys, h \in Hashes, g \in MaybeGrant : Send(r, k, h, g)
                                 \/ Lookup(r) \/ Gates(r) \/ Authenticate(r) \/ Consume(r) \/ Insert(r) \/ RollBack(r)
      PROVE  Same /\ UNCHANGED grant /\ Requesting
  <2>1. Same /\ UNCHANGED grant
    BY <1>3, SameExec DEF Send, Lookup, Gates, Authenticate, Consume, Insert, RollBack
  <2>2. NoCall \in Calls /\ NoCall.pc = "idle"
    BY AnyTyped, AdmissionAssumption DEF NoCall, Calls, MaybeGrant
  <2>3. CASE Answer(r)
    BY <2>1, <2>2, <2>3 DEF Answer, Requesting, Harmless
  <2>4. CASE \E k \in Keys, h \in Hashes, g \in MaybeGrant : Send(r, k, h, g)
    <3>1. PICK k \in Keys, h \in Hashes, g \in MaybeGrant : Send(r, k, h, g)
      BY <2>4
    <3>2. [pc |-> "lookup", key |-> k, hash |-> h, grant |-> g, at |-> 0] \in Calls
      BY AdmissionAssumption DEF Calls
    <3> QED  BY <2>1, <3>1, <3>2 DEF Send, Requesting, Harmless
  <2>5. CASE Lookup(r) /\ ~Answer(r)
    <3>1. [req[r] EXCEPT !.pc = "gates"] \in Calls /\ [req[r] EXCEPT !.pc = "gates"].pc = "gates"
      BY DEF Typed, Calls
    <3>2. req' = [req EXCEPT ![r] = [req[r] EXCEPT !.pc = "gates"]]
      BY <2>5 DEF Lookup, Goto
    <3> QED  BY <2>1, <3>1, <3>2 DEF Requesting, Harmless
  <2>6. CASE Gates(r) /\ ~Answer(r)
    <3>1. CASE NeedsConfirmation(r)
      <4>1. [req[r] EXCEPT !.pc = "confirm"] \in Calls /\ [req[r] EXCEPT !.pc = "confirm"].pc = "confirm"
        BY DEF Typed, Calls
      <4>2. req' = [req EXCEPT ![r] = [req[r] EXCEPT !.pc = "confirm"]]
        BY <2>6, <3>1 DEF Gates, Goto
      <4> QED  BY <2>1, <4>1, <4>2 DEF Requesting, Harmless
    <3>2. CASE ~NeedsConfirmation(r)
      <4>1. req[r].pc = "gates" /\ req' = [req EXCEPT ![r].pc = "insert"]
        BY <2>6, <3>2 DEF Gates, Goto
      <4> QED  BY <2>1, <3>2, <4>1 DEF Requesting, SkipsConfirmation
    <3> QED  BY <2>1, <3>1, <3>2
  <2>7. CASE Authenticate(r) /\ ~Answer(r)
    <3>1. [req[r] EXCEPT !.pc = "consume", !.at = now] \in Calls
          /\ [req[r] EXCEPT !.pc = "consume", !.at = now].pc = "consume"
      BY DEF Typed, Calls
    <3>2. req' = [req EXCEPT ![r] = [req[r] EXCEPT !.pc = "consume", !.at = now]]
      BY <2>7 DEF Authenticate
    <3> QED  BY <2>1, <3>1, <3>2 DEF Requesting, Harmless
  <2>8. CASE Consume(r) /\ ~Answer(r)
    BY <2>1, <2>8 DEF Consume, Goto, Requesting, Consumes
  <2>9. CASE Insert(r) /\ ~Answer(r)
    BY <2>1, <2>9 DEF Insert, Goto, Requesting, WritesKey
  <2>10. CASE RollBack(r)
    BY <2>3, <2>10 DEF RollBack
  <2> QED  BY <1>3, <2>3, <2>4, <2>5, <2>6, <2>7, <2>8, <2>9, <2>10
<1>4. ASSUME NEW i \in Ids, (\E v \in Statuses : Conclude(i, v)) \/ ResolveUnknown(i)
      PROVE  Same /\ UNCHANGED <<req, grant>>
  BY <1>4, SameConclude DEF Conclude, ResolveUnknown, RestOfExec
<1>5. ASSUME NEW c \in Cleaners, CleanSelect(c) \/ CleanDelete(c)
      PROVE  Same /\ UNCHANGED <<req, grant>>
  BY <1>5, SameExec, SameDelete DEF CleanSelect, CleanDelete
<1>6. ASSUME NEW p \in Panels, PanelBaseline(p) \/ PanelCount(p)
      PROVE  Same /\ UNCHANGED <<req, grant>>
  BY <1>6, SameExec DEF PanelBaseline, PanelCount, RestOfPanel
<1> QED  BY <1>1, <1>2, <1>3, <1>4, <1>5, <1>6 DEF Next, Create

\* A commit puts one new execution on record, with what its request carried.
LEMMA CommitExec ==
    ASSUME Typed, NEW r \in Requests, NEW i \in Ids, Commit(r, i)
    PROVE  /\ i \notin Ever /\ Ever' = Ever \cup {i} /\ OnRecord' = OnRecord \cup {i}
           /\ \A j \in Ids \ {i} : exec'[j] = exec[j]
           /\ exec'[i].key = req[r].key /\ exec'[i].hash = req[r].hash
           /\ exec'[i].grant = Spent(r) /\ exec'[i].at = req[r].at
           /\ exec'[i].acknowledged = (r \in Acknowledged) /\ exec'[i].status = "QUEUED"
           /\ req[r].pc = "commit" /\ req' = [req EXCEPT ![r] = NoCall] /\ NoCall.pc = "idle"
           /\ \A g \in Grants : grant'[g] = IF g = Spent(r) THEN [grant[g] EXCEPT !.state = "consumed"]
                                                            ELSE grant[g]
<1>1. exec' = [exec EXCEPT ![i] = [exec[i] EXCEPT !.status = "QUEUED", !.key = req[r].key,
                                                  !.hash = req[r].hash, !.grant = Spent(r),
                                                  !.at = req[r].at, !.acknowledged = r \in Acknowledged]]
  BY DEF Commit
<1>2. /\ exec'[i].key = req[r].key /\ exec'[i].hash = req[r].hash
      /\ exec'[i].grant = Spent(r) /\ exec'[i].at = req[r].at
      /\ exec'[i].acknowledged = (r \in Acknowledged) /\ exec'[i].status = "QUEUED"
  BY <1>1 DEF Typed, Executions
<1>3. \A j \in Ids \ {i} : exec'[j] = exec[j]
  BY <1>1 DEF Typed
<1>4. exec[i].status = "ABSENT"
  BY DEF Commit
<1>5. i \notin Ever /\ Ever' = Ever \cup {i} /\ OnRecord' = OnRecord \cup {i}
  BY <1>2, <1>3, <1>4 DEF Ever, OnRecord
<1>6. /\ req[r].pc = "commit" /\ req' = [req EXCEPT ![r] = NoCall] /\ NoCall.pc = "idle"
      /\ \A g \in Grants : grant'[g] = IF g = Spent(r) THEN [grant[g] EXCEPT !.state = "consumed"]
                                                       ELSE grant[g]
  BY DEF Commit, Answer, NoCall
<1> QED  BY <1>2, <1>3, <1>5, <1>6

-----------------------------------------------------------------------------
(* The conjuncts.                                                           *)

\* The unique key: a request that writes it waits for the one that has.
LEMMA KeysStep == ASSUME Typed, KeysOK, RetentionOK, [Next]_vars PROVE KeysOK'
<1>1. ASSUME Same, \A q \in Requests : req'[q].pc = "commit" => req'[q] = req[q] PROVE KeysOK'
  BY <1>1 DEF KeysOK, OneExecution, Same, OnRecord
<1>2. ASSUME Same, NEW r \in Requests, WritesKey(r) PROVE KeysOK'
  <2>1. \A q \in Requests \ {r} : req'[q] = req[q]
    BY <1>2 DEF WritesKey, Typed
  <2>2. req'[r].pc = "commit" /\ req'[r].key = req[r].key
    BY <1>2 DEF WritesKey, Typed, Calls
  <2>3. /\ \A i \in OnRecord : exec[i].key # req[r].key
        /\ \A q \in Requests : req[q].pc = "commit" => req[q].key # req[r].key
    BY <1>2 DEF WritesKey, UniqueFree, Existing, Waits, Inserting
  <2>4. OneExecution'
    BY <1>2 DEF KeysOK, OneExecution, Same, OnRecord
  <2>5. \A q \in Requests, i \in OnRecord : req'[q].pc = "commit" => exec[i].key # req'[q].key
    BY <2>1, <2>2, <2>3 DEF KeysOK
  <2>6. \A q \in Requests, i \in OnRecord' : req'[q].pc = "commit" => exec'[i].key # req'[q].key
    BY <1>2, <2>5 DEF Same, OnRecord
  <2>7. \A p, q \in Requests :
          req'[p].pc = "commit" /\ req'[q].pc = "commit" /\ req'[p].key = req'[q].key => p = q
    BY <2>1, <2>2, <2>3 DEF KeysOK
  <2> QED  BY <2>4, <2>6, <2>7 DEF KeysOK
<1>3. ASSUME NEW r \in Requests, NEW i \in Ids, Commit(r, i) PROVE KeysOK'
  <2>1. \A q \in Requests : req'[q].pc = "commit" => q # r /\ req'[q] = req[q]
    BY <1>3, CommitExec DEF Typed
  <2>2. \A j \in OnRecord : j # i /\ exec'[j] = exec[j] /\ exec[j].key # req[r].key
    BY <1>3, CommitExec DEF KeysOK, OnRecord, Ever
  <2>3. /\ OnRecord' = OnRecord \cup {i} /\ exec'[i].key = req[r].key
        /\ req[r].pc = "commit"
    BY <1>3, CommitExec
  <2>4. OneExecution'
    BY <2>2, <2>3 DEF KeysOK, OneExecution
  <2>5. \A q \in Requests : req'[q].pc = "commit" => req[q].key # req[r].key
    BY <2>1, <2>3 DEF KeysOK
  <2>6. \A q \in Requests, j \in OnRecord' : req'[q].pc = "commit" => exec'[j].key # req'[q].key
    BY <2>1, <2>2, <2>3, <2>5 DEF KeysOK
  <2>7. \A p, q \in Requests :
          req'[p].pc = "commit" /\ req'[q].pc = "commit" /\ req'[p].key = req'[q].key => p = q
    BY <2>1 DEF KeysOK
  <2> QED  BY <2>4, <2>6, <2>7 DEF KeysOK
<1>4. ASSUME NEW r \in Requests, Harmless(r) \/ Consumes(r) \/ SkipsConfirmation(r)
      PROVE  \A q \in Requests : req'[q].pc = "commit" => req'[q] = req[q]
  BY <1>4 DEF Harmless, Consumes, SkipsConfirmation, Typed, Calls
<1>5. CASE Same /\ UNCHANGED req
  BY <1>1, <1>5
<1> QED  BY Kinds, <1>1, <1>2, <1>3, <1>4, <1>5 DEF Requesting

\* A confirmation: a request that has its row locked is alone with it until it
\* commits, and then the execution has it.
LEMMA BackingStep == ASSUME Typed, BackingOK, RetentionOK, [Next]_vars PROVE BackingOK'
<1> DEFINE Untaken(r) == \A g \in MaybeGrant : Has(r, g)' => Has(r, g) /\ req'[r].hash = req[r].hash
<1>a. \A r \in Requests : req[r].grant \in MaybeGrant
  BY DEF Typed, Calls
<1>1. ASSUME Same, \A r \in Requests : Untaken(r),
             \A g \in Grants : grant[g].state # "absent" => grant'[g] = grant[g],
             \A g \in Grants : grant[g].state = "absent" => grant'[g].state # "consumed"
      PROVE  BackingOK'
  <2>1. \A r \in Requests, g \in MaybeGrant : Has(r, g)' =>
          g \in Grants /\ grant'[g].state = "issued" /\ grant'[g].hash = req'[r].hash
    BY <1>1 DEF BackingOK
  <2>2. \A r, q \in Requests, g \in Grants : Has(r, g)' /\ Has(q, g)' => r = q
    BY <1>1 DEF BackingOK, MaybeGrant
  <2>3. \A i \in Ever' : exec'[i].grant \in Grants =>
          grant'[exec'[i].grant].state = "consumed" /\ grant'[exec'[i].grant].hash = exec'[i].hash
    BY <1>1 DEF BackingOK, Same, Ever
  <2>4. \A i, j \in Ever' : exec'[i].grant \in Grants /\ exec'[j].grant = exec'[i].grant => i = j
    BY <1>1 DEF BackingOK, Same, Ever
  <2>5. \A g \in Grants : grant'[g].state = "consumed" => \E i \in Ever' : exec'[i].grant = g
    BY <1>1 DEF BackingOK, Same, Ever
  <2>6. \A i \in Ever' : exec'[i].grant = NoGrant => exec'[i].acknowledged
    BY <1>1 DEF BackingOK, Same, Ever
  <2> QED  BY <2>1, <2>2, <2>3, <2>4, <2>5, <2>6 DEF BackingOK
<1>2. ASSUME NEW d \in Issuers, NEW g \in Grants, IssueCommit(d, g), Same, UNCHANGED req PROVE BackingOK'
  <2>1. \A r \in Requests : Untaken(r)
    BY <1>2 DEF Has
  <2>2. \A h \in Grants : h # g => grant'[h] = grant[h]
    BY <1>2 DEF IssueCommit, Typed
  <2>3. grant[g].state = "absent" /\ grant'[g].state = "issued"
    BY <1>2 DEF IssueCommit, Typed
  <2> QED  BY <1>1, <1>2, <2>1, <2>2, <2>3
<1>3. ASSUME NEW r \in Requests, Harmless(r) \/ WritesKey(r) \/ SkipsConfirmation(r), Same, UNCHANGED grant
      PROVE  BackingOK'
  <2>1. \A q \in Requests : Untaken(q)
    BY <1>3 DEF Harmless, WritesKey, SkipsConfirmation, Typed, Calls, Has
  <2> QED  BY <1>1, <1>3, <2>1
<1>4. ASSUME NEW r \in Requests, Consumes(r), Same, UNCHANGED grant PROVE BackingOK'
  <2> DEFINE g0 == req[r].grant
  <2>1. g0 \in Grants /\ grant[g0].state = "issued" /\ grant[g0].hash = req[r].hash
    BY <1>4 DEF Consumes, Consumable
  <2>2. \A q \in Requests : ~Has(q, g0)
    BY <1>4 DEF Consumes, Waits, Confirming, Has
  <2>3. /\ \A q \in Requests \ {r} : req'[q] = req[q]
        /\ req'[r].pc = "insert" /\ req'[r].grant = g0 /\ req'[r].hash = req[r].hash
    BY <1>4 DEF Consumes, Typed, Calls
  <2>4. \A q \in Requests, g \in MaybeGrant : Has(q, g)' =>
          \/ q = r /\ g = g0
          \/ q # r /\ Has(q, g) /\ req'[q] = req[q]
    BY <2>3 DEF Has
  <2> HIDE DEF g0
  <2>5. \A q \in Requests, g \in MaybeGrant : Has(q, g)' =>
          g \in Grants /\ grant'[g].state = "issued" /\ grant'[g].hash = req'[q].hash
    BY <1>4, <2>1, <2>3, <2>4 DEF BackingOK
  <2>6. \A p, q \in Requests, g \in Grants : Has(p, g)' /\ Has(q, g)' => p = q
    BY <2>2, <2>4 DEF BackingOK, MaybeGrant
  <2>7. /\ \A i \in Ever' : exec'[i].grant \in Grants =>
             grant'[exec'[i].grant].state = "consumed" /\ grant'[exec'[i].grant].hash = exec'[i].hash
        /\ \A i, j \in Ever' : exec'[i].grant \in Grants /\ exec'[j].grant = exec'[i].grant => i = j
        /\ \A g \in Grants : grant'[g].state = "consumed" => \E i \in Ever' : exec'[i].grant = g
        /\ \A i \in Ever' : exec'[i].grant = NoGrant => exec'[i].acknowledged
    BY <1>4 DEF BackingOK, Same, Ever
  <2> QED  BY <2>5, <2>6, <2>7 DEF BackingOK
<1>5. ASSUME NEW r \in Requests, NEW i \in Ids, Commit(r, i) PROVE BackingOK'
  <2>1. \A q \in Requests, g \in MaybeGrant : Has(q, g)' => q # r /\ Has(q, g) /\ req'[q] = req[q]
    BY <1>5, CommitExec DEF Has, Typed
  <2>2. Spent(r) \in Grants => Has(r, Spent(r))
    BY <1>5, AdmissionAssumption DEF Commit, Spent, Has
  <2>3. Spent(r) \in Grants => grant[Spent(r)].state = "issued" /\ grant[Spent(r)].hash = req[r].hash
    BY <2>2 DEF BackingOK, MaybeGrant
  <2>4. \A g \in Grants : /\ grant'[g].hash = grant[g].hash
                          /\ grant'[g].state = IF g = Spent(r) THEN "consumed" ELSE grant[g].state
    <3> SUFFICES ASSUME NEW g \in Grants
                 PROVE  /\ grant'[g].hash = grant[g].hash
                        /\ grant'[g].state = IF g = Spent(r) THEN "consumed" ELSE grant[g].state
      OBVIOUS
    <3>1. grant[g] \in GrantRows
      BY DEF Typed
    <3>2. grant'[g] = IF g = Spent(r) THEN [grant[g] EXCEPT !.state = "consumed"] ELSE grant[g]
      BY <1>5, CommitExec
    <3> QED  BY <3>1, <3>2 DEF GrantRows
  <2>5. \A j \in Ever : exec'[j] = exec[j] /\ (exec[j].grant \in Grants => exec[j].grant # Spent(r))
    BY <1>5, <2>3, CommitExec DEF BackingOK, Ever
  <2>6. /\ Ever' = Ever \cup {i} /\ i \notin Ever /\ exec'[i].grant = Spent(r)
        /\ exec'[i].hash = req[r].hash /\ exec'[i].acknowledged = (r \in Acknowledged)
    BY <1>5, CommitExec
  <2>7. \A q \in Requests, g \in MaybeGrant : Has(q, g)' =>
          g \in Grants /\ grant'[g].state = "issued" /\ grant'[g].hash = req'[q].hash
    BY <2>1, <2>2, <2>4 DEF BackingOK
  <2>8. \A p, q \in Requests, g \in Grants : Has(p, g)' /\ Has(q, g)' => p = q
    BY <2>1 DEF BackingOK, MaybeGrant
  <2>9. \A j \in Ever' : exec'[j].grant \in Grants =>
          grant'[exec'[j].grant].state = "consumed" /\ grant'[exec'[j].grant].hash = exec'[j].hash
    BY <2>3, <2>4, <2>5, <2>6 DEF BackingOK
  <2>10. \A j, k \in Ever' : exec'[j].grant \in Grants /\ exec'[k].grant = exec'[j].grant => j = k
    BY <2>5, <2>6 DEF BackingOK
  <2>11. \A g \in Grants : grant'[g].state = "consumed" => \E j \in Ever' : exec'[j].grant = g
    BY <2>4, <2>5, <2>6 DEF BackingOK
  <2>12. Spent(r) = NoGrant => r \in Acknowledged
    <3>1. CASE NeedsConfirmation(r) /\ Spent(r) = NoGrant
      <4>1. Has(r, NoGrant)
        BY <1>5, <3>1 DEF Commit, Spent, Has
      <4> QED  BY <4>1, AdmissionAssumption DEF BackingOK, MaybeGrant
    <3> QED  BY <3>1 DEF NeedsConfirmation
  <2>13. \A j \in Ever' : exec'[j].grant = NoGrant => exec'[j].acknowledged
    BY <2>5, <2>6, <2>12 DEF BackingOK
  <2> QED  BY <2>7, <2>8, <2>9, <2>10, <2>11, <2>13 DEF BackingOK
<1>6. CASE Same /\ UNCHANGED <<req, grant>>
  <2>1. \A r \in Requests : Untaken(r)
    BY <1>6 DEF Has
  <2> QED  BY <1>1, <1>6, <2>1
<1> QED  BY Kinds, <1>2, <1>3, <1>4, <1>5, <1>6 DEF Requesting

\* The login a confirmation was issued under was recent when it was consumed.
LEMMA TimeStep == ASSUME Typed, BackingOK, TimeOK, RetentionOK, [Next]_vars PROVE TimeOK'
<1> USE AdmissionAssumption
<1> DEFINE Untaken(r) == \A g \in Grants : Has(r, g)' => Has(r, g) /\ req'[r].at = req[r].at
<1>a. \A i \in Ever : exec[i].grant \in MaybeGrant
  BY DEF Ever, Typed, Executions
<1>b. \A i \in Ever : exec[i].grant # NoGrant => grant[exec[i].grant].state = "consumed"
  BY <1>a DEF BackingOK, MaybeGrant
<1>1. ASSUME Same, \A r \in Requests : Untaken(r),
             \A g \in Grants : \/ grant'[g] = grant[g]
                               \/ /\ grant[g].state = "absent"
                                  /\ grant'[g].expires <= grant'[g].login + RecentAuth
      PROVE  TimeOK'
  <2>1. \A g \in Grants : grant'[g].state # "absent" => grant'[g].expires <= grant'[g].login + RecentAuth
    BY <1>1 DEF TimeOK
  <2>2. \A r \in Requests, g \in Grants : Has(r, g)' => req'[r].at <= grant'[g].login + RecentAuth
    BY <1>1 DEF TimeOK, BackingOK, MaybeGrant
  <2>3. ASSUME NEW i \in Ever', exec'[i].grant # NoGrant
        PROVE  exec'[i].at <= grant'[exec'[i].grant].login + RecentAuth
    <3>1. i \in Ever /\ exec'[i].grant = exec[i].grant /\ exec'[i].at = exec[i].at
      BY <1>1, <2>3 DEF Same, Ever
    <3>2. grant'[exec[i].grant] = grant[exec[i].grant]
      BY <1>1, <1>a, <1>b, <2>3, <3>1 DEF MaybeGrant
    <3> QED  BY <2>3, <3>1, <3>2 DEF TimeOK, ConfirmedInTime
  <2> QED  BY <2>1, <2>2, <2>3 DEF TimeOK, ConfirmedInTime
<1>2. ASSUME NEW d \in Issuers, NEW g \in Grants, IssueCommit(d, g), Same, UNCHANGED req PROVE TimeOK'
  <2>1. \A r \in Requests : Untaken(r)
    BY <1>2 DEF Has
  <2>2. \A h \in Grants : h # g => grant'[h] = grant[h]
    BY <1>2 DEF IssueCommit, Typed
  <2>3. grant[g].state = "absent"
    BY <1>2 DEF IssueCommit
  <2>4. /\ grant'[g].login = iss[d].login
        /\ grant'[g].expires = Expiry(iss[d].at, iss[d].login)
    BY <1>2 DEF IssueCommit, Typed
  <2>5. iss[d].at \in Int /\ iss[d].login \in Int
    BY DEF Typed, Dialogs
  <2>6. Expiry(iss[d].at, iss[d].login) <= iss[d].login + RecentAuth
    BY <2>5 DEF Expiry, Least
  <2> QED  BY <1>1, <1>2, <2>1, <2>2, <2>3, <2>4, <2>6
<1>3. ASSUME NEW r \in Requests, Harmless(r) \/ WritesKey(r) \/ SkipsConfirmation(r), Same, UNCHANGED grant
      PROVE  TimeOK'
  <2>1. \A q \in Requests : Untaken(q)
    BY <1>3 DEF Harmless, WritesKey, SkipsConfirmation, Typed, Calls, Has
  <2> QED  BY <1>1, <1>3, <2>1
<1>4. ASSUME NEW r \in Requests, Consumes(r), Same, UNCHANGED grant PROVE TimeOK'
  <2>1. /\ \A q \in Requests \ {r} : req'[q] = req[q]
        /\ req'[r].grant = req[r].grant /\ req'[r].at = req[r].at
    BY <1>4 DEF Consumes, Typed, Calls
  <2>2. /\ req[r].grant \in Grants /\ grant[req[r].grant].state = "issued"
        /\ grant[req[r].grant].expires > req[r].at
    BY <1>4 DEF Consumes, Consumable
  <2>3. req[r].at \in Int /\ \A g \in Grants : grant[g].login \in Int /\ grant[g].expires \in Int
    BY DEF Typed, Calls, GrantRows
  <2>4. \A q \in Requests, g \in Grants : Has(q, g)' => req'[q].at <= grant[g].login + RecentAuth
    BY <2>1, <2>2, <2>3 DEF Has, TimeOK
  <2>5. ConfirmedInTime'
    BY <1>4 DEF TimeOK, ConfirmedInTime, Same, Ever
  <2> QED  BY <1>4, <2>4, <2>5 DEF TimeOK
<1>5. ASSUME NEW r \in Requests, NEW i \in Ids, Commit(r, i) PROVE TimeOK'
  <2>1. \A q \in Requests, g \in Grants : Has(q, g)' => Has(q, g) /\ req'[q] = req[q]
    BY <1>5, CommitExec DEF Has, Typed
  <2>2. Spent(r) # NoGrant => Spent(r) \in Grants /\ Has(r, Spent(r))
    BY <1>5 DEF Commit, Spent, Has, Typed, Calls, MaybeGrant
  <2>3. \A g \in Grants : grant'[g].login = grant[g].login /\ grant'[g].expires = grant[g].expires
                          /\ (grant'[g].state # "absent" => grant[g].state # "absent")
    <3> SUFFICES ASSUME NEW g \in Grants
                 PROVE  grant'[g].login = grant[g].login /\ grant'[g].expires = grant[g].expires
                          /\ (grant'[g].state # "absent" => grant[g].state # "absent")
      OBVIOUS
    <3>1. grant[g] \in GrantRows
      BY DEF Typed
    <3>2. grant'[g] = IF g = Spent(r) THEN [grant[g] EXCEPT !.state = "consumed"] ELSE grant[g]
      BY <1>5, CommitExec
    <3>3. g = Spent(r) => grant[g].state = "issued"
      BY <2>2 DEF BackingOK, MaybeGrant
    <3> QED  BY <3>1, <3>2, <3>3 DEF GrantRows
  <2>4. ASSUME NEW j \in Ever', exec'[j].grant # NoGrant
        PROVE  exec'[j].at <= grant'[exec'[j].grant].login + RecentAuth
    <3>1. CASE j = i
      BY <1>5, <2>3, <2>2, <2>4, <3>1, CommitExec DEF TimeOK
    <3>2. CASE j # i
      <4>1. j \in Ever /\ exec'[j] = exec[j]
        BY <1>5, <2>4, <3>2, CommitExec DEF Ever
      <4>2. exec[j].grant \in Grants
        BY <1>a, <2>4, <4>1 DEF MaybeGrant
      <4> QED  BY <2>3, <2>4, <4>1, <4>2 DEF TimeOK, ConfirmedInTime
    <3> QED  BY <3>1, <3>2
  <2>5. \A g \in Grants : grant'[g].state # "absent" => grant'[g].expires <= grant'[g].login + RecentAuth
    BY <2>3 DEF TimeOK
  <2>6. \A q \in Requests, g \in Grants : Has(q, g)' => req'[q].at <= grant'[g].login + RecentAuth
    BY <2>1, <2>3 DEF TimeOK
  <2>7. ConfirmedInTime'
    BY <2>4 DEF ConfirmedInTime
  <2> QED  BY <2>5, <2>6, <2>7 DEF TimeOK
<1>6. CASE Same /\ UNCHANGED <<req, grant>>
  <2>1. \A r \in Requests : Untaken(r)
    BY <1>6 DEF Has
  <2> QED  BY <1>1, <1>6, <2>1
<1> QED  BY Kinds, <1>2, <1>3, <1>4, <1>5, <1>6 DEF Requesting

\* What a cleaner has selected stays settled; a queued execution keeps its outbox row.
LEMMA RetentionStep == ASSUME Typed, RetentionOK, [Next]_vars PROVE RetentionOK'
<1>1. ASSUME UNCHANGED <<exec, outbox, cleaner>> PROVE RetentionOK'
  BY <1>1 DEF RetentionOK, Settled, StillDeliverable
<1>2. CASE Tick \/ Login \/ UNCHANGED vars
  BY <1>1, <1>2 DEF Tick, Login, vars
<1>3. CASE CleanOutboxes
  <2>1. UNCHANGED <<exec, cleaner>>
    BY <1>3 DEF CleanOutboxes, RestOfExec
  <2>2. \A i \in Ids : outbox[i] = "PENDING" => outbox'[i] = "PENDING"
    BY <1>3 DEF CleanOutboxes, OutboxPrunable, outboxTerminalStates
  <2> QED  BY <2>1, <2>2 DEF RetentionOK, Settled, StillDeliverable
<1>4. ASSUME NEW d \in Issuers, \/ \E h \in Hashes : IssueCount(d, h)
                                \/ \E g \in Grants : IssueCommit(d, g)
                                \/ IssueFails(d)
      PROVE  RetentionOK'
  BY <1>1, <1>4 DEF IssueCount, IssueCommit, IssueFails
<1>5. ASSUME NEW r \in Requests, \/ \E k \in Keys, h \in Hashes, g \in MaybeGrant : Send(r, k, h, g)
                                 \/ Lookup(r) \/ Gates(r) \/ Authenticate(r) \/ Consume(r) \/ Insert(r) \/ RollBack(r)
      PROVE  RetentionOK'
  BY <1>1, <1>5 DEF Send, Lookup, Gates, Authenticate, Consume, Insert, RollBack, RestOfCreate
<1>6. ASSUME NEW r \in Requests, NEW i \in Ids, Commit(r, i) PROVE RetentionOK'
  <2>1. cleaner' = cleaner /\ outbox' = [outbox EXCEPT ![i] = "PENDING"]
    BY <1>6 DEF Commit, RestOfCreate
  <2>2. exec[i].status = "ABSENT" /\ \A j \in Ids \ {i} : exec'[j] = exec[j]
    BY <1>6, CommitExec DEF Commit
  <2>3. \A c \in Cleaners : i \notin cleaner[c].ids /\ cleaner[c].ids \subseteq Ids
    BY <2>2 DEF RetentionOK, Settled, PrunableStatuses, Typed
  <2>4. outbox'[i] = "PENDING" /\ \A j \in Ids \ {i} : outbox'[j] = outbox[j]
    BY <2>1 DEF Typed
  <2>5. \A c \in Cleaners : \A j \in cleaner'[c].ids : Settled(j)'
    BY <2>1, <2>2, <2>3 DEF RetentionOK, Settled
  <2>6. StillDeliverable'
    BY <2>2, <2>4 DEF RetentionOK, StillDeliverable
  <2> QED  BY <2>5, <2>6 DEF RetentionOK
<1>7. ASSUME NEW i \in Ids, (\E v \in Statuses : Conclude(i, v)) \/ ResolveUnknown(i) PROVE RetentionOK'
  <2>1. cleaner' = cleaner /\ \A j \in Ids \ {i} : exec'[j] = exec[j] /\ outbox'[j] = outbox[j]
    BY <1>7 DEF Conclude, ResolveUnknown, RestOfExec, Typed
  <2>2. exec'[i].status # "QUEUED"
    BY <1>7 DEF Conclude, ResolveUnknown, Typed, Executions
  <2>3. Settled(i) => FALSE
    BY <1>7 DEF Conclude, ResolveUnknown, Settled, PrunableStatuses, Typed, Executions
  <2>4. \A c \in Cleaners : i \notin cleaner[c].ids /\ cleaner[c].ids \subseteq Ids
    BY <2>3 DEF RetentionOK, Typed
  <2>5. \A c \in Cleaners : \A j \in cleaner'[c].ids : Settled(j)'
    BY <2>1, <2>4 DEF RetentionOK, Settled
  <2>6. StillDeliverable'
    BY <2>1, <2>2 DEF RetentionOK, StillDeliverable
  <2> QED  BY <2>5, <2>6 DEF RetentionOK
<1>8. ASSUME NEW c \in Cleaners, CleanSelect(c) PROVE RetentionOK'
  <2>1. PICK ids \in SUBSET Prunable : cleaner' = [cleaner EXCEPT ![c] = [pc |-> "delete", ids |-> ids]]
    BY <1>8 DEF CleanSelect
  <2>2. \A e \in Cleaners : cleaner'[e].ids \in {cleaner[e].ids, ids}
    BY <2>1 DEF Typed
  <2>3. \A i \in ids : Settled(i)
    BY DEF Prunable, Settled
  <2>4. UNCHANGED <<exec, outbox>>
    BY <1>8 DEF CleanSelect
  <2> QED  BY <2>2, <2>3, <2>4 DEF RetentionOK, Settled, StillDeliverable
<1>9. ASSUME NEW c \in Cleaners, CleanDelete(c) PROVE RetentionOK'
  <2>1. \A i \in Ids : exec'[i] = exec[i] \/ exec'[i].status = "DELETED"
    BY <1>9 DEF CleanDelete, Typed, Executions
  <2>2. cleaner' = [cleaner EXCEPT ![c] = [pc |-> "idle", ids |-> {}]] /\ outbox' = outbox
    BY <1>9 DEF CleanDelete
  <2>3. \A e \in Cleaners : cleaner'[e].ids \subseteq cleaner[e].ids /\ cleaner[e].ids \subseteq Ids
    BY <2>2 DEF Typed
  <2> QED  BY <2>1, <2>2, <2>3 DEF RetentionOK, Settled, StillDeliverable
<1>10. ASSUME NEW q \in Panels, PanelBaseline(q) \/ PanelCount(q) PROVE RetentionOK'
  BY <1>1, <1>10 DEF PanelBaseline, PanelCount, RestOfPanel
<1> QED  BY <1>2, <1>3, <1>4, <1>5, <1>6, <1>7, <1>8, <1>9, <1>10 DEF Next, Create

\* Executions on record and in the baseline add up, whatever cleaners take off the record.
LEMMA CountStep == ASSUME Typed, CountOK, RetentionOK, [Next]_vars PROVE CountOK'
<1> USE AdmissionAssumption
<1>a. /\ IsFiniteSet(Ever) /\ IsFiniteSet(OnRecord) /\ IsFiniteSet(Ever') /\ IsFiniteSet(OnRecord')
      /\ Cardinality(Ever) \in Nat /\ Cardinality(OnRecord) \in Nat
      /\ Cardinality(Ever') \in Nat /\ Cardinality(OnRecord') \in Nat
  <2>1. Ever \in SUBSET Ids /\ OnRecord \in SUBSET Ids /\ Ever' \in SUBSET Ids /\ OnRecord' \in SUBSET Ids
    BY DEF Ever, OnRecord
  <2>2. IsFiniteSet(Ever) /\ IsFiniteSet(OnRecord) /\ IsFiniteSet(Ever') /\ IsFiniteSet(OnRecord')
    BY <2>1, FS_Subset
  <2> QED  BY <2>2, FS_CardinalityType
<1>1. ASSUME Ever' = Ever, OnRecord' = OnRecord, UNCHANGED <<baseline, panel>> PROVE CountOK'
  BY <1>1 DEF CountOK, TotalsKept, PanelCountsOnce
<1>2. CASE UNCHANGED <<exec, baseline, panel>>
  BY <1>1, <1>2 DEF Ever, OnRecord
<1>3. CASE Tick \/ Login \/ CleanOutboxes \/ UNCHANGED vars
  BY <1>2, <1>3 DEF Tick, Login, CleanOutboxes, RestOfExec, vars
<1>4. ASSUME NEW d \in Issuers, \/ \E h \in Hashes : IssueCount(d, h)
                                \/ \E g \in Grants : IssueCommit(d, g)
                                \/ IssueFails(d)
      PROVE  CountOK'
  BY <1>2, <1>4 DEF IssueCount, IssueCommit, IssueFails
<1>5. ASSUME NEW r \in Requests, \/ \E k \in Keys, h \in Hashes, g \in MaybeGrant : Send(r, k, h, g)
                                 \/ Lookup(r) \/ Gates(r) \/ Authenticate(r) \/ Consume(r) \/ Insert(r) \/ RollBack(r)
      PROVE  CountOK'
  BY <1>2, <1>5 DEF Send, Lookup, Gates, Authenticate, Consume, Insert, RollBack, RestOfCreate
<1>6. ASSUME NEW r \in Requests, NEW i \in Ids, Commit(r, i) PROVE CountOK'
  <2>1. Ever' = Ever \cup {i} /\ OnRecord' = OnRecord \cup {i} /\ i \notin Ever /\ i \notin OnRecord
    BY <1>6, CommitExec DEF Ever, OnRecord
  <2>2. Cardinality(Ever') = Cardinality(Ever) + 1 /\ Cardinality(OnRecord') = Cardinality(OnRecord) + 1
    BY <1>a, <2>1, FS_AddElement
  <2>3. UNCHANGED <<baseline, panel>>
    BY <1>6 DEF Commit, RestOfCreate
  <2> QED  BY <1>a, <2>2, <2>3 DEF CountOK, TotalsKept, PanelCountsOnce
<1>7. ASSUME NEW i \in Ids, (\E v \in Statuses : Conclude(i, v)) \/ ResolveUnknown(i) PROVE CountOK'
  <2>1. UNCHANGED <<baseline, panel>>
    BY <1>7 DEF Conclude, ResolveUnknown, RestOfExec
  <2>2. exec[i].status \notin {"ABSENT", "DELETED"} /\ exec'[i].status \notin {"ABSENT", "DELETED"}
    BY <1>7 DEF Conclude, ResolveUnknown, Typed, Executions
  <2>3. \A j \in Ids \ {i} : exec'[j] = exec[j]
    BY <1>7 DEF Conclude, ResolveUnknown, Typed
  <2> QED  BY <1>1, <2>1, <2>2, <2>3 DEF Ever, OnRecord
<1>8. ASSUME NEW c \in Cleaners, CleanSelect(c) PROVE CountOK'
  BY <1>2, <1>8 DEF CleanSelect
<1>9. ASSUME NEW c \in Cleaners, CleanDelete(c) PROVE CountOK'
  <2>1. Ever' = Ever
    BY <1>9, SameDelete DEF Same
  <2>2. \A i \in Ids : exec'[i].status = IF i \in cleaner[c].ids THEN "DELETED" ELSE exec[i].status
    BY <1>9 DEF CleanDelete, Typed, Executions
  <2>3. OnRecord' = OnRecord \ Deleted(c) /\ Deleted(c) \in SUBSET OnRecord
    BY <2>2 DEF OnRecord, Deleted
  <2>4. OnRecord \cap Deleted(c) = Deleted(c)
    BY <2>3
  <2>5. IsFiniteSet(Deleted(c)) /\ Cardinality(Deleted(c)) \in Nat
    BY <1>a, <2>3, FS_Subset, FS_CardinalityType
  <2>6. Cardinality(OnRecord') = Cardinality(OnRecord) - Cardinality(Deleted(c))
    BY <1>a, <2>3, <2>4, FS_Difference
  <2>7. baseline' = baseline + Cardinality(Deleted(c)) /\ panel' = panel
    BY <1>9 DEF CleanDelete
  <2> QED  BY <1>a, <2>1, <2>5, <2>6, <2>7 DEF CountOK, TotalsKept, PanelCountsOnce
<1>10. ASSUME NEW p \in Panels, PanelBaseline(p) PROVE CountOK'
  <2>1. UNCHANGED <<exec, baseline>> /\ Ever' = Ever /\ OnRecord' = OnRecord
    BY <1>10 DEF PanelBaseline, RestOfPanel, Ever, OnRecord
  <2>2. panel' = [panel EXCEPT ![p] = [pc |-> "count", base |-> baseline,
                                       floor |-> Cardinality(Ever), shown |-> 0]]
    BY <1>10 DEF PanelBaseline, Reading
  <2> QED  BY <1>a, <2>1, <2>2 DEF CountOK, TotalsKept, PanelCountsOnce
<1>11. ASSUME NEW p \in Panels, PanelCount(p) PROVE CountOK'
  <2>1. UNCHANGED <<exec, baseline>> /\ Ever' = Ever /\ OnRecord' = OnRecord
    BY <1>11 DEF PanelCount, RestOfPanel, Ever, OnRecord
  <2>2. panel' = [panel EXCEPT ![p].pc = "shown", ![p].shown = panel[p].base + Cardinality(OnRecord)]
    BY <1>11 DEF PanelCount, Reading
  <2>3. panel[p].base + Cardinality(OnRecord) <= Cardinality(Ever)
        /\ panel[p].base + Cardinality(OnRecord) \in Nat
    BY <1>a DEF CountOK, TotalsKept
  <2> HIDE DEF Ever, OnRecord
  <2> DEFINE n == panel[p].base + Cardinality(OnRecord)
  <2>4. panel'[p] = [panel[p] EXCEPT !.pc = "shown", !.shown = n] /\ \A q \in Panels \ {p} : panel'[q] = panel[q]
    BY <2>2 DEF CountOK
  <2>5. panel' \in [Panels -> [pc : {"idle", "count", "shown"}, base : Nat, floor : Nat, shown : Nat]]
    BY <2>2, <2>3 DEF CountOK
  <2>6. panel'[p].base = panel[p].base /\ panel'[p].shown = n
    BY <2>4 DEF CountOK
  <2> HIDE DEF n
  <2>7. \A q \in Panels : panel'[q].base <= baseline'
    BY <2>1, <2>4, <2>6 DEF CountOK
  <2>8. PanelCountsOnce'
    BY <2>1, <2>3, <2>4, <2>6 DEF CountOK, PanelCountsOnce, n
  <2> QED  BY <2>1, <2>5, <2>7, <2>8 DEF CountOK, TotalsKept
<1> QED  BY <1>3, <1>4, <1>5, <1>6, <1>7, <1>8, <1>9, <1>10, <1>11 DEF Next, Create

\* A dialog that has counted inserts at most one confirmation into its window.
LEMMA RateStep == ASSUME Typed, BackingOK, RateOK, RetentionOK, [Next]_vars PROVE RateOK'
<1> USE AdmissionAssumption
<1>a. now \in Nat /\ now' \in Nat /\ now <= now'
  <2>1. Tick \/ UNCHANGED now
    BY Zenon DEF Next, Create, vars, Login, CleanOutboxes, RestOfExec, IssueCount, IssueCommit,
           IssueFails, Send, Lookup, Gates, Authenticate, Consume, Insert, Commit, RollBack, RestOfCreate, Conclude,
           ResolveUnknown, CleanSelect, CleanDelete, PanelBaseline, PanelCount, RestOfPanel
  <2> QED  BY <2>1 DEF Tick, Typed
<1>b. /\ \A g \in Grants : grant[g].at \in Nat
      /\ \A d \in Issuers : iss[d].at \in Nat
  BY DEF Typed, GrantRows, Dialogs
<1>c. ASSUME NEW t \in Nat
      PROVE  /\ IsFiniteSet(GrantsIn(t)) /\ Cardinality(GrantsIn(t)) \in Nat
             /\ IsFiniteSet(DialogsIn(t)) /\ Cardinality(DialogsIn(t)) \in Nat
             /\ IsFiniteSet(GrantsIn(t)') /\ Cardinality(GrantsIn(t)') \in Nat
             /\ IsFiniteSet(DialogsIn(t)') /\ Cardinality(DialogsIn(t)') \in Nat
             /\ Cardinality(DialogsIn(t)') <= Cardinality(Issuers) /\ Cardinality(Issuers) \in Nat
  <2>1. /\ GrantsIn(t) \in SUBSET Grants /\ GrantsIn(t)' \in SUBSET Grants
        /\ DialogsIn(t) \in SUBSET Issuers /\ DialogsIn(t)' \in SUBSET Issuers
    BY DEF GrantsIn, DialogsIn
  <2>2. /\ IsFiniteSet(GrantsIn(t)) /\ IsFiniteSet(DialogsIn(t))
        /\ IsFiniteSet(GrantsIn(t)') /\ IsFiniteSet(DialogsIn(t)')
        /\ Cardinality(DialogsIn(t)') <= Cardinality(Issuers)
    BY <2>1, FS_Subset
  <2> QED  BY <2>2, FS_CardinalityType
<1>1. ASSUME UNCHANGED iss,
             \A g \in Grants : /\ grant'[g].at = grant[g].at
                               /\ grant'[g].state = "absent" <=> grant[g].state = "absent"
      PROVE  RateOK'
  <2>1. \A t \in Nat : GrantsIn(t)' = GrantsIn(t) /\ DialogsIn(t)' = DialogsIn(t)
    BY <1>1 DEF GrantsIn, DialogsIn
  <2>2. \A g \in Grants : grant'[g].state # "absent" => grant'[g].at <= now'
    BY <1>1, <1>a, <1>b DEF RateOK
  <2>3. \A d \in Issuers : iss'[d].at <= now'
    BY <1>1, <1>a, <1>b DEF RateOK
  <2> QED  BY <2>1, <2>2, <2>3 DEF RateOK
<1>2. CASE UNCHANGED <<iss, grant>>
  BY <1>1, <1>2
<1>3. CASE Tick \/ Login \/ CleanOutboxes \/ UNCHANGED vars
  BY <1>2, <1>3 DEF Tick, Login, CleanOutboxes, RestOfExec, vars
<1>4. ASSUME NEW d \in Issuers, NEW h \in Hashes, IssueCount(d, h) PROVE RateOK'
  <2>1. /\ iss[d].pc = "idle" /\ now' = now /\ grant' = grant
        /\ Cardinality(IssuedSince(now - RateWindow)) < MaxPerWindow
    BY <1>4 DEF IssueCount
  <2>2. iss'[d].pc = "insert" /\ iss'[d].at = now /\ \A e \in Issuers \ {d} : iss'[e] = iss[e]
    BY <1>4 DEF IssueCount, Typed
  <2>3. ASSUME NEW t \in Nat
        PROVE  Cardinality(GrantsIn(t)') + Cardinality(DialogsIn(t)') < MaxPerWindow + Cardinality(Issuers)
    <3>1. GrantsIn(t)' = GrantsIn(t)
      BY <2>1 DEF GrantsIn
    <3>2. CASE now \in t..(t + RateWindow)
      <4>1. GrantsIn(t) \in SUBSET IssuedSince(now - RateWindow)
        BY <1>a, <1>b, <3>2 DEF GrantsIn, IssuedSince
      <4>2. IssuedSince(now - RateWindow) \in SUBSET Grants
        BY DEF IssuedSince
      <4>3. /\ Cardinality(GrantsIn(t)) <= Cardinality(IssuedSince(now - RateWindow))
            /\ Cardinality(IssuedSince(now - RateWindow)) \in Nat
        BY <4>1, <4>2, FS_Subset, FS_CardinalityType
      <4> QED  BY <1>c, <2>1, <3>1, <4>3
    <3>3. CASE now \notin t..(t + RateWindow)
      <4>1. DialogsIn(t)' = DialogsIn(t)
        BY <2>1, <2>2, <3>3 DEF DialogsIn
      <4> QED  BY <3>1, <4>1 DEF RateOK
    <3> QED  BY <3>2, <3>3
  <2>4. \A e \in Issuers : iss'[e].at <= now'
    BY <1>a, <2>1, <2>2 DEF RateOK
  <2> QED  BY <2>1, <2>3, <2>4 DEF RateOK
<1>5. ASSUME NEW d \in Issuers, NEW g \in Grants, IssueCommit(d, g) PROVE RateOK'
  <2>1. iss[d].pc = "insert" /\ grant[g].state = "absent" /\ now' = now
    BY <1>5 DEF IssueCommit
  <2>2. /\ iss'[d].pc = "idle" /\ iss'[d].at = 0
        /\ \A e \in Issuers \ {d} : iss'[e] = iss[e]
    BY <1>5 DEF IssueCommit, Typed
  <2>3. /\ grant'[g].state = "issued" /\ grant'[g].at = iss[d].at
        /\ \A h \in Grants \ {g} : grant'[h] = grant[h]
    BY <1>5 DEF IssueCommit, Typed
  <2>4. ASSUME NEW t \in Nat
        PROVE  Cardinality(GrantsIn(t)') + Cardinality(DialogsIn(t)') < MaxPerWindow + Cardinality(Issuers)
    <3>1. CASE iss[d].at \in t..(t + RateWindow)
      <4>1. GrantsIn(t)' = GrantsIn(t) \cup {g} /\ g \notin GrantsIn(t)
        BY <2>1, <2>3, <3>1 DEF GrantsIn
      <4>2. DialogsIn(t)' = DialogsIn(t) \ {d} /\ d \in DialogsIn(t)
        BY <2>1, <2>2, <3>1 DEF DialogsIn
      <4>3. Cardinality(GrantsIn(t)') = Cardinality(GrantsIn(t)) + 1
        BY <1>c, <4>1, FS_AddElement
      <4>4. Cardinality(DialogsIn(t)') = Cardinality(DialogsIn(t)) - 1
        BY <1>c, <4>2, FS_RemoveElement, ZenonT(60)
      <4> QED  BY <1>c, <4>3, <4>4 DEF RateOK
    <3>2. CASE iss[d].at \notin t..(t + RateWindow)
      <4>1. GrantsIn(t)' = GrantsIn(t)
        BY <2>1, <2>3, <3>2 DEF GrantsIn
      <4>2. DialogsIn(t)' = DialogsIn(t)
        BY <2>1, <2>2, <3>2 DEF DialogsIn
      <4> QED  BY <4>1, <4>2 DEF RateOK
    <3> QED  BY <3>1, <3>2
  <2>5. \A h \in Grants : grant'[h].state # "absent" => grant'[h].at <= now'
    BY <2>1, <2>3 DEF RateOK
  <2>6. \A e \in Issuers : iss'[e].at <= now'
    BY <1>a, <2>1, <2>2 DEF RateOK
  <2> QED  BY <2>4, <2>5, <2>6 DEF RateOK
<1>6. ASSUME NEW d \in Issuers, IssueFails(d) PROVE RateOK'
  <2>1. now' = now /\ grant' = grant
    BY <1>6 DEF IssueFails
  <2>2. /\ iss'[d].pc = "idle" /\ iss'[d].at = 0
        /\ \A e \in Issuers \ {d} : iss'[e] = iss[e]
    BY <1>6 DEF IssueFails, Typed
  <2>3. ASSUME NEW t \in Nat
        PROVE  Cardinality(GrantsIn(t)') + Cardinality(DialogsIn(t)') < MaxPerWindow + Cardinality(Issuers)
    <3>1. GrantsIn(t)' = GrantsIn(t)
      BY <2>1 DEF GrantsIn
    <3>2. DialogsIn(t)' \in SUBSET DialogsIn(t)
      BY <2>2 DEF DialogsIn
    <3>3. Cardinality(DialogsIn(t)') <= Cardinality(DialogsIn(t))
      BY <1>c, <3>2, FS_Subset
    <3> QED  BY <1>c, <3>1, <3>3 DEF RateOK
  <2>4. \A e \in Issuers : iss'[e].at <= now'
    BY <1>a, <2>1, <2>2 DEF RateOK
  <2> QED  BY <2>1, <2>3, <2>4 DEF RateOK
<1>7. ASSUME NEW r \in Requests, \/ \E k \in Keys, h \in Hashes, g \in MaybeGrant : Send(r, k, h, g)
                                 \/ Lookup(r) \/ Gates(r) \/ Authenticate(r) \/ Consume(r) \/ Insert(r) \/ RollBack(r)
      PROVE  RateOK'
  BY <1>2, <1>7 DEF Send, Lookup, Gates, Authenticate, Consume, Insert, RollBack, RestOfCreate
<1>8. ASSUME NEW r \in Requests, NEW i \in Ids, Commit(r, i) PROVE RateOK'
  <2>1. Spent(r) \in Grants => grant[Spent(r)].state = "issued"
    BY <1>8 DEF Commit, Spent, Has, BackingOK, MaybeGrant
  <2>2. ASSUME NEW g \in Grants
        PROVE  /\ grant'[g].at = grant[g].at
               /\ grant'[g].state = "absent" <=> grant[g].state = "absent"
    <3>1. grant[g] \in GrantRows
      BY DEF Typed
    <3>2. grant'[g] = IF g = Spent(r) THEN [grant[g] EXCEPT !.state = "consumed"] ELSE grant[g]
      BY <1>8, CommitExec
    <3> QED  BY <2>1, <3>1, <3>2 DEF GrantRows
  <2>3. UNCHANGED iss
    BY <1>8 DEF Commit, RestOfCreate
  <2> QED  BY <1>1, <2>2, <2>3
<1>9. ASSUME NEW i \in Ids, (\E v \in Statuses : Conclude(i, v)) \/ ResolveUnknown(i) PROVE RateOK'
  BY <1>2, <1>9 DEF Conclude, ResolveUnknown, RestOfExec
<1>10. ASSUME NEW c \in Cleaners, CleanSelect(c) \/ CleanDelete(c) PROVE RateOK'
  BY <1>2, <1>10 DEF CleanSelect, CleanDelete
<1>11. ASSUME NEW p \in Panels, PanelBaseline(p) \/ PanelCount(p) PROVE RateOK'
  BY <1>2, <1>11 DEF PanelBaseline, PanelCount, RestOfPanel
<1> QED  BY <1>3, <1>4, <1>5, <1>6, <1>7, <1>8, <1>9, <1>10, <1>11 DEF Next, Create

\* The row a transaction inserts is a row of the table.
LEMMA Admitted ==
    ASSUME NEW e \in Executions, NEW k \in Keys, NEW h \in Hashes, NEW g \in MaybeGrant,
           NEW t \in 0..MaxClock, NEW b \in BOOLEAN
    PROVE  [e EXCEPT !.status = "QUEUED", !.key = k, !.hash = h, !.grant = g, !.at = t,
                     !.acknowledged = b] \in Executions
BY DEF Executions, Statuses, InFlight

\* Types.
LEMMA TypedStep == ASSUME Typed, [Next]_vars PROVE Typed'
<1> USE AdmissionAssumption DEF Typed
<1>a. NoCall \in Calls
  BY AnyTyped DEF NoCall, Calls, MaybeGrant
<1>1. CASE Tick \/ Login \/ UNCHANGED vars
  BY <1>1 DEF Tick, Login, vars
<1>2. CASE CleanOutboxes
  BY <1>2 DEF CleanOutboxes, RestOfExec, OutboxStates
<1>3. ASSUME NEW d \in Issuers PROVE /\ \A h \in Hashes : IssueCount(d, h) => Typed'
                                     /\ \A g \in Grants : IssueCommit(d, g) => Typed'
                                     /\ IssueFails(d) => Typed'
  <2>1. ASSUME NEW h \in Hashes, IssueCount(d, h) PROVE Typed'
    BY <2>1 DEF IssueCount, Dialogs
  <2>2. iss[d] \in Dialogs
    OBVIOUS
  <2>3. Expiry(iss[d].at, iss[d].login) \in Int
    BY <2>2 DEF Expiry, Least, Dialogs
  <2>4. [pc |-> "idle", hash |-> AnyHash, at |-> 0, login |-> 0] \in Dialogs
    BY AnyTyped DEF Dialogs
  <2>5. ASSUME NEW g \in Grants, IssueCommit(d, g) PROVE Typed'
    <3>1. [state |-> "issued", hash |-> iss[d].hash, at |-> iss[d].at,
           expires |-> Expiry(iss[d].at, iss[d].login), login |-> iss[d].login] \in GrantRows
      BY <2>2, <2>3 DEF GrantRows, Dialogs
    <3> QED  BY <2>4, <2>5, <3>1 DEF IssueCommit
  <2>6. ASSUME IssueFails(d) PROVE Typed'
    BY <2>4, <2>6 DEF IssueFails
  <2> QED  BY <2>1, <2>5, <2>6
<1>4. ASSUME NEW r \in Requests,
             NEW x \in Calls, req' = [req EXCEPT ![r] = x],
             UNCHANGED <<exec, outbox, grant, RestOfCreate>>
      PROVE  Typed'
  BY <1>4 DEF RestOfCreate
<1>5. ASSUME NEW r \in Requests,
             NEW k \in Keys, NEW h \in Hashes, NEW g \in MaybeGrant, Send(r, k, h, g)
      PROVE  Typed'
  <2>1. [pc |-> "lookup", key |-> k, hash |-> h, grant |-> g, at |-> 0] \in Calls
    BY DEF Calls
  <2> QED  BY <1>4, <1>5, <2>1 DEF Send
<1>6. ASSUME NEW r \in Requests, Lookup(r) \/ Gates(r) \/ Authenticate(r) \/ Consume(r) \/ Insert(r) \/ RollBack(r)
      PROVE  Typed'
  <2>1. \A pc \in {"gates", "confirm", "consume", "insert", "commit"} :
          [req[r] EXCEPT !.pc = pc] \in Calls /\ [req[r] EXCEPT !.pc = pc, !.at = now] \in Calls
    BY ZenonT(60) DEF Calls
  <2>2. \/ Answer(r)
        \/ \E pc \in {"gates", "confirm", "consume", "insert", "commit"} : Goto(r, pc)
        \/ req' = [req EXCEPT ![r].pc = "consume", ![r].at = now]
    BY <1>6 DEF Lookup, Gates, Authenticate, Consume, Insert, RollBack
  <2>3. \/ req' = [req EXCEPT ![r] = NoCall]
        \/ \E pc \in {"gates", "confirm", "consume", "insert", "commit"} : req' = [req EXCEPT ![r] = [req[r] EXCEPT !.pc = pc]]
        \/ req' = [req EXCEPT ![r] = [req[r] EXCEPT !.pc = "consume", !.at = now]]
    BY <2>2 DEF Answer, Goto
  <2>4. UNCHANGED <<exec, outbox, grant, RestOfCreate>>
    BY <1>6 DEF Lookup, Gates, Authenticate, Consume, Insert, RollBack
  <2> QED  BY <1>4, <1>a, <2>1, <2>3, <2>4
<1>7. ASSUME NEW r \in Requests, NEW i \in Ids, Commit(r, i) PROVE Typed'
  <2>1. Spent(r) \in MaybeGrant
    BY DEF Spent, Calls, MaybeGrant
  <2>2. [exec[i] EXCEPT !.status = "QUEUED", !.key = req[r].key, !.hash = req[r].hash, !.grant = Spent(r),
                        !.at = req[r].at, !.acknowledged = r \in Acknowledged] \in Executions
    <3>1. /\ exec[i] \in Executions /\ req[r].key \in Keys /\ req[r].hash \in Hashes
          /\ req[r].at \in 0..MaxClock
      BY DEF Calls
    <3>2. (r \in Acknowledged) \in BOOLEAN
      OBVIOUS
    <3> QED  BY <2>1, <3>1, <3>2, Admitted, Zenon
  <2>3. exec' \in [Ids -> Executions]
    BY <1>7, <2>2 DEF Commit
  <2>4. \A g \in Grants : [grant[g] EXCEPT !.state = "consumed"] \in GrantRows
    BY DEF GrantRows
  <2>5. grant' \in [Grants -> GrantRows]
    BY <1>7, <2>4 DEF Commit
  <2>6. outbox' \in [Ids -> OutboxStates]
    BY <1>7 DEF Commit, OutboxStates
  <2>7. req' \in [Requests -> Calls]
    BY <1>7, <1>a DEF Commit, Answer
  <2> QED  BY <1>7, <2>3, <2>5, <2>6, <2>7 DEF Commit, RestOfCreate
<1>8. ASSUME NEW i \in Ids, NEW v \in Statuses, Conclude(i, v) PROVE Typed'
  <2>1. exec' = [exec EXCEPT ![i] = [exec[i] EXCEPT !.status = v]]
    BY <1>8 DEF Conclude
  <2>2. [exec[i] EXCEPT !.status = v] \in Executions
    BY DEF Executions
  <2>3. outbox' \in [Ids -> OutboxStates]
    BY <1>8 DEF Conclude, OutboxStates
  <2> QED  BY <1>8, <2>1, <2>2, <2>3 DEF Conclude, RestOfExec
<1>9. ASSUME NEW i \in Ids, ResolveUnknown(i) PROVE Typed'
  <2>1. exec' = [exec EXCEPT ![i] = [exec[i] EXCEPT !.resolved = TRUE]]
    BY <1>9 DEF ResolveUnknown
  <2>2. [exec[i] EXCEPT !.resolved = TRUE] \in Executions
    BY ZenonT(60) DEF Executions
  <2> QED  BY <1>9, <2>1, <2>2 DEF ResolveUnknown, RestOfExec
<1>10. ASSUME NEW c \in Cleaners, CleanSelect(c) PROVE Typed'
  <2>1. Prunable \in SUBSET Ids
    BY DEF Prunable, OnRecord
  <2>2. PICK ids \in SUBSET Ids : cleaner' = [cleaner EXCEPT ![c] = [pc |-> "delete", ids |-> ids]]
    BY <1>10, <2>1 DEF CleanSelect
  <2> QED  BY <1>10, <2>2 DEF CleanSelect
<1>11. ASSUME NEW c \in Cleaners, CleanDelete(c) PROVE Typed'
  <2>1. \A i \in Ids : [exec[i] EXCEPT !.status = "DELETED"] \in Executions
    BY DEF Executions, Statuses
  <2>2. exec' \in [Ids -> Executions]
    BY <1>11, <2>1 DEF CleanDelete
  <2> QED  BY <1>11, <2>2 DEF CleanDelete
<1>12. ASSUME NEW p \in Panels, PanelBaseline(p) \/ PanelCount(p) PROVE Typed'
  BY <1>12 DEF PanelBaseline, PanelCount, RestOfPanel
<1> HIDE DEF Typed
<1> QED  BY <1>1, <1>2, <1>3, <1>5, <1>6, <1>7, <1>8, <1>9, <1>10, <1>11, <1>12 DEF Next, Create

\* The invariant holds at first.
LEMMA InitIInv == Init => IInv
<1> SUFFICES ASSUME Init PROVE IInv
  OBVIOUS
<1> USE AdmissionAssumption
<1>1. /\ \A i \in Ids : exec[i].status = "ABSENT"
      /\ \A g \in Grants : grant[g].state = "absent"
      /\ \A r \in Requests : req[r].pc = "idle"
      /\ \A d \in Issuers : iss[d].pc = "idle" /\ iss[d].at = 0
      /\ \A c \in Cleaners : cleaner[c].ids = {}
      /\ \A p \in Panels : panel[p].base = 0 /\ panel[p].shown = 0
      /\ baseline = 0 /\ now = 0
  BY DEF Init, NoCall
<1>2. Ever = {} /\ OnRecord = {}
  BY <1>1 DEF Ever, OnRecord
<1>3. Typed
  BY AnyTyped DEF Init, Typed, NoCall, Calls, Executions, GrantRows, Dialogs, Statuses, OutboxStates, MaybeGrant
<1>4. KeysOK
  BY <1>1, <1>2 DEF KeysOK, OneExecution
<1>5. BackingOK /\ TimeOK
  BY <1>1, <1>2 DEF BackingOK, TimeOK, Has, ConfirmedInTime
<1>6. RateOK
  <2>1. \A t \in Nat : GrantsIn(t) = {} /\ DialogsIn(t) = {}
    BY <1>1 DEF GrantsIn, DialogsIn
  <2>2. Cardinality({}) = 0 /\ Cardinality(Issuers) \in Nat
    BY FS_EmptySet, FS_CardinalityType
  <2>3. \A t \in Nat :
          Cardinality(GrantsIn(t)) + Cardinality(DialogsIn(t)) < MaxPerWindow + Cardinality(Issuers)
    BY <2>1, <2>2
  <2> QED  BY <1>1, <2>3 DEF RateOK
<1>7. CountOK
  <2>1. Cardinality({}) = 0
    BY FS_EmptySet
  <2>2. panel \in [Panels -> [pc : {"idle", "count", "shown"}, base : Nat, floor : Nat, shown : Nat]]
    BY DEF Init
  <2> QED  BY <1>1, <1>2, <2>1, <2>2 DEF CountOK, TotalsKept, PanelCountsOnce
<1>8. RetentionOK
  BY <1>1 DEF RetentionOK, StillDeliverable
<1> QED  BY <1>3, <1>4, <1>5, <1>6, <1>7, <1>8 DEF IInv

\* Every step keeps it.
LEMMA NextIInv == ASSUME IInv, [Next]_vars PROVE IInv'
BY TypedStep, KeysStep, BackingStep, TimeStep, RateStep, CountStep, RetentionStep DEF IInv

-----------------------------------------------------------------------------
(* Theorems.                                                                *)

\* IInv holds in every reachable state.
THEOREM Invariance == Spec => []IInv
<1>1. IInv /\ [Next]_vars => IInv'
  BY NextIInv
<1> QED  BY InitIInv, <1>1, PTL DEF Spec

\* Types, the counters' included: no baseline exceeds the executions there were.
THEOREM TypeCorrect == Spec => []TypeOK
<1>1. ASSUME IInv PROVE TypeOK
  <2>1. Ever \in SUBSET Ids /\ OnRecord \in SUBSET Ids
    BY DEF Ever, OnRecord
  <2>2. /\ IsFiniteSet(Ever) /\ IsFiniteSet(OnRecord)
        /\ Cardinality(Ever) <= Cardinality(Ids)
    BY <2>1, AdmissionAssumption, FS_Subset
  <2>3. Cardinality(Ever) \in Nat /\ Cardinality(OnRecord) \in Nat /\ Cardinality(Ids) \in Nat
    BY <2>2, AdmissionAssumption, FS_CardinalityType
  <2>4. baseline \in 0..Cardinality(Ids)
    BY <1>1, <2>2, <2>3 DEF IInv, CountOK, TotalsKept
  <2> QED  BY <1>1, <2>4 DEF IInv, Typed, CountOK, TypeOK
<1> QED  BY <1>1, Invariance, PTL

\* However many requests are sent under it, an idempotency key has one execution on record.
THEOREM KeysUnique == Spec => []OneExecution
<1>1. IInv => OneExecution
  BY DEF IInv, KeysOK
<1> QED  BY <1>1, Invariance, PTL

\* A confirmation that is consumed backs one execution, with the parameters it was
\* issued for, and no execution that needs one is without.
THEOREM ConfirmationsBack == Spec => []GrantBacksOne
<1>1. ASSUME IInv PROVE GrantBacksOne
  <2>1. ASSUME NEW g \in Grants
        PROVE  LET backed == {i \in Ever : exec[i].grant = g}
               IN  /\ grant[g].state = "consumed" <=> backed # {}
                   /\ Cardinality(backed) <= 1
                   /\ \A i \in backed : exec[i].hash = grant[g].hash
    <3> DEFINE backed == {i \in Ever : exec[i].grant = g}
    <3>1. grant[g].state = "consumed" <=> backed # {}
      BY <1>1 DEF IInv, BackingOK
    <3>2. \A i \in backed : exec[i].hash = grant[g].hash
      BY <1>1 DEF IInv, BackingOK
    <3>3. \A i, j \in backed : i = j
      BY <1>1 DEF IInv, BackingOK
    <3>4. Cardinality(backed) <= 1
      <4> HIDE DEF backed
      <4>1. CASE backed = {}
        BY <4>1, FS_EmptySet
      <4>2. CASE backed # {}
        <5>1. PICK i \in backed : backed = {i}
          BY <3>3, <4>2
        <5> QED  BY <5>1, FS_Singleton
      <4> QED  BY <4>1, <4>2
    <3> QED  BY <3>1, <3>2, <3>4
  <2>2. \A i \in Ever : exec[i].grant = NoGrant => exec[i].acknowledged
    BY <1>1 DEF IInv, BackingOK
  <2> QED  BY <2>1, <2>2 DEF GrantBacksOne
<1> QED  BY <1>1, Invariance, PTL

\* No confirmation is used after the login it was issued under has stopped being recent.
THEOREM ConfirmationsTimely == Spec => []ConfirmedInTime
<1>1. IInv => ConfirmedInTime
  BY DEF IInv, TimeOK
<1> QED  BY <1>1, Invariance, PTL

\* Concurrent dialogs exceed the rate limit by one each at most.
THEOREM RateLimited == Spec => []RateBounded
<1>1. ASSUME IInv PROVE RateBounded
  <2>1. ASSUME NEW t \in 0..now PROVE Cardinality(GrantsIn(t)) < MaxPerWindow + Cardinality(Issuers)
    <3>1. t \in Nat
      BY <1>1 DEF IInv, Typed
    <3>2. GrantsIn(t) \in SUBSET Grants /\ DialogsIn(t) \in SUBSET Issuers
      BY DEF GrantsIn, DialogsIn
    <3>3. IsFiniteSet(GrantsIn(t)) /\ IsFiniteSet(DialogsIn(t))
      BY <3>2, AdmissionAssumption, FS_Subset
    <3>4. /\ Cardinality(GrantsIn(t)) \in Nat /\ Cardinality(DialogsIn(t)) \in Nat
          /\ Cardinality(Issuers) \in Nat /\ MaxPerWindow \in Nat
      BY <3>3, AdmissionAssumption, FS_CardinalityType
    <3>5. Cardinality(GrantsIn(t)) + Cardinality(DialogsIn(t)) < MaxPerWindow + Cardinality(Issuers)
      BY <1>1, <3>1 DEF IInv, RateOK
    <3> QED  BY <3>4, <3>5
  <2> QED  BY <2>1 DEF RateBounded, GrantsIn
<1> QED  BY <1>1, Invariance, PTL

\* Baseline and rows add up to the executions there ever were, and no reader is shown more.
THEOREM TotalsExact == Spec => [](TotalsKept /\ PanelCountsOnce)
<1>1. IInv => TotalsKept /\ PanelCountsOnce
  BY DEF IInv, CountOK
<1> QED  BY <1>1, Invariance, PTL

\* Requests that wait for a confirmation's row or for the key never wait in a circle: a
\* request takes the row first.
THEOREM NoCircle == Spec => []NoDeadlock
<1>1. ASSUME NEW r \in Requests, req[r].pc = "commit" PROVE ~Waits(r)
  BY <1>1 DEF Waits
<1>2. ASSUME \A q \in Requests : req[q].pc # "commit", NEW r \in Requests, req[r].pc = "insert"
      PROVE  ~Waits(r)
  BY <1>2 DEF Waits, Inserting
<1>3. ASSUME \A q \in Requests : req[q].pc \notin {"insert", "commit"}, NEW r \in Requests PROVE ~Waits(r)
  BY <1>3 DEF Waits, Confirming
<1>4. NoDeadlock
  BY <1>1, <1>2, <1>3 DEF NoDeadlock
<1> QED  BY <1>4, PTL

\* Only executions that are settled leave the record.
THEOREM RetentionSafe == Spec => OnlySettledLeave
<1>1. ASSUME IInv, [Next]_vars
      PROVE  \A i \in OnRecord : exec'[i].status = "DELETED" =>
               exec[i].status \in Verdicts /\ (exec[i].status = "UNKNOWN" => exec[i].resolved)
  <2> SUFFICES ASSUME NEW i \in OnRecord, exec'[i].status = "DELETED", exec'[i] # exec[i]
               PROVE  exec[i].status \in Verdicts /\ (exec[i].status = "UNKNOWN" => exec[i].resolved)
    BY DEF OnRecord
  <2>1. ASSUME NEW c \in Cleaners, CleanDelete(c)
        PROVE  exec[i].status \in Verdicts /\ (exec[i].status = "UNKNOWN" => exec[i].resolved)
    <3>1. i \in cleaner[c].ids
      BY <2>1 DEF CleanDelete, OnRecord
    <3>2. Settled(i) /\ exec[i].status # "DELETED"
      BY <1>1, <3>1 DEF IInv, RetentionOK, OnRecord
    <3> QED  BY <3>2 DEF Settled, PrunableStatuses, Verdicts
  <2>2. ASSUME NEW r \in Requests, NEW j \in Ids, Commit(r, j) PROVE FALSE
    BY <1>1, <2>2, CommitExec DEF IInv, OnRecord, Ever
  <2>3. ASSUME NEW j \in Ids, (\E v \in Statuses : Conclude(j, v)) \/ ResolveUnknown(j) PROVE FALSE
    BY <1>1, <2>3 DEF Conclude, ResolveUnknown, IInv, Typed, Executions, OnRecord
  <2> QED
    BY <1>1, <2>1, <2>2, <2>3
    DEF Next, Create, Tick, Login, CleanOutboxes, RestOfExec, IssueCount, IssueCommit, IssueFails, Send,
        Lookup, Gates, Authenticate, Consume, Insert, RollBack, CleanSelect, PanelBaseline, PanelCount, RestOfPanel, vars
<1> QED  BY <1>1, Invariance, PTL DEF Spec, OnlySettledLeave

-----------------------------------------------------------------------------
(* The refinement of AdmissionPromise.                                      *)

Accepted == {Command(i) : i \in OnRecord}
Consumed == {g \in Grants : grant[g].state = "consumed"}

\* No command is on record and no confirmation used at first.
LEMMA PromiseInit == Init => Promise!Init
<1> SUFFICES ASSUME Init PROVE Accepted = {} /\ Consumed = {}
  BY DEF Promise!Init, Accepted, Consumed
<1>1. OnRecord = {}
  BY DEF Init, OnRecord
<1>2. Consumed = {}
  BY DEF Init, Consumed
<1> QED  BY <1>1, <1>2 DEF Accepted

\* A commit accepts one command, a cleaner forgets some, and all else is a stutter.
LEMMA PromiseStep == ASSUME IInv, [Next]_vars PROVE [Promise!Next]_Promise!vars
<1> USE AdmissionAssumption
<1>1. ASSUME NEW r \in Requests, NEW i \in Ids, Commit(r, i)
      PROVE  Promise!Accept(req[r].key, req[r].hash, Spent(r))
  <2>1. \A j \in OnRecord : exec'[j] = exec[j] /\ exec[j].key # req[r].key
    BY <1>1, CommitExec DEF IInv, KeysOK, OnRecord, Ever
  <2>2. Accepted' = Accepted \cup {[key |-> req[r].key, hash |-> req[r].hash, grant |-> Spent(r)]}
    <3>1. \A j \in OnRecord : Command(j)' = Command(j)
      BY <2>1 DEF Command
    <3>2. Command(i)' = [key |-> req[r].key, hash |-> req[r].hash, grant |-> Spent(r)]
      BY <1>1, CommitExec DEF IInv, Command
    <3>3. OnRecord' = OnRecord \cup {i}
      BY <1>1, CommitExec DEF IInv
    <3> QED  BY <3>1, <3>2, <3>3 DEF Accepted
  <2>3. \A a \in Accepted : a.key # req[r].key
    BY <2>1 DEF Accepted, Command
  <2>4. Spent(r) # NoGrant => Spent(r) \in Grants /\ grant[Spent(r)].state = "issued"
    BY <1>1 DEF Commit, Spent, Has, IInv, BackingOK, Typed, Calls, MaybeGrant
  <2>5. \A g \in Grants : grant'[g].state = IF g = Spent(r) THEN "consumed" ELSE grant[g].state
    <3> SUFFICES ASSUME NEW g \in Grants
                 PROVE  grant'[g].state = IF g = Spent(r) THEN "consumed" ELSE grant[g].state
      OBVIOUS
    <3>1. grant[g] \in GrantRows
      BY DEF IInv, Typed
    <3>2. grant'[g] = IF g = Spent(r) THEN [grant[g] EXCEPT !.state = "consumed"] ELSE grant[g]
      BY <1>1, CommitExec DEF IInv
    <3> QED  BY <3>1, <3>2 DEF GrantRows
  <2>6. Consumed' = IF Spent(r) = NoGrant THEN Consumed ELSE Consumed \cup {Spent(r)}
    BY <2>4, <2>5 DEF Consumed
  <2>7. Spent(r) \notin Consumed
    BY <2>4 DEF Consumed
  <2> QED  BY <2>2, <2>3, <2>6, <2>7 DEF Promise!Accept, Accepted, Consumed
<1>2. ASSUME Same, UNCHANGED Consumed PROVE [Promise!Next]_Promise!vars
  <2> DEFINE old == {Command(i) : i \in OnRecord \ OnRecord'}
  <2>1. \A i \in OnRecord : Command(i)' = Command(i)
    BY <1>2 DEF Same, Command, OnRecord
  <2>2. OnRecord' \subseteq OnRecord
    BY <1>2 DEF Same
  <2>3. \A i, j \in OnRecord : Command(i) = Command(j) => i = j
    BY DEF IInv, KeysOK, OneExecution, Command
  <2>4. Accepted' = {Command(i) : i \in OnRecord'}
    BY <2>1, <2>2 DEF Accepted
  <2>5. Accepted' = Accepted \ old
    BY <2>2, <2>3, <2>4 DEF Accepted
  <2>6. old \in SUBSET Accepted
    BY DEF Accepted
  <2>7. Promise!Forget(old)
    BY <1>2, <2>5, <2>6 DEF Promise!Forget, Accepted, Consumed
  <2> QED  BY <2>6, <2>7 DEF Promise!Next, Accepted
<1>3. ASSUME NEW d \in Issuers, NEW g \in Grants, IssueCommit(d, g) PROVE UNCHANGED Consumed
  <2>1. /\ grant[g].state = "absent" /\ grant'[g].state = "issued"
        /\ \A h \in Grants \ {g} : grant'[h] = grant[h]
    BY <1>3 DEF IssueCommit, IInv, Typed
  <2> QED  BY <2>1 DEF Consumed
<1>4. CASE \E r \in Requests, i \in Ids : Commit(r, i)
  <2>1. PICK r \in Requests, i \in Ids : Commit(r, i)
    BY <1>4
  <2>2. req[r].key \in Keys /\ req[r].hash \in Hashes /\ Spent(r) \in Grants \cup {NoGrant}
    BY DEF IInv, Typed, Calls, Spent, MaybeGrant
  <2>3. Promise!Accept(req[r].key, req[r].hash, Spent(r))
    BY <1>1, <2>1
  <2>4. \E k \in Keys, h \in Hashes, g \in Grants \cup {NoGrant} : Promise!Accept(k, h, g)
    BY <2>2, <2>3 DEF Promise!Accept
  <2> QED  BY <2>4 DEF Promise!Next
<1>5. UNCHANGED grant => UNCHANGED Consumed
  BY DEF Consumed
<1>6. CASE Same /\ UNCHANGED <<req, grant>>
  BY <1>2, <1>5, <1>6
<1>7. CASE Same /\ UNCHANGED req /\ \E d \in Issuers, g \in Grants : IssueCommit(d, g)
  <2>1. UNCHANGED Consumed
    BY <1>3, <1>7
  <2> QED  BY <1>2, <1>7, <2>1
<1>8. CASE Same /\ UNCHANGED grant /\ Requesting
  BY <1>2, <1>5, <1>8
<1>9. Typed /\ RetentionOK
  BY DEF IInv
<1> QED  BY Kinds, <1>4, <1>6, <1>7, <1>8, <1>9, Zenon

\* The rows keep what AdmissionPromise promises of keys and confirmations.
THEOREM PromiseKept == Spec => ImplementsPromise
<1>1. IInv /\ [Next]_vars => [Promise!Next]_Promise!vars
  BY PromiseStep
<1> QED  BY <1>1, PromiseInit, Invariance, PTL DEF Spec, ImplementsPromise, Promise!Spec
=============================================================================
