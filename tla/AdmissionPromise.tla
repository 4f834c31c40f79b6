-------------------------- MODULE AdmissionPromise --------------------------
(***************************************************************************)
(* What admission promises to a user who presses a button: one idempotency  *)
(* key stands for at most one command as long as the command is on record,  *)
(* and a confirmation is good for one command, whatever is pressed twice,   *)
(* sent again or confirmed at the same time.  CommandAdmission implements   *)
(* this specification.                                                      *)
(***************************************************************************)
CONSTANTS Keys, Hashes, Grants, NoGrant

VARIABLES
    accepted,  \* the commands on record: key, request and confirmation of each
    spent      \* the confirmations that have been used

vars == <<accepted, spent>>

Init == accepted = {} /\ spent = {}

Accept(k, h, g) ==
    /\ \A a \in accepted : a.key # k
    /\ g \notin spent
    /\ accepted' = accepted \cup {[key |-> k, hash |-> h, grant |-> g]}
    /\ spent' = IF g = NoGrant THEN spent ELSE spent \cup {g}

\* The retention of old commands takes them off the record; what they spent
\* stays spent.
Forget(old) ==
    /\ old \subseteq accepted
    /\ accepted' = accepted \ old
    /\ UNCHANGED spent

Next ==
    \/ \E k \in Keys, h \in Hashes, g \in Grants \cup {NoGrant} : Accept(k, h, g)
    \/ \E old \in SUBSET accepted : Forget(old)

Spec == Init /\ [][Next]_vars
============================================================================
