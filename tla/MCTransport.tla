---------------------------- MODULE MCTransport ----------------------------
(***************************************************************************)
(* Small instances of Transport: which connections, senders and streams    *)
(* there are is chosen at the start, and how often the node leaves.        *)
(***************************************************************************)
EXTENDS Transport

Plain(p) == <<Magic, 7, Len(p)>> \o p
Checked(p, crc) == <<Magic, 8, Len(p)>> \o p \o <<crc>>

\* A frame; two frames, the second with a checksum; garbage, one of it a magic byte,
\* before a frame; a header inside a payload; a bad checksum, a payload over the cap
\* and one out of range before a frame; a frame that ends early.
MCStreams == {
  <<>>, Plain(<<1>>), Plain(<<>>) \o Checked(<<2>>, 2), <<3, Magic>> \o Plain(<<1>>),
  Plain(<<Magic>>) \o Plain(<<1>>), Checked(<<1>>, 3) \o Plain(<<1>>),
  Checked(<<1, 1, 1>>, 1) \o Plain(<<1>>), <<Magic, 7, 4>> \o Plain(<<1>>), <<Magic, 7, 1>> }

CONSTANTS s1, s2
VARIABLE left

Budget(last, senders, sends, answers, streams, leaves, closes) ==
  [last |-> last, senders |-> senders, sends |-> sends, answers |-> answers,
   streams |-> streams, leaves |-> leaves, closes |-> closes]

Spend(f) == left[f] > 0 /\ left' = [left EXCEPT ![f] = @ - 1]

MCNext ==
  \/ /\ \/ \E c \in Conns : Serving(c) \/ Read(c)
        \/ Notice
        \/ \E x \in Writers : Sending(x)
     /\ (\E c \in Conns : Len(res'[c]) > 0 \/ writer'[c].at # "idle") => left.answers
     /\ UNCHANGED left
  \/ Leave /\ Spend("leaves")
  \/ Close /\ Spend("closes")
  \/ \E c \in Conns : Dial(c) /\ c <= left.last /\ up'[c] \in left.streams /\ UNCHANGED left
  \/ \E s \in left.senders : StartSend(s) /\ Len(res[s]) < left.sends /\ UNCHANGED left

MCVars == <<vars, left>>
One == Plain(<<1>>)

MCInit ==
  /\ left \in {Budget(3, {}, 1, FALSE, {<<>>}, 2, 0),
               Budget(2, {s1}, 1, FALSE, {<<>>}, 1, 1),
               Budget(2, {}, 1, TRUE, {One}, 1, 1),
               Budget(1, {s1, s2}, 1, FALSE, {<<>>}, 1, 1),
               Budget(1, {s1}, 1, TRUE, {One}, 1, 1),
               Budget(1, {}, 1, FALSE, MCStreams, 1, 0)}
  /\ Init
MCSpec == MCInit /\ [][MCNext]_MCVars /\ Fairness

StallInit == left = Budget(1, {s1}, 1, FALSE, {<<>>}, 0, 0) /\ Init
StallSpec == StallInit /\ [][MCNext]_MCVars /\ Fairness
=============================================================================
