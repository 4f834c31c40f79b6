----------------------------- MODULE Transport -----------------------------
(***************************************************************************)
(* The TLS listener of the devices (backend/internal/transport) as one node*)
(* sees it: the connections it makes one after the other, the goroutine    *)
(* that serves each of them (handleConn, readLoop), the registry of live   *)
(* sessions and the goroutines that send to the node.  Nodes share only    *)
(* the registry's map, so one node shows every interleaving.               *)
(*                                                                         *)
(* A frame that is sent is a number of parts, of which one Write of the    *)
(* connection takes some or all; what is received is a stream of symbols   *)
(* that reads cut at any place, with a header of three symbols.            *)
(*                                                                         *)
(* medium is what the connection does after a write has timed out: a plain *)
(* net.Conn, which Session is written and tested against, goes on          *)
(* ("resumable"); crypto/tls, which the server serves, answers every later *)
(* write with the same time-out ("permanent").                             *)
(***************************************************************************)
EXTENDS Naturals, Sequences, FiniteSets

CONSTANTS
  Last,        \* connections the node makes: 1 .. Last, in this order
  Senders,     \* goroutines that send to the node
  Parts,       \* parts of a frame that is sent
  MaxSends,    \* bound: frames one goroutine sends
  Streams,     \* what the node may send on a connection
  MaxPayload,  \* cfg.MaxPayload
  Media        \* kinds of connection

ASSUME TransportAssumption ==
  /\ {Last, Parts, MaxSends, MaxPayload} \subseteq Nat \ {0}
  /\ Senders \cap (0 .. Last) = {}
  /\ Media \subseteq {"resumable", "permanent"}
  /\ Streams \subseteq Seq(Nat)

Conns == 1 .. Last
None  == 0
\* A handler sends too: OnFrame answers the node from inside the read loop.
Writers == Senders \cup Conns

VARIABLES
  cur,        \* the connection the node uses, or None
  open,       \* open[c]: the server has not closed it
  broken,     \* broken[c]: a write timed out, on a medium that keeps it
  medium,
  handler,    \* where handleConn(c) is
  prev,       \* the session that Register has displaced and has yet to close
  conns, closing,   \* Server.conns, Server.closing
  registry,   \* Registry.sessions of the node
  closed,     \* closed[c]: Session.closed
  writer,     \* what each writer is doing
  lock,       \* lock[c]: the holder of writeMu
  wire,       \* wire[c]: the parts the connection has taken
  res,        \* res[x]: what Send has answered to writer x
  up, buf, got      \* bytes on their way, readLoop's buffer, payloads given to OnFrame

server  == <<handler, prev, conns, closing, registry>>
sending == <<writer, lock, wire, res>>
reading == <<up, buf, got>>
vars == <<cur, open, broken, medium, closed, server, sending, reading>>

Idle == [at |-> "idle", conn |-> None, written |-> 0]
Busy(x) == writer[x].at # "idle"

Magic == 9
Vers  == {7, 8}   \* 8: with FlagCRC32C
PayloadMax == 3   \* protoframe.PayloadMax
HeaderSize == 3
CRC32C(p) == IF p = <<>> THEN 0 ELSE p[1]

-----------------------------------------------------------------------------
(* The node.                                                               *)

Dial(c) ==
  /\ cur = None /\ ~closing
  /\ handler[c] = "none" /\ \A d \in Conns : d < c => handler[d] # "none"
  /\ cur' = c
  /\ handler' = [handler EXCEPT ![c] = "accepted"]
  /\ \E s \in Streams : up' = [up EXCEPT ![c] = s]
  /\ UNCHANGED <<open, broken, medium, closed, prev, conns, closing, registry, sending, buf, got>>

\* It resets, loses power or changes its access point.
Leave ==
  /\ cur # None
  /\ cur' = None
  /\ UNCHANGED <<open, broken, medium, closed, server, sending, reading>>

\* It sees that the server has closed the connection.
Notice == cur # None /\ ~open[cur] /\ Leave

-----------------------------------------------------------------------------
(* Session.                                                                *)

\* Close: the connection with the flag.
CloseSession(c) ==
  /\ closed' = [closed EXCEPT ![c] = TRUE]
  /\ open' = [open EXCEPT ![c] = FALSE]

\* mutant: the write lock is forgotten.
MutexIgnored(c) == TRUE

MutexFree(c) == lock[c] = None

\* Registry.Send: the session of the node, if there is one.
Lookup(x) ==
  /\ ~Busy(x)
  /\ IF registry = None
     THEN res' = [res EXCEPT ![x] = Append(@, "not_ready")] /\ UNCHANGED writer
     ELSE /\ writer' = [writer EXCEPT ![x] = [Idle EXCEPT !.at = "found", !.conn = registry]]
          /\ UNCHANGED res
  /\ UNCHANGED <<lock, wire>>

StartSend(s) ==
  /\ s \in Senders /\ Len(res[s]) < MaxSends
  /\ Lookup(s)
  /\ UNCHANGED <<cur, open, broken, medium, closed, server, reading>>

Answers(x, r) ==
  /\ res' = [res EXCEPT ![x] = Append(@, r)]
  /\ writer' = [writer EXCEPT ![x] = Idle]

\* Session.Send: not for a closed session, before the lock and after it.
Lock(x) ==
  LET c == writer[x].conn IN
  /\ writer[x].at = "found"
  /\ \/ /\ closed[c]
        /\ Answers(x, "not_ready")
        /\ UNCHANGED lock
     \/ /\ MutexFree(c) /\ ~closed[c]
        /\ lock' = [lock EXCEPT ![c] = x]
        /\ writer' = [writer EXCEPT ![x].at = "writing"]
        /\ UNCHANGED res
  /\ UNCHANGED <<cur, open, broken, medium, closed, server, wire, reading>>

\* Where the next Write starts once n more parts have been taken.
Resumed(x, n) == writer[x].written + n

PartsOf(x, n) ==
  [i \in 1 .. n |-> [by |-> x, no |-> Len(res[x]) + 1, k |-> writer[x].written + i]]

Take(x, n) ==
  LET c == writer[x].conn IN
  wire' = [wire EXCEPT ![c] = @ \o PartsOf(x, n)]

Rest(x) == Parts - writer[x].written

\* writeOnce takes what is left of the frame.
WriteAll(x) ==
  LET c == writer[x].conn IN
  /\ writer[x].at = "writing" /\ open[c] /\ ~broken[c]
  /\ Take(x, Rest(x))
  /\ lock' = [lock EXCEPT ![c] = None]
  /\ Answers(x, "ok")
  /\ UNCHANGED <<cur, open, broken, medium, closed, server, reading>>

\* The deadline expires: the loop goes on with what has not been taken.
WriteTimesOut(x) ==
  LET c == writer[x].conn IN
  /\ writer[x].at = "writing" /\ open[c] /\ ~broken[c]
  /\ \E n \in 0 .. Rest(x) - 1 :
       /\ Take(x, n)
       /\ writer' = [writer EXCEPT ![x].written = Resumed(x, n)]
  /\ broken' = [broken EXCEPT ![c] = medium = "permanent"]
  /\ UNCHANGED <<cur, open, medium, closed, server, lock, res, reading>>

\* What the loop does with an error that is no time-out.
Fatal(x) == CloseSession(writer[x].conn) /\ Answers(x, "fatal")
            /\ lock' = [lock EXCEPT ![writer[x].conn] = None]

\* Any other error, after n parts; a closed connection gives one at once.
WriteFails(x) ==
  LET c == writer[x].conn IN
  /\ writer[x].at = "writing"
  /\ \/ open[c] /\ ~broken[c] /\ \E n \in 0 .. Rest(x) - 1 : Take(x, n)
     \/ ~open[c] /\ UNCHANGED wire
  /\ Fatal(x)
  /\ UNCHANGED <<cur, broken, medium, server, reading>>

Write(x) == WriteAll(x) \/ WriteTimesOut(x) \/ WriteFails(x)
Sending(x) == Lock(x) \/ Write(x)

-----------------------------------------------------------------------------
(* handleConn.                                                             *)

Goto(c, at) == handler' = [handler EXCEPT ![c] = at]

Refuses == closing

Track(c) ==
  /\ handler[c] = "accepted"
  /\ IF Refuses
     THEN Goto(c, "done") /\ open' = [open EXCEPT ![c] = FALSE] /\ UNCHANGED conns
     ELSE Goto(c, "handshake") /\ conns' = conns \cup {c} /\ UNCHANGED open
  /\ UNCHANGED <<cur, broken, medium, closed, prev, closing, registry, sending, reading>>

\* The TLS handshake and the identity in the certificate; the deadline of ten
\* seconds bounds it.
Handshake(c) ==
  /\ handler[c] = "handshake"
  /\ \/ open[c] /\ Goto(c, "known")
     \/ Goto(c, "untrack")
  /\ UNCHANGED <<cur, open, broken, medium, closed, prev, conns, closing, registry, sending, reading>>

\* Registry.Register takes the node's place under the lock ...
Register(c) ==
  /\ handler[c] = "known"
  /\ registry' = c
  /\ prev' = [prev EXCEPT ![c] = registry]
  /\ Goto(c, IF registry = None THEN "reading" ELSE "displacing")
  /\ UNCHANGED <<cur, open, broken, medium, closed, conns, closing, sending, reading>>

\* ... and closes the session it displaced outside of it.
CloseDisplaced(c) == CloseSession(prev[c])

Displace(c) ==
  /\ handler[c] = "displacing"
  /\ CloseDisplaced(c)
  /\ prev' = [prev EXCEPT ![c] = None]
  /\ Goto(c, "reading")
  /\ UNCHANGED <<cur, broken, medium, conns, closing, registry, sending, reading>>

\* mutant: removal by node id.
WithoutNode(c) == None

\* RemoveIfSame.
WithoutSession(c) == IF registry = c THEN None ELSE registry

RemoveSession(c) ==
  /\ handler[c] = "remove"
  /\ registry' = WithoutSession(c)
  /\ Goto(c, "untrack")
  /\ UNCHANGED <<cur, open, broken, medium, closed, prev, conns, closing, sending, reading>>

Untrack(c) ==
  /\ handler[c] = "untrack"
  /\ conns' = conns \ {c}
  /\ Goto(c, "close")
  /\ UNCHANGED <<cur, open, broken, medium, closed, prev, closing, registry, sending, reading>>

\* session.Close, where there is a session, and conn.Close.
Finish(c) ==
  /\ handler[c] = "close"
  /\ CloseSession(c)
  /\ Goto(c, "done")
  /\ UNCHANGED <<cur, broken, medium, prev, conns, closing, registry, sending, reading>>

\* Server.Close closes the connections it knows, and waits for the handlers.
Tracked == conns

Close ==
  /\ ~closing
  /\ closing' = TRUE
  /\ open' = [c \in Conns |-> open[c] /\ c \notin Tracked]
  /\ UNCHANGED <<cur, broken, medium, closed, handler, prev, conns, registry, sending, reading>>

-----------------------------------------------------------------------------
(* readLoop.                                                               *)

\* It returns: handleConn closes the connection and cleans up.
ReadEnds(c) == Goto(c, "remove") /\ open' = [open EXCEPT ![c] = FALSE]

Read(c) ==
  /\ handler[c] = "reading" /\ open[c]
  /\ \E n \in 1 .. Len(up[c]) :
       /\ buf' = [buf EXCEPT ![c] = @ \o SubSeq(up[c], 1, n)]
       /\ up' = [up EXCEPT ![c] = SubSeq(@, n + 1, Len(@))]
  /\ Goto(c, "draining")
  /\ UNCHANGED <<cur, open, broken, medium, closed, prev, conns, closing, registry, sending, got>>

\* The node is gone (the keep-alive probes see that, too), or the server has closed
\* the connection.
ReadFails(c) ==
  /\ handler[c] = "reading"
  /\ ~open[c] \/ cur # c
  /\ ReadEnds(c)
  /\ UNCHANGED <<cur, broken, medium, closed, prev, conns, closing, registry, sending, reading>>

HasCRC(b) == b[2] = 8
FrameBytes(b) == HeaderSize + b[3] + (IF HasCRC(b) THEN 1 ELSE 0)
Payload(b) == SubSeq(b, HeaderSize + 1, HeaderSize + b[3])

\* ErrRange, and the configured cap.
TooLarge(b) == b[3] > PayloadMax \/ b[3] > MaxPayload

\* What the inner loop does with the buffer.
Verdict(b) ==
  IF Len(b) < HeaderSize THEN "more"                       \* ErrShort
  ELSE IF b[1] # Magic \/ b[2] \notin Vers THEN "resync"   \* ErrMagic, ErrVer
  ELSE IF TooLarge(b) THEN "fail"
  ELSE IF Len(b) < FrameBytes(b) THEN "more"
  ELSE IF HasCRC(b) /\ b[FrameBytes(b)] # CRC32C(Payload(b)) THEN "fail"
  ELSE "frame"

\* mutant: what a read leaves incomplete is thrown away.
KeptWhole(b) ==
  CASE Verdict(b) = "frame"  -> SubSeq(b, FrameBytes(b) + 1, Len(b))
    [] Verdict(b) = "resync" -> Tail(b)
    [] OTHER                 -> <<>>

Kept(b) == CASE Verdict(b) = "frame"  -> SubSeq(b, FrameBytes(b) + 1, Len(b))
             [] Verdict(b) = "resync" -> Tail(b)
             [] OTHER                 -> b

Overflows(b) == Len(b) > MaxPayload + HeaderSize + 1

\* One turn of the inner loop.  OnFrame answers from within, and the loop waits.
Drain(c) ==
  LET v == Verdict(buf[c]) IN
  /\ handler[c] = "draining" /\ ~Busy(c)
  /\ buf' = [buf EXCEPT ![c] = Kept(@)]
  /\ got' = IF v = "frame" THEN [got EXCEPT ![c] = Append(@, Payload(buf[c]))] ELSE got
  /\ \/ /\ v = "fail" \/ (v = "more" /\ Overflows(buf[c]))
        /\ ReadEnds(c) /\ UNCHANGED sending
     \/ /\ v = "more" /\ ~Overflows(buf[c])
        /\ Goto(c, "reading") /\ UNCHANGED <<open, sending>>
     \/ /\ v \in {"resync", "frame"}
        /\ UNCHANGED <<open, handler>>
        /\ \/ UNCHANGED sending
           \/ v = "frame" /\ Len(res[c]) < MaxSends /\ Lookup(c)
  /\ UNCHANGED <<cur, broken, medium, closed, prev, conns, closing, registry, up>>

-----------------------------------------------------------------------------
Init ==
  /\ cur = None /\ medium \in Media
  /\ open = [c \in Conns |-> TRUE] /\ broken = [c \in Conns |-> FALSE]
  /\ closed = [c \in Conns |-> FALSE]
  /\ handler = [c \in Conns |-> "none"] /\ prev = [c \in Conns |-> None]
  /\ conns = {} /\ closing = FALSE /\ registry = None
  /\ writer = [x \in Writers |-> Idle] /\ res = [x \in Writers |-> <<>>]
  /\ lock = [c \in Conns |-> None] /\ wire = [c \in Conns |-> <<>>]
  /\ up = [c \in Conns |-> <<>>] /\ buf = up /\ got = up

Serving(c) ==
  \/ Track(c) \/ Handshake(c) \/ Register(c) \/ Displace(c)
  \/ ReadFails(c) \/ Drain(c)
  \/ RemoveSession(c) \/ Untrack(c) \/ Finish(c)

Next ==
  \/ \E c \in Conns : Dial(c) \/ Serving(c) \/ Read(c)
  \/ Leave \/ Notice \/ Close
  \/ \E s \in Senders : StartSend(s)
  \/ \E x \in Writers : Sending(x)

\* Goroutines run, a handshake has its deadline, and a node that reads takes what it
\* is sent; nothing makes a node leave, send or come back.
Fairness ==
  /\ WF_vars(Notice)
  /\ \A c \in Conns : WF_vars(Serving(c))
  /\ \A x \in Writers : WF_vars(Sending(x))

Spec == Init /\ [][Next]_vars /\ Fairness

-----------------------------------------------------------------------------
(* Properties.                                                             *)

TypeOK ==
  /\ cur \in Conns \cup {None} /\ registry \in Conns \cup {None}
  /\ open \in [Conns -> BOOLEAN] /\ broken \in [Conns -> BOOLEAN] /\ closed \in [Conns -> BOOLEAN]
  /\ medium \in Media /\ closing \in BOOLEAN /\ conns \subseteq Conns
  /\ handler \in [Conns -> {"none", "accepted", "handshake", "known", "displacing", "reading",
                            "draining", "remove", "untrack", "close", "done"}]
  /\ prev \in [Conns -> Conns \cup {None}]
  /\ writer \in [Writers -> [at : {"idle", "found", "writing"}, conn : Conns \cup {None},
                             written : 0 .. Parts - 1]]
  /\ lock \in [Conns -> Writers \cup {None}]

\* Where the parts of writer x's frame number n are: connection and place.
TakenOf(x, n) ==
  UNION {{<<c, i>> : i \in {j \in DOMAIN wire[c] : wire[c][j].by = x /\ wire[c][j].no = n}}
         : c \in Conns}

\* The parts on a connection are whole frames one after the other, each of them once;
\* a frame that was cut off is the last, and Send's answer says what became of it
\* (session.go:177-247: writeMu, resumption, Close after a partial frame).
WholeFrames ==
  /\ \A c \in Conns : \A i \in DOMAIN wire[c] :
       \/ wire[c][i].k = 1 /\ (i > 1 => wire[c][i - 1].k = Parts)
       \/ i > 1 /\ wire[c][i] = [wire[c][i - 1] EXCEPT !.k = @ + 1]
  /\ \A x \in Writers : \A n \in 1 .. Len(res[x]) :
       CASE res[x][n] = "ok"        -> Cardinality(TakenOf(x, n)) = Parts
         [] res[x][n] = "not_ready" -> TakenOf(x, n) = {}
         [] res[x][n] = "fatal"     -> Cardinality(TakenOf(x, n)) < Parts

\* A connection that is being read is the one downlinks go to, or is about to be
\* closed by the one that took its place (registry.go:20-34: a stale session's
\* cleanup must not evict its successor).
Reachable ==
  \A c \in Conns :
    handler[c] \in {"reading", "draining"} /\ open[c]
      => registry = c \/ \E d \in Conns : handler[d] = "displacing" /\ prev[d] = c

\* Who has found the old session delivers nothing through it once it has been
\* displaced (registry.go:27-28).
SupersededIsSilent ==
  [][\A c \in Conns : wire'[c] # wire[c] =>
       registry = c \/ \E d \in Conns : handler[d] = "displacing" /\ prev[d] = c]_vars

\* The payloads of a stream do not depend on where the reads cut it (server.go:423-427).
Parsed[b \in Seq(Nat)] ==
  CASE Verdict(b) = "frame"  -> <<Payload(b)>> \o Parsed[Kept(b)]
    [] Verdict(b) = "resync" -> Parsed[Kept(b)]
    [] OTHER                 -> <<>>

StreamIsParsed ==
  \A c \in Conns : handler[c] \in {"reading", "remove"} =>
    \E s \in Streams : /\ Len(up[c]) <= Len(s)
                       /\ up[c] = SubSeq(s, Len(s) - Len(up[c]) + 1, Len(s))
                       /\ got[c] = Parsed[SubSeq(s, 1, Len(s) - Len(up[c]))]

\* The guard against growth is never needed: an incomplete frame is below the cap
\* (server.go:504-507).
NeverOverflows ==
  \A c \in Conns : handler[c] = "draining" /\ Verdict(buf[c]) = "more" => ~Overflows(buf[c])

\* A node that stays connected can be reached from some time on (registry.go:20-34).
StableIsReachable == \A c \in Conns : <>[](cur = c) => <>[](registry = c)

\* A connection the server closed takes its handler and its senders with it, unless
\* the handler answers through another one that SendEnds is about.
ClosedDrains ==
  \A c \in Conns :
    ~open[c] ~> \/ handler[c] = "done" /\ \A x \in Writers : writer[x].conn # c
                \/ \E d \in Conns : open[d] /\ broken[d]

\* Server.Close returns: it waits for every handler (server.go:281-295).
ShutdownEnds == closing ~> \A c \in Conns : handler[c] \in {"none", "done"}

\* A timeout resumes the frame, a hard failure is fatal: Send returns
\* (session.go:53-54).
SendEnds == \A x \in Writers : Busy(x) ~> ~Busy(x)
=============================================================================
