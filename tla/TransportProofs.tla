-------------------------- MODULE TransportProofs --------------------------
(***************************************************************************)
(* Proofs about the sessions of one node, for any number of connections,   *)
(* senders, parts of a frame and frames.  Reachable needs the handler that *)
(* is still displacing another session (Reached).  SupersededIsSilent      *)
(* needs that the registry and the senders know no session but those that  *)
(* are in service or closed (KnownServed).                                 *)
(* WholeFrames needs Frames: where on the wire the parts                   *)
(* of every frame that was answered lie (Answered), and of every frame     *)
(* that is being written (Underway, with writeMu: LockOK); that nothing of *)
(* a frame not begun lies there (Unsent); and that a connection which is   *)
(* still open ends with a whole frame when nobody is in the middle of one  *)
(* (EndsWhole), which is what the Close after a partial frame is for.      *)
(* StreamIsParsed needs Streamed: whatever may still come, what was given  *)
(* away and what the buffer will give is what the bytes received give.  A  *)
(* turn of the loop keeps that because it decides on a buffer as it would  *)
(* with more bytes behind it (Extended), and the parse is well-founded     *)
(* because what it keeps is shorter (KeptBytes, Unfold).                   *)
(***************************************************************************)
EXTENDS Transport, FiniteSetTheorems, SequenceTheorems, WellFoundedInduction, TLAPS

Answer == {"ok", "not_ready", "fatal"}
Part   == [by : Writers, no : Nat, k : 1 .. Parts]

Typed ==
    /\ TypeOK
    /\ res \in [Writers -> Seq(Answer)]
    /\ wire \in [Conns -> Seq(Part)]

\* The parts of x's frame number n are the m entries of wire[c] after the first s,
\* in their order, and no others anywhere.
Block(x, n, c, s, m) ==
    /\ s + m <= Len(wire[c])
    /\ \A j \in 1 .. m : wire[c][s + j] = [by |-> x, no |-> n, k |-> j]
    /\ \A d \in Conns : \A i \in 1 .. Len(wire[d]) :
         wire[d][i].by = x /\ wire[d][i].no = n => d = c /\ i \in s + 1 .. s + m

\* How much of a frame has been taken when Send answers r.
Amount(r, m) == CASE r = "ok"        -> m = Parts
                  [] r = "not_ready" -> m = 0
                  [] r = "fatal"     -> m < Parts

Writing(x)     == writer[x].at = "writing"
WritingAt(x, c) == Writing(x) /\ writer[x].conn = c

\* writeMu belongs to the one that writes.
LockOK ==
    \A x \in Writers :
      /\ writer[x].at = "found" => writer[x].conn \in Conns /\ writer[x].written = 0
      /\ Writing(x) => writer[x].conn \in Conns /\ lock[writer[x].conn] = x

\* Where the frame that x is writing has begun.
Start(x) == Len(wire[writer[x].conn]) - writer[x].written

Underway ==
    \A x \in Writers : Writing(x) =>
      /\ Start(x) \in Nat
      /\ Block(x, Len(res[x]) + 1, writer[x].conn, Start(x), writer[x].written)

Unsent ==
    \A c \in Conns : \A i \in 1 .. Len(wire[c]) :
      LET x == wire[c][i].by IN
      wire[c][i].no <= Len(res[x]) \/ (Writing(x) /\ wire[c][i].no = Len(res[x]) + 1)

Answered ==
    \A x \in Writers : \A n \in 1 .. Len(res[x]) :
      \E c \in Conns, s \in Nat, m \in Nat : Block(x, n, c, s, m) /\ Amount(res[x][n], m)

\* Entry i of wire[c] begins a frame after a whole one, or goes on with the one before.
Placed(c, i) ==
    \/ wire[c][i].k = 1 /\ (i > 1 => wire[c][i - 1].k = Parts)
    \/ i > 1 /\ wire[c][i] = [wire[c][i - 1] EXCEPT !.k = @ + 1]

InOrder == \A c \in Conns : \A i \in 1 .. Len(wire[c]) : Placed(c, i)

Whole(c) == Len(wire[c]) > 0 => wire[c][Len(wire[c])].k = Parts

EndsWhole ==
    \A c \in Conns :
      open[c] /\ (\A x \in Writers : WritingAt(x, c) => writer[x].written = 0) => Whole(c)

Frames == LockOK /\ Underway /\ Unsent /\ Answered /\ InOrder /\ EndsWhole

\* A session that is in service is the one of the registry, or about to be closed.
InService == {"displacing", "reading", "draining"}

Displaced(c) == \E d \in Conns : handler[d] = "displacing" /\ prev[d] = c

Reached == \A c \in Conns : handler[c] \in InService /\ open[c] => registry = c \/ Displaced(c)

\* The registry and the senders know sessions that are in service, or closed ones.
Served(c) == handler[c] \in InService \/ ~open[c]

KnownServed ==
    /\ registry # None => Served(registry)
    /\ \A x \in Writers : Busy(x) => writer[x].conn \in Conns /\ Served(writer[x].conn)

IInv == Typed /\ Frames /\ Reached /\ KnownServed

-----------------------------------------------------------------------------
(* What the proofs use of the constants and of sequences.                  *)

\* The constants as numbers and sets.
LEMMA Constants ==
    /\ Last \in Nat /\ Parts \in Nat /\ Parts >= 1 /\ MaxSends \in Nat
    /\ None \notin Writers /\ None \notin Conns /\ Conns \subseteq Writers
  BY TransportAssumption DEF Writers, Conns, None

\* What is on a connection is a sequence of parts, by their fields.
LEMMA OnWire ==
    ASSUME Typed
    PROVE  \A c \in Conns :
             /\ wire[c] \in Seq(Part) /\ Len(wire[c]) \in Nat /\ DOMAIN wire[c] = 1 .. Len(wire[c])
             /\ \A i \in 1 .. Len(wire[c]) :
                  /\ wire[c][i] \in Part /\ wire[c][i].by \in Writers
                  /\ wire[c][i].no \in Nat /\ wire[c][i].k \in 1 .. Parts
  <1> TAKE c \in Conns
  <1>1. wire[c] \in Seq(Part)  BY DEF Typed
  <1>2. Len(wire[c]) \in Nat /\ DOMAIN wire[c] = 1 .. Len(wire[c])  BY <1>1, LenProperties
  <1>3. \A i \in 1 .. Len(wire[c]) : wire[c][i] \in Part  BY <1>1, ElementOfSeq
  <1> QED  BY <1>1, <1>2, <1>3 DEF Part

\* What a writer was answered is a sequence of answers.
LEMMA OnRecord ==
    ASSUME Typed
    PROVE  \A x \in Writers :
             /\ res[x] \in Seq(Answer) /\ Len(res[x]) \in Nat /\ DOMAIN res[x] = 1 .. Len(res[x])
             /\ \A n \in 1 .. Len(res[x]) : res[x][n] \in Answer
  <1> TAKE x \in Writers
  <1>1. res[x] \in Seq(Answer)  BY DEF Typed
  <1> QED  BY <1>1, LenProperties, ElementOfSeq

\* The record of a writer.
LEMMA WriterType ==
    ASSUME Typed
    PROVE  \A x \in Writers :
             /\ writer[x] \in [at : {"idle", "found", "writing"}, conn : Conns \cup {None},
                               written : 0 .. Parts - 1]
             /\ writer[x].at \in {"idle", "found", "writing"}
             /\ writer[x].conn \in Conns \cup {None}
             /\ writer[x].written \in Nat /\ writer[x].written < Parts
             /\ Rest(x) \in Nat /\ Rest(x) >= 1 /\ writer[x].written + Rest(x) = Parts
  <1> TAKE x \in Writers
  <1>1. writer[x] \in [at : {"idle", "found", "writing"}, conn : Conns \cup {None},
                        written : 0 .. Parts - 1]
    BY DEF Typed, TypeOK
  <1> QED  BY <1>1, Constants DEF Rest

-----------------------------------------------------------------------------
(* A write.                                                                *)

\* x writes its frame number N to connection c: w parts of it follow the first s entries.
At(x, N, c, s, w) ==
    /\ Writing(x) /\ N = Len(res[x]) + 1 /\ c = writer[x].conn /\ w = writer[x].written
    /\ c \in Conns /\ N \in Nat /\ s \in Nat /\ w \in Nat /\ w < Parts
    /\ Len(wire[c]) = s + w /\ Block(x, N, c, s, w)

\* One that writes is somewhere.
LEMMA SomewhereAt ==
    ASSUME Typed, LockOK, Underway, NEW x \in Writers, Writing(x)
    PROVE  \E N, c, s, w : At(x, N, c, s, w)
  <1>1. /\ writer[x].conn \in Conns /\ writer[x].written \in Nat /\ Start(x) \in Nat
        /\ writer[x].written < Parts
    BY WriterType DEF LockOK, Underway
  <1>2. Len(wire[writer[x].conn]) \in Nat /\ Len(res[x]) + 1 \in Nat  BY <1>1, OnWire, OnRecord
  <1>3. Len(wire[writer[x].conn]) = Start(x) + writer[x].written  BY <1>1, <1>2 DEF Start
  <1>4. Block(x, Len(res[x]) + 1, writer[x].conn, Start(x), writer[x].written)  BY DEF Underway
  <1>5. At(x, Len(res[x]) + 1, writer[x].conn, Start(x), writer[x].written)
    BY <1>1, <1>2, <1>3, <1>4 DEF At
  <1> QED  BY <1>5

\* n parts more of x's frame number N, of which w had been taken, are added to wire[c].
Appends(x, N, c, w, n) ==
    /\ wire' \in [Conns -> Seq(Part)]
    /\ \A d \in Conns : d # c => wire'[d] = wire[d]
    /\ Len(wire'[c]) = Len(wire[c]) + n
    /\ \A i \in 1 .. Len(wire[c]) : wire'[c][i] = wire[c][i]
    /\ \A i \in 1 .. n : wire'[c][Len(wire[c]) + i] = [by |-> x, no |-> N, k |-> w + i]

\* The same, connection by connection and entry by entry.
Grows(x, N, c, w, n) ==
    /\ wire' \in [Conns -> Seq(Part)]
    /\ Len(wire'[c]) = Len(wire[c]) + n
    /\ \A d \in Conns :
         /\ Len(wire[d]) \in Nat /\ Len(wire'[d]) \in Nat /\ Len(wire[d]) <= Len(wire'[d])
         /\ d # c => wire'[d] = wire[d]
         /\ \A i \in 1 .. Len(wire[d]) : wire'[d][i] = wire[d][i]
         /\ \A i \in 1 .. Len(wire'[d]) : i \notin 1 .. Len(wire[d]) =>
              /\ d = c /\ i - Len(wire[c]) \in 1 .. n
              /\ wire'[d][i] = [by |-> x, no |-> N, k |-> w + (i - Len(wire[c]))]
    /\ \A i \in 1 .. n : wire'[c][Len(wire[c]) + i] = [by |-> x, no |-> N, k |-> w + i]

\* What Take does.
LEMMA TakeAppends ==
    ASSUME Typed, NEW x \in Writers, NEW N, NEW c, NEW s, NEW w, At(x, N, c, s, w),
           NEW n \in Nat, n <= Rest(x), Take(x, n)
    PROVE  Appends(x, N, c, w, n)
  <1> DEFINE P == [i \in 1 .. n |-> [by |-> x, no |-> N, k |-> w + i]]
  <1>1. /\ c \in Conns /\ wire[c] \in Seq(Part) /\ w \in Nat /\ N \in Nat /\ w + n <= Parts
        /\ Parts \in Nat
    BY OnWire, WriterType, Constants DEF At
  <1>2. ASSUME NEW i \in 1 .. n
        PROVE  [by |-> x, no |-> N, k |-> w + i] \in Part
    <2>1. w + i \in 1 .. Parts  BY <1>1
    <2> QED  BY <2>1, <1>1 DEF Part
  <1>3. wire' = [wire EXCEPT ![c] = wire[c] \o P]  BY DEF Take, PartsOf, At
  <1>4. P \in [1 .. n -> Part]  BY <1>2
  <1>5. P \in Seq(Part)  BY <1>4, SeqDef
  <1>6. Len(P) = n  BY <1>4, <1>5, LenProperties
  <1>7. \A i \in 1 .. n : P[i] = [by |-> x, no |-> N, k |-> w + i]  OBVIOUS
  <1>8. wire \in [Conns -> Seq(Part)]  BY DEF Typed
  <1> HIDE DEF P
  <1>9. wire'[c] = wire[c] \o P /\ \A d \in Conns : d # c => wire'[d] = wire[d]
    BY <1>1, <1>3, <1>8
  <1>10. /\ wire[c] \o P \in Seq(Part)
         /\ Len(wire[c] \o P) = Len(wire[c]) + Len(P)
         /\ \A i \in 1 .. Len(wire[c]) + Len(P) :
              (wire[c] \o P)[i] = IF i <= Len(wire[c]) THEN wire[c][i] ELSE P[i - Len(wire[c])]
    BY <1>1, <1>5, ConcatProperties
  <1>11. wire' \in [Conns -> Seq(Part)]  BY <1>1, <1>3, <1>8, <1>10
  <1>12. Len(wire[c]) \in Nat  BY <1>1, OnWire
  <1>13. \A i \in 1 .. Len(wire[c]) : wire'[c][i] = wire[c][i]
    BY <1>6, <1>9, <1>10, <1>12
  <1>14. \A i \in 1 .. n : wire'[c][Len(wire[c]) + i] = P[i]
    <2> TAKE i \in 1 .. n
    <2>1. /\ Len(wire[c]) + i \in 1 .. Len(wire[c]) + Len(P)
          /\ ~(Len(wire[c]) + i <= Len(wire[c])) /\ Len(wire[c]) + i - Len(wire[c]) = i
      BY <1>6, <1>12
    <2> QED  BY <2>1, <1>9, <1>10
  <1>15. Len(wire'[c]) = Len(wire[c]) + n  BY <1>6, <1>9, <1>10
  <1> QED  BY <1>7, <1>9, <1>11, <1>13, <1>14, <1>15 DEF Appends

\* What is added to one connection is added there and nowhere else.
LEMMA AppendsGrows ==
    ASSUME Typed, NEW x, NEW N, NEW c \in Conns, NEW w \in Nat, NEW n \in Nat, Appends(x, N, c, w, n)
    PROVE  Grows(x, N, c, w, n)
  <1>1. ASSUME NEW d \in Conns
        PROVE  /\ Len(wire[d]) \in Nat /\ Len(wire'[d]) \in Nat /\ Len(wire[d]) <= Len(wire'[d])
               /\ d # c => wire'[d] = wire[d]
               /\ \A i \in 1 .. Len(wire[d]) : wire'[d][i] = wire[d][i]
               /\ \A i \in 1 .. Len(wire'[d]) : i \notin 1 .. Len(wire[d]) =>
                    /\ d = c /\ i - Len(wire[c]) \in 1 .. n
                    /\ wire'[d][i] = [by |-> x, no |-> N, k |-> w + (i - Len(wire[c]))]
    <2>1. Len(wire[d]) \in Nat  BY OnWire
    <2>2. CASE d # c
      <3>1. wire'[d] = wire[d]  BY <2>2 DEF Appends
      <3> QED  BY <2>1, <2>2, <3>1
    <2>3. CASE d = c
      <3>1. Len(wire'[d]) = Len(wire[d]) + n  BY <2>3 DEF Appends
      <3>2. \A i \in 1 .. Len(wire[d]) : wire'[d][i] = wire[d][i]  BY <2>3 DEF Appends
      <3>3. ASSUME NEW i \in 1 .. Len(wire'[d]), i \notin 1 .. Len(wire[d])
            PROVE  /\ i - Len(wire[c]) \in 1 .. n
                   /\ wire'[d][i] = [by |-> x, no |-> N, k |-> w + (i - Len(wire[c]))]
        <4>1. i - Len(wire[c]) \in 1 .. n /\ Len(wire[c]) + (i - Len(wire[c])) = i
          BY <2>1, <2>3, <3>1, <3>3
        <4> QED  BY <2>3, <4>1 DEF Appends
      <3> QED  BY <2>1, <2>3, <3>1, <3>2, <3>3
    <2> QED  BY <2>2, <2>3
  <1> QED  BY <1>1 DEF Grows, Appends

\* What Take does ...
LEMMA TakeGrows ==
    ASSUME Typed, NEW x \in Writers, NEW N, NEW c, NEW s, NEW w, At(x, N, c, s, w),
           NEW n \in Nat, n <= Rest(x), Take(x, n)
    PROVE  Grows(x, N, c, w, n)
  <1>1. c \in Conns /\ w \in Nat  BY DEF At
  <1>2. Appends(x, N, c, w, n)  BY TakeAppends
  <1> QED  BY <1>1, <1>2, AppendsGrows

\* ... and a write that takes nothing.
LEMMA NoneGrows ==
    ASSUME Typed, NEW x, NEW N, NEW c \in Conns, NEW w \in Nat, UNCHANGED wire
    PROVE  Grows(x, N, c, w, 0)
  <1>1. wire' \in [Conns -> Seq(Part)] /\ \A d \in Conns : Len(wire[d]) \in Nat
    BY OnWire DEF Typed
  <1> QED  BY <1>1 DEF Grows

\* The parts of another frame stay where they are, and no others come.
LEMMA BlockStays ==
    ASSUME Typed, NEW x, NEW N, NEW c \in Conns, NEW w \in Nat, NEW n \in Nat, Grows(x, N, c, w, n),
           NEW y, NEW m, y # x \/ m # N \/ n = 0,
           NEW d \in Conns, NEW s \in Nat, NEW v \in Nat, Block(y, m, d, s, v)
    PROVE  Block(y, m, d, s, v)'
  <1>1. /\ Len(wire'[d]) \in Nat /\ Len(wire[d]) \in Nat /\ Len(wire[d]) <= Len(wire'[d])
        /\ \A i \in 1 .. Len(wire[d]) : wire'[d][i] = wire[d][i]
    BY DEF Grows
  <1>2. s + v <= Len(wire'[d])  BY <1>1 DEF Block
  <1>3. ASSUME NEW j \in 1 .. v
        PROVE  wire'[d][s + j] = [by |-> y, no |-> m, k |-> j]
    <2>1. s + j \in 1 .. Len(wire[d])  BY <1>1 DEF Block
    <2> QED  BY <1>1, <2>1 DEF Block
  <1>4. ASSUME NEW e \in Conns, NEW i \in 1 .. Len(wire'[e]), wire'[e][i].by = y, wire'[e][i].no = m
        PROVE  e = d /\ i \in s + 1 .. s + v
    <2>1. i \in 1 .. Len(wire[e])
      <3>1. SUFFICES ASSUME i \notin 1 .. Len(wire[e])  PROVE FALSE
        OBVIOUS
      <3>2. /\ i - Len(wire[c]) \in 1 .. n
            /\ wire'[e][i] = [by |-> x, no |-> N, k |-> w + (i - Len(wire[c]))]
        BY <3>1 DEF Grows
      <3>3. n # 0  BY <3>2
      <3>4. y = x /\ m = N  BY <3>2, <1>4
      <3> QED  BY <3>3, <3>4
    <2>2. wire'[e][i] = wire[e][i]  BY <2>1 DEF Grows
    <2> QED  BY <1>4, <2>1, <2>2 DEF Block
  <1> QED  BY <1>2, <1>3, <1>4 DEF Block

\* The frame that is being written has n parts more.
LEMMA BlockGrows ==
    ASSUME Typed, NEW x, NEW N, NEW c \in Conns, NEW s \in Nat, NEW w \in Nat, NEW n \in Nat,
           Grows(x, N, c, w, n), Block(x, N, c, s, w), Len(wire[c]) = s + w
    PROVE  Block(x, N, c, s, w + n)' /\ Len(wire'[c]) = s + (w + n)
  <1>1. /\ \A i \in 1 .. Len(wire[c]) : wire'[c][i] = wire[c][i]
        /\ Len(wire'[c]) = Len(wire[c]) + n
    BY DEF Grows
  <1>2. s + (w + n) <= Len(wire'[c]) /\ Len(wire'[c]) = s + (w + n)  BY <1>1
  <1>3. ASSUME NEW j \in 1 .. w + n
        PROVE  wire'[c][s + j] = [by |-> x, no |-> N, k |-> j]
    <2>1. CASE j <= w
      <3>1. j \in 1 .. w /\ s + j \in 1 .. Len(wire[c])  BY <2>1
      <3> QED  BY <1>1, <3>1 DEF Block
    <2>2. CASE j > w
      <3>1. j - w \in 1 .. n /\ s + j = Len(wire[c]) + (j - w) /\ w + (j - w) = j
        BY <2>2
      <3> QED  BY <3>1 DEF Grows
    <2> QED  BY <2>1, <2>2
  <1>4. ASSUME NEW e \in Conns, NEW i \in 1 .. Len(wire'[e]), wire'[e][i].by = x, wire'[e][i].no = N
        PROVE  e = c /\ i \in s + 1 .. s + (w + n)
    <2>1. CASE i \in 1 .. Len(wire[e])
      <3>1. wire'[e][i] = wire[e][i]  BY <2>1 DEF Grows
      <3>2. e = c /\ i \in s + 1 .. s + w  BY <1>4, <2>1, <3>1 DEF Block
      <3> QED  BY <3>2
    <2>2. CASE i \notin 1 .. Len(wire[e])
      <3>1. e = c /\ i - Len(wire[c]) \in 1 .. n  BY <2>2 DEF Grows
      <3> QED  BY <3>1
    <2> QED  BY <2>1, <2>2
  <1> QED  BY <1>2, <1>3, <1>4 DEF Block

\* The same of the frame x is writing.
LEMMA AtGrows ==
    ASSUME Typed, NEW x, NEW N, NEW c, NEW s, NEW w, At(x, N, c, s, w),
           NEW n \in Nat, Grows(x, N, c, w, n)
    PROVE  Block(x, N, c, s, w + n)' /\ Len(wire'[c]) = s + (w + n)
  <1>1. c \in Conns /\ s \in Nat /\ w \in Nat /\ Len(wire[c]) = s + w /\ Block(x, N, c, s, w)
    BY DEF At
  <1> QED  BY <1>1, BlockGrows, ZenonT(60)

\* What a write adds is in its place: it goes on with the frame, or begins it after a
\* whole one.
LEMMA PlacedAfter ==
    ASSUME Typed, Frames, NEW x \in Writers, NEW N, NEW c, NEW s, NEW w, At(x, N, c, s, w),
           NEW n \in Nat, Grows(x, N, c, w, n), n = 0 \/ open[c]
    PROVE  InOrder'
  <1>1. /\ c \in Conns /\ s \in Nat /\ w \in Nat /\ Len(wire[c]) = s + w /\ Block(x, N, c, s, w)
        /\ Len(wire[c]) \in Nat
    BY OnWire DEF At
  <1>2. w = 0 => \A y \in Writers : WritingAt(y, c) => writer[y].written = 0
    BY DEF Frames, LockOK, WritingAt, At
  <1>old. \A d \in Conns : \A i \in 1 .. Len(wire[d]) : wire'[d][i] = wire[d][i]
    BY DEF Grows
  <1>new. \A d \in Conns : \A i \in 1 .. Len(wire'[d]) : i \notin 1 .. Len(wire[d]) =>
             /\ d = c /\ i - Len(wire[c]) \in 1 .. n
             /\ wire'[d][i] = [by |-> x, no |-> N, k |-> w + (i - Len(wire[c]))]
    BY DEF Grows
  <1>3. SUFFICES ASSUME NEW d \in Conns, NEW i \in 1 .. Len(wire'[d])
                 PROVE  Placed(d, i)'
    BY DEF InOrder
  <1>4. CASE i \in 1 .. Len(wire[d])
    <2>1. wire'[d][i] = wire[d][i]  BY <1>4, <1>old
    <2>2. i > 1 => i - 1 \in 1 .. Len(wire[d])  BY <1>1, <1>4, OnWire
    <2>3. i > 1 => wire'[d][i - 1] = wire[d][i - 1]  BY <1>old, <2>2
    <2>4. Placed(d, i)  BY <1>4 DEF Frames, InOrder
    <2> QED  BY <2>1, <2>3, <2>4 DEF Placed
  <1>5. CASE i \notin 1 .. Len(wire[d])
    <2>1. /\ d = c /\ i - Len(wire[c]) \in 1 .. n
          /\ wire'[d][i] = [by |-> x, no |-> N, k |-> w + (i - Len(wire[c]))]
      BY <1>5, <1>new
    <2>2. CASE i - Len(wire[c]) > 1
      <3>1. i > 1 /\ i - 1 \notin 1 .. Len(wire[c]) /\ i - 1 \in 1 .. Len(wire'[c])
        BY <1>1, <2>1, <2>2
      <3>2. wire'[c][i - 1] = [by |-> x, no |-> N, k |-> w + ((i - 1) - Len(wire[c]))]
        BY <1>1, <3>1, <1>new
      <3>3. w + (i - Len(wire[c])) = (w + ((i - 1) - Len(wire[c]))) + 1  BY <1>1
      <3>4. wire'[c][i] = [wire'[c][i - 1] EXCEPT !.k = @ + 1]  BY <2>1, <3>2, <3>3
      <3> QED  BY <2>1, <3>1, <3>4 DEF Placed
    <2>3. CASE i - Len(wire[c]) = 1 /\ w > 0
      <3>1. i > 1 /\ i - 1 = s + w /\ i - 1 \in 1 .. Len(wire[c]) /\ w \in 1 .. w
        BY <1>1, <2>1, <2>3
      <3>2. wire[c][s + w] = [by |-> x, no |-> N, k |-> w]  BY <1>1, <3>1 DEF Block
      <3>3. wire'[c][i - 1] = [by |-> x, no |-> N, k |-> w]  BY <1>1, <1>old, <3>1, <3>2
      <3>4. wire'[c][i] = [by |-> x, no |-> N, k |-> w + 1]  BY <2>1, <2>3
      <3>5. wire'[c][i] = [wire'[c][i - 1] EXCEPT !.k = @ + 1]  BY <3>3, <3>4
      <3> QED  BY <2>1, <3>1, <3>5 DEF Placed
    <2>4. CASE i - Len(wire[c]) = 1 /\ w = 0
      <3>1. open[c]  BY <2>1
      <3>2. Whole(c)  BY <1>1, <1>2, <2>4, <3>1 DEF Frames, EndsWhole
      <3>3. wire'[c][i].k = 1  BY <2>1, <2>4
      <3>4. i > 1 => i - 1 = Len(wire[c]) /\ i - 1 \in 1 .. Len(wire[c]) /\ Len(wire[c]) > 0
        BY <1>1, <2>4
      <3>5. i > 1 => wire'[c][i - 1] = wire[c][i - 1]  BY <1>1, <1>old, <3>4
      <3> QED  BY <2>1, <3>2, <3>3, <3>4, <3>5 DEF Placed, Whole
    <2> QED  BY <1>1, <2>1, <2>2, <2>3, <2>4
  <1> QED  BY <1>4, <1>5

-----------------------------------------------------------------------------
(* The steps, as far as frames are concerned.                              *)

\* Connections are closed and never opened.
Shrinks == \A c \in Conns : open'[c] => open[c]

\* A step that has nothing to do with sending.
LEMMA OtherStep ==
    ASSUME Typed, Frames, Shrinks, UNCHANGED writer, UNCHANGED lock, UNCHANGED wire, UNCHANGED res
    PROVE  Frames'
  <1>1. LockOK'  BY DEF Frames, LockOK, Writing
  <1>2. Underway'  BY DEF Frames, Underway, Writing, Start, Block
  <1>3. Unsent'  BY DEF Frames, Unsent, Writing
  <1>4. Answered'
    <2>1. Answered  BY DEF Frames
    <2>2. \A y, n, c, s, m : Block(y, n, c, s, m)' = Block(y, n, c, s, m)  BY DEF Block
    <2> QED  BY <2>1, <2>2 DEF Answered
  <1>5. InOrder'  BY DEF Frames, InOrder, Placed
  <1>6. EndsWhole'  BY DEF Frames, EndsWhole, Shrinks, Whole, WritingAt, Writing
  <1> QED  BY <1>1, <1>2, <1>3, <1>4, <1>5, <1>6 DEF Frames

\* x is given an answer.
LEMMA AnswerGiven ==
    ASSUME Typed, NEW x \in Writers, NEW r \in Answer, res' = [res EXCEPT ![x] = Append(res[x], r)]
    PROVE  /\ res' \in [Writers -> Seq(Answer)]
           /\ \A y \in Writers : y # x => res'[y] = res[y]
           /\ Len(res[x]) \in Nat /\ Len(res'[x]) = Len(res[x]) + 1
           /\ \A n \in 1 .. Len(res[x]) : res'[x][n] = res[x][n]
           /\ res'[x][Len(res[x]) + 1] = r
  <1>1. res \in [Writers -> Seq(Answer)]  BY DEF Typed
  <1>2. res[x] \in Seq(Answer)  BY <1>1
  <1>3. res'[x] = Append(res[x], r) /\ \A y \in Writers : y # x => res'[y] = res[y]
    BY <1>1
  <1>4. /\ Append(res[x], r) \in Seq(Answer)
        /\ Len(Append(res[x], r)) = Len(res[x]) + 1
        /\ \A n \in 1 .. Len(res[x]) : Append(res[x], r)[n] = res[x][n]
        /\ Append(res[x], r)[Len(res[x]) + 1] = r
    BY <1>2, AppendProperties
  <1>5. res' \in [Writers -> Seq(Answer)]  BY <1>1, <1>4
  <1>6. Len(res[x]) \in Nat  BY <1>2, LenProperties
  <1> QED  BY <1>3, <1>4, <1>5, <1>6

\* x is refused before it has written anything.
LEMMA RefusedStep ==
    ASSUME Typed, Frames, Shrinks, NEW x \in Writers, ~Writing(x), UNCHANGED lock, UNCHANGED wire,
           res' = [res EXCEPT ![x] = Append(res[x], "not_ready")],
           writer'[x].at \notin {"found", "writing"}, \A y \in Writers : y # x => writer'[y] = writer[y]
    PROVE  Frames'
  <1>1. /\ \A y \in Writers : y # x => res'[y] = res[y]
        /\ Len(res[x]) \in Nat /\ Len(res'[x]) = Len(res[x]) + 1
        /\ \A n \in 1 .. Len(res[x]) : res'[x][n] = res[x][n]
        /\ res'[x][Len(res[x]) + 1] = "not_ready"
    BY AnswerGiven DEF Answer
  <1>2. LockOK'
    <2> SUFFICES ASSUME NEW y \in Writers
                 PROVE  /\ writer'[y].at = "found" => writer'[y].conn \in Conns /\ writer'[y].written = 0
                        /\ writer'[y].at = "writing" =>
                             writer'[y].conn \in Conns /\ lock'[writer'[y].conn] = y
      BY DEF LockOK, Writing
    <2>1. CASE y = x  BY <2>1
    <2>2. CASE y # x  BY <2>2 DEF Frames, LockOK, Writing
    <2> QED  BY <2>1, <2>2
  <1>3. Underway'
    <2> SUFFICES ASSUME NEW y \in Writers, Writing(y)'
                 PROVE  /\ Start(y)' \in Nat
                        /\ Block(y, Len(res[y]) + 1, writer[y].conn, Start(y), writer[y].written)'
      BY DEF Underway
    <2>1. y # x /\ writer'[y] = writer[y] /\ res'[y] = res[y] /\ Writing(y)  BY <1>1 DEF Writing
    <2>2. /\ Start(y) \in Nat
          /\ Block(y, Len(res[y]) + 1, writer[y].conn, Start(y), writer[y].written)
      BY <2>1 DEF Frames, Underway
    <2> QED  BY <2>1, <2>2 DEF Start, Block
  <1>4. Unsent'
    <2> SUFFICES ASSUME NEW c \in Conns, NEW i \in 1 .. Len(wire[c]), NEW y, y = wire[c][i].by
                 PROVE  wire[c][i].no <= Len(res'[y])
                        \/ (writer'[y].at = "writing" /\ wire[c][i].no = Len(res'[y]) + 1)
      BY DEF Unsent, Writing
    <2>1. y \in Writers /\ wire[c][i].no \in Nat  BY OnWire
    <2>2. wire[c][i].no <= Len(res[y]) \/ (Writing(y) /\ wire[c][i].no = Len(res[y]) + 1)
      BY DEF Frames, Unsent
    <2>3. CASE y = x  BY <1>1, <2>1, <2>2, <2>3
    <2>4. CASE y # x  BY <1>1, <2>1, <2>2, <2>4 DEF Writing
    <2> QED  BY <2>3, <2>4
  <1>5. Answered'
    <2> SUFFICES ASSUME NEW y \in Writers, NEW n \in 1 .. Len(res'[y])
                 PROVE  \E c \in Conns, s \in Nat, m \in Nat : Block(y, n, c, s, m)' /\ Amount(res'[y][n], m)
      BY DEF Answered
    <2>0. \A c \in Conns, s \in Nat, m \in Nat : Block(y, n, c, s, m)' = Block(y, n, c, s, m)
      BY DEF Block
    <2>1. CASE y # x \/ n <= Len(res[x])
      <3>1. n \in 1 .. Len(res[y]) /\ res'[y][n] = res[y][n]  BY <1>1, <2>1
      <3>2. PICK c \in Conns, s \in Nat, m \in Nat : Block(y, n, c, s, m) /\ Amount(res[y][n], m)
        BY <3>1 DEF Frames, Answered
      <3>3. Block(y, n, c, s, m)'  BY <2>0, <3>2
      <3> QED  BY <3>1, <3>2, <3>3
    <2>2. CASE y = x /\ ~(n <= Len(res[x]))
      <3>1. n = Len(res[x]) + 1  BY <1>1, <2>2
      <3>2. ASSUME NEW d \in Conns, NEW i \in 1 .. Len(wire[d]), wire[d][i].by = x, wire[d][i].no = n
            PROVE  FALSE
        <4>1. wire[d][i].no <= Len(res[x]) \/ Writing(x)  BY <3>2 DEF Frames, Unsent
        <4> QED  BY <1>1, <3>1, <3>2, <4>1
      <3>3. Last \in Nat /\ Last >= 1  BY TransportAssumption
      <3>4. 1 \in Conns  BY <3>3 DEF Conns
      <3>5. 0 <= Len(wire[1])  BY <3>4, OnWire
      <3>6. Block(x, n, 1, 0, 0)  BY <3>2, <3>5 DEF Block
      <3>7. Amount(res'[x][n], 0)  BY <1>1, <3>1 DEF Amount
      <3> QED  BY <2>0, <2>2, <3>4, <3>6, <3>7
    <2> QED  BY <2>1, <2>2
  <1>6. InOrder'  BY DEF Frames, InOrder, Placed
  <1>7. EndsWhole'
    <2> SUFFICES ASSUME NEW c \in Conns, open'[c],
                        \A y \in Writers : WritingAt(y, c)' => writer'[y].written = 0
                 PROVE  Whole(c)'
      BY DEF EndsWhole
    <2>1. ASSUME NEW y \in Writers, WritingAt(y, c)
          PROVE  writer[y].written = 0
      <3>1. y # x /\ writer'[y] = writer[y]  BY <2>1 DEF WritingAt
      <3> QED  BY <2>1, <3>1 DEF WritingAt, Writing
    <2> QED  BY <2>1 DEF Frames, EndsWhole, Shrinks, Whole
  <1> QED  BY <1>2, <1>3, <1>4, <1>5, <1>6, <1>7 DEF Frames

\* x finds a connection, or a write to it lasts on: nothing is written.
LEMMA FoundStep ==
    ASSUME Typed, Frames, Shrinks, NEW x \in Writers, writer[x].at = "idle",
           UNCHANGED lock, UNCHANGED wire, UNCHANGED res,
           writer'[x].at = "found", writer'[x].conn \in Conns, writer'[x].written = 0,
           \A y \in Writers : y # x => writer'[y] = writer[y]
    PROVE  Frames'
  <1>1. LockOK'
    <2> SUFFICES ASSUME NEW y \in Writers
                 PROVE  /\ writer'[y].at = "found" => writer'[y].conn \in Conns /\ writer'[y].written = 0
                        /\ writer'[y].at = "writing" =>
                             writer'[y].conn \in Conns /\ lock'[writer'[y].conn] = y
      BY DEF LockOK, Writing
    <2>1. CASE y = x  BY <2>1
    <2>2. CASE y # x  BY <2>2 DEF Frames, LockOK, Writing
    <2> QED  BY <2>1, <2>2
  <1>2. ASSUME NEW y \in Writers
        PROVE  /\ Writing(y)' <=> Writing(y)
               /\ Writing(y) => writer'[y] = writer[y]
    <2>1. CASE y = x  BY <2>1 DEF Writing
    <2>2. CASE y # x  BY <2>2 DEF Writing
    <2> QED  BY <2>1, <2>2
  <1>3. Underway'
    <2> SUFFICES ASSUME NEW y \in Writers, Writing(y)'
                 PROVE  /\ Start(y)' \in Nat
                        /\ Block(y, Len(res[y]) + 1, writer[y].conn, Start(y), writer[y].written)'
      BY DEF Underway
    <2>1. writer'[y] = writer[y] /\ Writing(y)  BY <1>2
    <2>2. /\ Start(y) \in Nat
          /\ Block(y, Len(res[y]) + 1, writer[y].conn, Start(y), writer[y].written)
      BY <2>1 DEF Frames, Underway
    <2> QED  BY <2>1, <2>2 DEF Start, Block
  <1>4. Unsent'
    <2> SUFFICES ASSUME NEW c \in Conns, NEW i \in 1 .. Len(wire[c]), NEW y, y = wire[c][i].by
                 PROVE  wire[c][i].no <= Len(res[y]) \/ (Writing(y)' /\ wire[c][i].no = Len(res[y]) + 1)
      BY DEF Unsent
    <2>1. y \in Writers  BY OnWire
    <2> QED  BY <1>2, <2>1 DEF Frames, Unsent
  <1>5. Answered'
    <2>1. Answered  BY DEF Frames
    <2>2. \A y, n, c, s, m : Block(y, n, c, s, m)' = Block(y, n, c, s, m)  BY DEF Block
    <2> QED  BY <2>1, <2>2 DEF Answered
  <1>6. InOrder'  BY DEF Frames, InOrder, Placed
  <1>7. EndsWhole'
    <2> SUFFICES ASSUME NEW c \in Conns, open'[c],
                        \A y \in Writers : WritingAt(y, c)' => writer'[y].written = 0
                 PROVE  Whole(c)'
      BY DEF EndsWhole
    <2>1. ASSUME NEW y \in Writers, WritingAt(y, c)
          PROVE  writer[y].written = 0
      BY <1>2, <2>1 DEF WritingAt
    <2> QED  BY <2>1 DEF Frames, EndsWhole, Shrinks, Whole
  <1> QED  BY <1>1, <1>3, <1>4, <1>5, <1>6, <1>7 DEF Frames

\* x has the lock of its connection and begins to write.
LEMMA LockStep ==
    ASSUME Typed, Frames, Shrinks, NEW x \in Writers, NEW c \in Conns,
           writer[x].at = "found", writer[x].conn = c, lock[c] = None,
           UNCHANGED wire, UNCHANGED res, lock' = [lock EXCEPT ![c] = x],
           Writing(x)', writer'[x].conn = c, writer'[x].written = writer[x].written,
           \A y \in Writers : y # x => writer'[y] = writer[y]
    PROVE  Frames'
  <1>1. lock'[c] = x /\ \A d \in Conns : d # c => lock'[d] = lock[d]  BY DEF Typed, TypeOK
  <1>2. writer[x].written = 0  BY DEF Frames, LockOK
  <1>3. ASSUME NEW y \in Writers, y # x
        PROVE  writer'[y] = writer[y] /\ (Writing(y)' <=> Writing(y))
    BY <1>3 DEF Writing
  <1>4. ASSUME NEW y \in Writers, Writing(y)
        PROVE  y # x /\ writer[y].conn \in Conns /\ writer[y].conn # c
    <2>1. y # x  BY <1>4 DEF Writing
    <2>2. writer[y].conn \in Conns /\ lock[writer[y].conn] = y  BY <1>4 DEF Frames, LockOK
    <2> QED  BY <2>1, <2>2, Constants
  <1>5. LockOK'
    <2> SUFFICES ASSUME NEW y \in Writers
                 PROVE  /\ writer'[y].at = "found" => writer'[y].conn \in Conns /\ writer'[y].written = 0
                        /\ Writing(y)' =>
                             writer'[y].conn \in Conns /\ lock'[writer'[y].conn] = y
      BY DEF LockOK
    <2>1. CASE y = x  BY <1>1, <2>1 DEF Writing
    <2>2. CASE y # x  BY <1>1, <1>3, <1>4, <2>2 DEF Frames, LockOK
    <2> QED  BY <2>1, <2>2
  <1>6. Underway'
    <2> SUFFICES ASSUME NEW y \in Writers, Writing(y)'
                 PROVE  /\ Start(y)' \in Nat
                        /\ Block(y, Len(res[y]) + 1, writer[y].conn, Start(y), writer[y].written)'
      BY DEF Underway
    <2>1. CASE y # x
      <3>1. writer'[y] = writer[y] /\ Writing(y)  BY <1>3, <2>1
      <3>2. /\ Start(y) \in Nat
            /\ Block(y, Len(res[y]) + 1, writer[y].conn, Start(y), writer[y].written)
        BY <3>1 DEF Frames, Underway
      <3> QED  BY <3>1, <3>2 DEF Start, Block
    <2>2. CASE y = x
      <3>1. Len(wire[c]) \in Nat /\ Len(res[x]) \in Nat  BY OnWire, OnRecord
      <3>2. Start(x)' = Len(wire[c])  BY <1>2, <3>1 DEF Start
      <3>3. ASSUME NEW d \in Conns, NEW i \in 1 .. Len(wire[d]), wire[d][i].by = x,
                   wire[d][i].no = Len(res[x]) + 1
            PROVE  FALSE
        <4>1. wire[d][i].no <= Len(res[x]) \/ (Writing(x) /\ wire[d][i].no = Len(res[x]) + 1)
          BY <3>3 DEF Frames, Unsent
        <4>2. ~Writing(x)  BY DEF Writing
        <4> QED  BY <3>1, <3>3, <4>1, <4>2
      <3>4. Block(x, Len(res[x]) + 1, c, Len(wire[c]), 0)'
        BY <3>1, <3>3 DEF Block
      <3> QED  BY <1>2, <2>2, <3>1, <3>2, <3>4 DEF Block
    <2> QED  BY <2>1, <2>2
  <1>7. Unsent'
    <2> SUFFICES ASSUME NEW d \in Conns, NEW i \in 1 .. Len(wire[d]), NEW y, y = wire[d][i].by
                 PROVE  wire[d][i].no <= Len(res[y]) \/ (Writing(y)' /\ wire[d][i].no = Len(res[y]) + 1)
      BY DEF Unsent
    <2>1. y \in Writers  BY OnWire
    <2>2. wire[d][i].no <= Len(res[y]) \/ (Writing(y) /\ wire[d][i].no = Len(res[y]) + 1)
      BY DEF Frames, Unsent
    <2> QED  BY <1>3, <2>1, <2>2
  <1>8. Answered'
    <2>1. Answered  BY DEF Frames
    <2>2. \A y, n, d, s, m : Block(y, n, d, s, m)' = Block(y, n, d, s, m)  BY DEF Block
    <2> QED  BY <2>1, <2>2 DEF Answered
  <1>9. InOrder'  BY DEF Frames, InOrder, Placed
  <1>10. EndsWhole'
    <2> SUFFICES ASSUME NEW d \in Conns, open'[d],
                        \A y \in Writers : WritingAt(y, d)' => writer'[y].written = 0
                 PROVE  Whole(d)'
      BY DEF EndsWhole
    <2>1. ASSUME NEW y \in Writers, WritingAt(y, d)
          PROVE  writer[y].written = 0
      <3>1. y # x /\ writer'[y] = writer[y]  BY <1>3, <1>4, <2>1 DEF WritingAt
      <3> QED  BY <2>1, <3>1 DEF WritingAt, Writing
    <2> QED  BY <2>1 DEF Frames, EndsWhole, Shrinks, Whole
  <1> QED  BY <1>5, <1>6, <1>7, <1>8, <1>9, <1>10 DEF Frames

\* The frame another one is writing stays where it is.
LEMMA OthersWrite ==
    ASSUME Typed, Frames, NEW x \in Writers, NEW N, NEW c, NEW s, NEW w, At(x, N, c, s, w),
           NEW n \in Nat, Grows(x, N, c, w, n), NEW y \in Writers, y # x, Writing(y),
           writer'[y] = writer[y], res'[y] = res[y]
    PROVE  /\ Start(y)' \in Nat
           /\ Block(y, Len(res[y]) + 1, writer[y].conn, Start(y), writer[y].written)'
  <1>1. PICK M, d, t, v : At(y, M, d, t, v)  BY SomewhereAt DEF Frames
  <1>2. /\ d \in Conns /\ t \in Nat /\ v \in Nat /\ Len(wire[d]) = t + v /\ Block(y, M, d, t, v)
    BY <1>1 DEF At
  <1>3. c \in Conns /\ w \in Nat  BY DEF At
  <1>4. d # c
    <2>1. lock[d] = y  BY <1>1 DEF At, Frames, LockOK
    <2>2. lock[c] = x  BY DEF At, Frames, LockOK
    <2> QED  BY <2>1, <2>2
  <1>5. Block(y, M, d, t, v)'  BY <1>2, <1>3, BlockStays
  <1>6. wire'[d] = wire[d]  BY <1>2, <1>4 DEF Grows
  <1>7. M = Len(res'[y]) + 1 /\ d = writer'[y].conn /\ v = writer'[y].written  BY <1>1 DEF At
  <1>8. Len(wire'[d]) - v = t  BY <1>2, <1>6
  <1>9. Start(y)' = Len(wire'[d]) - v  BY <1>7 DEF Start
  <1>10. Start(y)' = t  BY <1>8, <1>9
  <1> QED  BY <1>2, <1>5, <1>7, <1>10, SMTT(30) DEF Block

\* The deadline of x's write has expired: n parts more, and it writes on.
LEMMA ResumeStep ==
    ASSUME Typed, Frames, Shrinks, NEW x \in Writers, NEW N, NEW c, NEW s, NEW w, At(x, N, c, s, w),
           NEW n \in Nat, w + n < Parts, Grows(x, N, c, w, n), open[c],
           UNCHANGED lock, UNCHANGED res,
           writer' = [writer EXCEPT ![x].written = w + n]
    PROVE  Frames'
  <1>0. /\ c \in Conns /\ s \in Nat /\ w \in Nat /\ N \in Nat /\ Len(wire[c]) = s + w
        /\ Block(x, N, c, s, w)
    BY DEF At
  <1>1. c \in Conns /\ w \in Nat /\ Writing(x) /\ c = writer[x].conn /\ N = Len(res[x]) + 1
    BY DEF At
  <1>2. /\ writer'[x] = [writer[x] EXCEPT !.written = w + n]
        /\ \A y \in Writers : y # x => writer'[y] = writer[y]
    BY DEF Typed, TypeOK
  <1>3. writer'[x].at = writer[x].at /\ writer'[x].conn = c /\ writer'[x].written = w + n
    BY <1>1, <1>2, WriterType
  <1>4. LockOK'
    <2> SUFFICES ASSUME NEW y \in Writers
                 PROVE  /\ writer'[y].at = "found" => writer'[y].conn \in Conns /\ writer'[y].written = 0
                        /\ writer'[y].at = "writing" => writer'[y].conn \in Conns /\ lock[writer'[y].conn] = y
      BY DEF LockOK, Writing
    <2>1. CASE y = x  BY <1>1, <1>3, <2>1 DEF Frames, LockOK, Writing
    <2>2. CASE y # x  BY <1>2, <2>2 DEF Frames, LockOK, Writing
    <2> QED  BY <2>1, <2>2
  <1>6. Block(x, N, c, s, w + n)' /\ Len(wire'[c]) = s + (w + n)  BY AtGrows
  <1>7. Underway'
    <2> SUFFICES ASSUME NEW y \in Writers, Writing(y)'
                 PROVE  /\ Start(y)' \in Nat
                        /\ Block(y, Len(res[y]) + 1, writer[y].conn, Start(y), writer[y].written)'
      BY DEF Underway
    <2>1. CASE y # x
      <3>1. writer'[y] = writer[y] /\ Writing(y)  BY <1>2, <2>1 DEF Writing
      <3> QED  BY <2>1, <3>1, OthersWrite
    <2>2. CASE y = x
      <3>1. Start(x)' = s  BY <1>0, <1>3, <1>6 DEF Start
      <3> QED  BY <1>0, <1>1, <1>3, <1>6, <2>2, <3>1 DEF Block
    <2> QED  BY <2>1, <2>2
  <1>8. Unsent'
    <2> SUFFICES ASSUME NEW d \in Conns, NEW i \in 1 .. Len(wire'[d]), NEW y, y = wire'[d][i].by
                 PROVE  wire'[d][i].no <= Len(res[y]) \/ (Writing(y)' /\ wire'[d][i].no = Len(res[y]) + 1)
      BY DEF Unsent
    <2>1. CASE i \in 1 .. Len(wire[d])
      <3>1. wire'[d][i] = wire[d][i]  BY <2>1 DEF Grows
      <3>2. y \in Writers  BY <2>1, <3>1, OnWire
      <3>3. wire[d][i].no <= Len(res[y]) \/ (Writing(y) /\ wire[d][i].no = Len(res[y]) + 1)
        BY <2>1, <3>1 DEF Frames, Unsent
      <3>4. Writing(y)' <=> Writing(y)  BY <1>2, <1>3, <3>2 DEF Writing
      <3> QED  BY <3>1, <3>3, <3>4
    <2>2. CASE i \notin 1 .. Len(wire[d])
      <3>0. wire'[d][i] = [by |-> x, no |-> N, k |-> w + (i - Len(wire[c]))]  BY <2>2 DEF Grows
      <3>1. wire'[d][i].by = x /\ wire'[d][i].no = N  BY <3>0
      <3> QED  BY <1>1, <1>3, <3>1 DEF Writing
    <2> QED  BY <2>1, <2>2
  <1>9. Answered'
    <2> SUFFICES ASSUME NEW y \in Writers, NEW m \in 1 .. Len(res[y])
                 PROVE  \E d \in Conns, t \in Nat, v \in Nat : Block(y, m, d, t, v)' /\ Amount(res[y][m], v)
      BY DEF Answered
    <2>1. PICK d \in Conns, t \in Nat, v \in Nat : Block(y, m, d, t, v) /\ Amount(res[y][m], v)
      BY DEF Frames, Answered
    <2>2. y # x \/ m # N  BY <1>1, OnRecord
    <2>3. Block(y, m, d, t, v)'  BY <1>1, <2>1, <2>2, BlockStays
    <2> QED  BY <2>1, <2>3
  <1>10. InOrder'  BY PlacedAfter
  <1>11. EndsWhole'
    <2> SUFFICES ASSUME NEW d \in Conns, open'[d],
                        \A y \in Writers : WritingAt(y, d)' => writer'[y].written = 0
                 PROVE  Whole(d)'
      BY DEF EndsWhole
    <2>1. wire'[d] = wire[d]
      <3>1. CASE d # c  BY <3>1 DEF Grows
      <3>2. CASE d = c
        <4>1. w + n = 0  BY <1>1, <1>3, <3>2 DEF WritingAt, Writing
        <4>2. n = 0  BY <1>1, <4>1
        <4>3. Len(wire'[c]) = Len(wire[c]) /\ \A i \in 1 .. Len(wire[c]) : wire'[c][i] = wire[c][i]
          BY <1>1, <4>2 DEF Grows
        <4>4. wire[c] \in Seq(Part) /\ wire'[c] \in Seq(Part)  BY <1>1, OnWire DEF Grows
        <4> QED  BY <3>2, <4>3, <4>4, LenProperties
      <3> QED  BY <3>1, <3>2
    <2>2. ASSUME NEW y \in Writers, WritingAt(y, d)
          PROVE  writer[y].written = 0
      <3>1. CASE y # x
        <4>1. writer'[y] = writer[y]  BY <1>2, <3>1
        <4> QED  BY <2>2, <4>1 DEF WritingAt, Writing
      <3>2. CASE y = x
        <4>1. w + n = 0  BY <1>1, <1>3, <2>2, <3>2 DEF WritingAt, Writing
        <4> QED  BY <1>1, <3>2, <4>1 DEF At
      <3> QED  BY <3>1, <3>2
    <2>3. open[d]  BY DEF Shrinks
    <2> QED  BY <2>1, <2>2, <2>3 DEF Frames, EndsWhole, Whole
  <1> QED  BY <1>4, <1>7, <1>8, <1>9, <1>10, <1>11 DEF Frames

\* Send answers r to x: after the whole frame, or with its connection closed.
LEMMA AnswerStep ==
    ASSUME Typed, Frames, Shrinks, NEW x \in Writers, NEW N, NEW c, NEW s, NEW w, At(x, N, c, s, w),
           NEW n \in Nat, w + n <= Parts, Grows(x, N, c, w, n), n = 0 \/ open[c],
           NEW r \in Answer, Amount(r, w + n), res' = [res EXCEPT ![x] = Append(res[x], r)],
           w + n = Parts \/ ~open'[c], lock' = [lock EXCEPT ![c] = None],
           writer' = [writer EXCEPT ![x] = Idle]
    PROVE  Frames'
  <1>0. /\ c \in Conns /\ s \in Nat /\ w \in Nat /\ N \in Nat /\ Len(wire[c]) = s + w
        /\ Block(x, N, c, s, w)
    BY DEF At
  <1>1. c \in Conns /\ w \in Nat /\ Writing(x) /\ c = writer[x].conn /\ N = Len(res[x]) + 1
    BY DEF At
  <1>2. writer'[x] = Idle /\ \A y \in Writers : y # x => writer'[y] = writer[y]
    BY DEF Typed, TypeOK
  <1>3. \A d \in Conns : d # c => lock'[d] = lock[d]  BY DEF Typed, TypeOK
  <1>4. /\ \A y \in Writers : y # x => res'[y] = res[y]
        /\ Len(res[x]) \in Nat /\ Len(res'[x]) = N
        /\ \A m \in 1 .. Len(res[x]) : res'[x][m] = res[x][m]
        /\ res'[x][N] = r
    BY <1>1, AnswerGiven
  <1>5. ASSUME NEW y \in Writers, y # x, Writing(y)
        PROVE  writer[y].conn \in Conns /\ writer[y].conn # c
    <2>1. writer[y].conn \in Conns /\ lock[writer[y].conn] = y  BY <1>5 DEF Frames, LockOK
    <2>2. lock[c] = x  BY <1>1 DEF Frames, LockOK
    <2> QED  BY <1>5, <2>1, <2>2
  <1>6. ~Writing(x)'  BY <1>2 DEF Writing, Idle
  <1>7. LockOK'
    <2> SUFFICES ASSUME NEW y \in Writers
                 PROVE  /\ writer'[y].at = "found" => writer'[y].conn \in Conns /\ writer'[y].written = 0
                        /\ writer'[y].at = "writing" =>
                             writer'[y].conn \in Conns /\ lock'[writer'[y].conn] = y
      BY DEF LockOK, Writing
    <2>1. CASE y = x  BY <1>2, <2>1 DEF Idle
    <2>2. CASE y # x  BY <1>2, <1>3, <1>5, <2>2 DEF Frames, LockOK, Writing
    <2> QED  BY <2>1, <2>2
  <1>8. Block(x, N, c, s, w + n)' /\ Len(wire'[c]) = s + (w + n)  BY AtGrows
  <1>9. Underway'
    <2> SUFFICES ASSUME NEW y \in Writers, Writing(y)'
                 PROVE  /\ Start(y)' \in Nat
                        /\ Block(y, Len(res[y]) + 1, writer[y].conn, Start(y), writer[y].written)'
      BY DEF Underway
    <2>1. y # x  BY <1>6
    <2>2. writer'[y] = writer[y] /\ Writing(y) /\ res'[y] = res[y]  BY <1>2, <1>4, <2>1 DEF Writing
    <2> QED  BY <2>1, <2>2, OthersWrite
  <1>10. Unsent'
    <2> SUFFICES ASSUME NEW d \in Conns, NEW i \in 1 .. Len(wire'[d]), NEW y, y = wire'[d][i].by
                 PROVE  wire'[d][i].no <= Len(res'[y]) \/ (Writing(y)' /\ wire'[d][i].no = Len(res'[y]) + 1)
      BY DEF Unsent
    <2>1. CASE i \in 1 .. Len(wire[d])
      <3>1. wire'[d][i] = wire[d][i]  BY <2>1 DEF Grows
      <3>2. y \in Writers /\ wire[d][i].no \in Nat  BY <2>1, <3>1, OnWire
      <3>3. wire[d][i].no <= Len(res[y]) \/ (Writing(y) /\ wire[d][i].no = Len(res[y]) + 1)
        BY <2>1, <3>1 DEF Frames, Unsent
      <3>4. CASE y = x  BY <1>1, <1>4, <3>1, <3>2, <3>3, <3>4
      <3>5. CASE y # x
        <4>1. res'[y] = res[y] /\ (Writing(y)' <=> Writing(y))  BY <1>2, <1>4, <3>2, <3>5 DEF Writing
        <4> QED  BY <3>1, <3>3, <4>1
      <3> QED  BY <3>4, <3>5
    <2>2. CASE i \notin 1 .. Len(wire[d])
      <3>0. wire'[d][i] = [by |-> x, no |-> N, k |-> w + (i - Len(wire[c]))]  BY <2>2 DEF Grows
      <3>1. wire'[d][i].by = x /\ wire'[d][i].no = N  BY <3>0
      <3> QED  BY <1>1, <1>4, <3>1
    <2> QED  BY <2>1, <2>2
  <1>11. Answered'
    <2> SUFFICES ASSUME NEW y \in Writers, NEW m \in 1 .. Len(res'[y])
                 PROVE  \E d \in Conns, t \in Nat, v \in Nat : Block(y, m, d, t, v)' /\ Amount(res'[y][m], v)
      BY DEF Answered
    <2>1. CASE y # x \/ m # N
      <3>1. m \in 1 .. Len(res[y]) /\ res'[y][m] = res[y][m]  BY <1>1, <1>4, <2>1
      <3>2. PICK d \in Conns, t \in Nat, v \in Nat : Block(y, m, d, t, v) /\ Amount(res[y][m], v)
        BY <3>1 DEF Frames, Answered
      <3>3. Block(y, m, d, t, v)'  BY <1>1, <2>1, <3>2, BlockStays
      <3> QED  BY <3>1, <3>2, <3>3
    <2>2. CASE y = x /\ m = N
      <3>1. w + n \in Nat  BY <1>1
      <3>2. Block(y, m, c, s, w + n)'  BY <1>8, <2>2
      <3>3. Amount(res'[y][m], w + n)  BY <1>4, <2>2
      <3> QED  BY <1>0, <3>1, <3>2, <3>3
    <2> QED  BY <2>1, <2>2
  <1>12. InOrder'  BY PlacedAfter
  <1>13. EndsWhole'
    <2> SUFFICES ASSUME NEW d \in Conns, open'[d],
                        \A y \in Writers : WritingAt(y, d)' => writer'[y].written = 0
                 PROVE  Whole(d)'
      BY DEF EndsWhole
    <2>1. CASE d = c
      <3>1. w + n = Parts  BY <2>1
      <3>2. Parts \in Nat /\ Parts >= 1  BY Constants
      <3>3. Parts \in 1 .. w + n  BY <3>1, <3>2
      <3>4. wire'[c][s + Parts] = [by |-> x, no |-> N, k |-> Parts]  BY <1>8, <3>3 DEF Block
      <3>5. Len(wire'[c]) = s + Parts  BY <1>8, <3>1
      <3> QED  BY <2>1, <3>4, <3>5 DEF Whole
    <2>2. CASE d # c
      <3>1. wire'[d] = wire[d]  BY <2>2 DEF Grows
      <3>2. ASSUME NEW y \in Writers, WritingAt(y, d)
            PROVE  writer[y].written = 0
        <4>1. y # x  BY <1>1, <2>2, <3>2 DEF WritingAt
        <4>2. writer'[y] = writer[y]  BY <1>2, <4>1
        <4> QED  BY <3>2, <4>2 DEF WritingAt, Writing
      <3>3. open[d]  BY DEF Shrinks
      <3> QED  BY <3>1, <3>2, <3>3 DEF Frames, EndsWhole, Whole
    <2> QED  BY <2>1, <2>2
  <1> QED  BY <1>7, <1>9, <1>10, <1>11, <1>12, <1>13 DEF Frames

-----------------------------------------------------------------------------
(* The actions that send.                                                  *)

WriterRecord == [at : {"idle", "found", "writing"}, conn : Conns \cup {None}, written : 0 .. Parts - 1]

\* Types of what a send changes.
SendTyped ==
    /\ writer \in [Writers -> WriterRecord]
    /\ lock \in [Conns -> Writers \cup {None}]
    /\ res \in [Writers -> Seq(Answer)]
    /\ wire \in [Conns -> Seq(Part)]

\* Types imply those of what a send changes.
LEMMA SendTypes == Typed => SendTyped
  BY DEF Typed, TypeOK, SendTyped, WriterRecord

\* Idle is a state of a writer.
LEMMA IdleTyped == Idle \in WriterRecord
  BY Constants DEF Idle, WriterRecord

\* A send that does not begin, or begins.
LEMMA LookupOK ==
    ASSUME Typed, Frames, Shrinks, NEW x \in Writers, Lookup(x)
    PROVE  SendTyped' /\ Frames'
  <1>1. SendTyped  BY SendTypes
  <1>2. writer[x].at = "idle"  BY DEF Lookup, Busy
  <1>3. UNCHANGED lock /\ UNCHANGED wire  BY DEF Lookup
  <1>4. CASE registry = None
    <2>1. res' = [res EXCEPT ![x] = Append(res[x], "not_ready")] /\ UNCHANGED writer
      BY <1>4 DEF Lookup
    <2>2. res' \in [Writers -> Seq(Answer)]  BY <2>1, AnswerGiven DEF Answer
    <2>3. ~Writing(x) /\ writer'[x].at \notin {"found", "writing"}  BY <1>2, <2>1 DEF Writing
    <2>4. Frames'  BY <1>3, <2>1, <2>3, RefusedStep
    <2> QED  BY <1>1, <1>3, <2>1, <2>2, <2>4 DEF SendTyped
  <1>5. CASE registry # None
    <2>1. /\ writer' = [writer EXCEPT ![x] = [Idle EXCEPT !.at = "found", !.conn = registry]]
          /\ UNCHANGED res
      BY <1>5 DEF Lookup
    <2>2. registry \in Conns  BY <1>5 DEF Typed, TypeOK
    <2>3. [Idle EXCEPT !.at = "found", !.conn = registry] \in WriterRecord
      BY <2>2, IdleTyped DEF WriterRecord
    <2>4. writer' \in [Writers -> WriterRecord]  BY <1>1, <2>1, <2>3 DEF SendTyped
    <2>5. writer'[x] = [Idle EXCEPT !.at = "found", !.conn = registry]  BY <1>1, <2>1 DEF SendTyped
    <2>6. writer'[x].at = "found" /\ writer'[x].conn \in Conns /\ writer'[x].written = 0
      BY <2>2, <2>5 DEF Idle
    <2>7. \A y \in Writers : y # x => writer'[y] = writer[y]  BY <1>1, <2>1 DEF SendTyped
    <2>8. Frames'  BY <1>2, <1>3, <2>1, <2>6, <2>7, FoundStep
    <2> QED  BY <1>1, <1>3, <2>1, <2>4, <2>8 DEF SendTyped
  <1> QED  BY <1>4, <1>5

\* Session.Send takes the lock, or finds the session closed.
LEMMA LockActionOK ==
    ASSUME Typed, Frames, NEW x \in Writers, Lock(x)
    PROVE  SendTyped' /\ Frames'
  <1>1. SendTyped  BY SendTypes
  <1>2. writer[x].at = "found" /\ UNCHANGED wire /\ Shrinks  BY DEF Lock, Shrinks
  <1>3. writer[x].conn \in Conns /\ writer[x].written = 0 /\ writer[x] \in WriterRecord
    BY <1>1, <1>2 DEF Frames, LockOK, SendTyped
  <1>4. CASE Answers(x, "not_ready") /\ UNCHANGED lock
    <2>1. /\ res' = [res EXCEPT ![x] = Append(res[x], "not_ready")]
          /\ writer' = [writer EXCEPT ![x] = Idle]
      BY <1>4 DEF Answers
    <2>2. res' \in [Writers -> Seq(Answer)]  BY <2>1, AnswerGiven DEF Answer
    <2>3. /\ writer' \in [Writers -> WriterRecord] /\ writer'[x] = Idle
          /\ \A y \in Writers : y # x => writer'[y] = writer[y]
      BY <1>1, <2>1, IdleTyped DEF SendTyped
    <2>4. ~Writing(x) /\ writer'[x].at \notin {"found", "writing"}  BY <1>2, <2>3 DEF Writing, Idle
    <2>5. Frames'  BY <1>2, <1>4, <2>1, <2>3, <2>4, RefusedStep
    <2> QED  BY <1>1, <1>2, <1>4, <2>2, <2>3, <2>5 DEF SendTyped
  <1>5. CASE /\ MutexFree(writer[x].conn)
             /\ lock' = [lock EXCEPT ![writer[x].conn] = x]
             /\ writer' = [writer EXCEPT ![x].at = "writing"]
             /\ UNCHANGED res
    <2>1. writer'[x] = [writer[x] EXCEPT !.at = "writing"]  BY <1>1, <1>5 DEF SendTyped
    <2>2. \A y \in Writers : y # x => writer'[y] = writer[y]  BY <1>1, <1>5 DEF SendTyped
    <2>3. /\ writer'[x] \in WriterRecord /\ writer'[x].at = "writing"
          /\ writer'[x].conn = writer[x].conn /\ writer'[x].written = writer[x].written
      BY <1>3, <2>1 DEF WriterRecord
    <2>4. writer' \in [Writers -> WriterRecord]  BY <1>1, <1>5, <2>1, <2>3 DEF SendTyped
    <2>5. lock' \in [Conns -> Writers \cup {None}]  BY <1>1, <1>5 DEF SendTyped
    <2>6. lock[writer[x].conn] = None  BY <1>5 DEF MutexFree
    <2>7. Frames'  BY <1>2, <1>3, <1>5, <2>2, <2>3, <2>6, LockStep DEF Writing
    <2> QED  BY <1>1, <1>2, <1>5, <2>4, <2>5, <2>7 DEF SendTyped
  <1> QED  BY <1>4, <1>5 DEF Lock

\* Send answers and is idle again.
LEMMA AnswersTyped ==
    ASSUME Typed, NEW x \in Writers, NEW c \in Conns, NEW r \in Answer, Answers(x, r),
           lock' = [lock EXCEPT ![c] = None], wire' \in [Conns -> Seq(Part)]
    PROVE  SendTyped'
  <1>1. SendTyped  BY SendTypes
  <1>2. res' = [res EXCEPT ![x] = Append(res[x], r)] /\ writer' = [writer EXCEPT ![x] = Idle]
    BY DEF Answers
  <1>3. res' \in [Writers -> Seq(Answer)]  BY <1>2, AnswerGiven
  <1>4. writer' \in [Writers -> WriterRecord]  BY <1>1, <1>2, IdleTyped DEF SendTyped
  <1>5. lock' \in [Conns -> Writers \cup {None}]  BY <1>1 DEF SendTyped
  <1> QED  BY <1>3, <1>4, <1>5 DEF SendTyped

\* The connection takes the rest of the frame.
LEMMA WriteAllOK ==
    ASSUME Typed, Frames, NEW x \in Writers, WriteAll(x)
    PROVE  SendTyped' /\ Frames'
  <1>1. Writing(x) /\ UNCHANGED open  BY DEF WriteAll, Writing
  <1>2. PICK N, c, s, w : At(x, N, c, s, w)  BY <1>1, SomewhereAt DEF Frames
  <1>3. c \in Conns /\ w \in Nat /\ c = writer[x].conn /\ w = writer[x].written  BY <1>2 DEF At
  <1>4. PICK n \in Nat : n = Rest(x) /\ w + n = Parts  BY <1>3, WriterType
  <1>5. /\ open[c] /\ Take(x, n) /\ lock' = [lock EXCEPT ![c] = None] /\ Answers(x, "ok")
    BY <1>3, <1>4 DEF WriteAll
  <1>6. Parts \in Nat /\ n <= Rest(x)  BY <1>4, Constants
  <1>7. Grows(x, N, c, w, n)  BY <1>2, <1>5, <1>6, TakeGrows
  <1>8. Shrinks  BY <1>1 DEF Shrinks
  <1>9. "ok" \in Answer /\ Amount("ok", w + n)  BY <1>4 DEF Answer, Amount
  <1>10. /\ res' = [res EXCEPT ![x] = Append(res[x], "ok")]
         /\ writer' = [writer EXCEPT ![x] = Idle]
    BY <1>5 DEF Answers
  <1>11. w + n <= Parts  BY <1>4, <1>6
  <1>12. Frames'  BY <1>2, <1>4, <1>5, <1>7, <1>8, <1>9, <1>10, <1>11, AnswerStep
  <1>13. wire' \in [Conns -> Seq(Part)]  BY <1>7 DEF Grows
  <1>14. SendTyped'  BY <1>3, <1>5, <1>9, <1>13, AnswersTyped
  <1> QED  BY <1>12, <1>14

\* The deadline expires.
LEMMA WriteTimesOutOK ==
    ASSUME Typed, Frames, NEW x \in Writers, WriteTimesOut(x)
    PROVE  SendTyped' /\ Frames'
  <1>0. SendTyped  BY SendTypes
  <1>1. Writing(x) /\ UNCHANGED open /\ UNCHANGED lock /\ UNCHANGED res  BY DEF WriteTimesOut, Writing
  <1>2. PICK N, c, s, w : At(x, N, c, s, w)  BY <1>1, SomewhereAt DEF Frames
  <1>3. c \in Conns /\ w \in Nat /\ c = writer[x].conn /\ w = writer[x].written  BY <1>2 DEF At
  <1>4. Rest(x) \in Nat /\ w + Rest(x) = Parts /\ Parts \in Nat  BY <1>3, WriterType, Constants
  <1>5. PICK n \in 0 .. Rest(x) - 1 : Take(x, n) /\ writer' = [writer EXCEPT ![x].written = Resumed(x, n)]
    BY DEF WriteTimesOut
  <1>6. Resumed(x, n) = w + n  BY <1>3 DEF Resumed
  <1>7. n \in Nat /\ n <= Rest(x) /\ w + n < Parts /\ w + n \in 0 .. Parts - 1  BY <1>3, <1>4, <1>5
  <1>8. writer' = [writer EXCEPT ![x].written = w + n]  BY <1>5, <1>6
  <1>9. Grows(x, N, c, w, n)  BY <1>2, <1>5, <1>7, TakeGrows
  <1>10. open[c] /\ Shrinks  BY <1>1, <1>3 DEF WriteTimesOut, Shrinks
  <1>11. Frames'  BY <1>1, <1>2, <1>7, <1>8, <1>9, <1>10, ResumeStep
  <1>12. writer' \in [Writers -> WriterRecord]
    <2>1. writer \in [Writers -> WriterRecord] /\ writer[x] \in WriterRecord  BY <1>0 DEF SendTyped
    <2>2. [writer[x] EXCEPT !.written = w + n] \in WriterRecord  BY <1>7, <2>1 DEF WriterRecord
    <2> QED  BY <1>8, <2>1, <2>2
  <1>13. wire' \in [Conns -> Seq(Part)]  BY <1>9 DEF Grows
  <1> QED  BY <1>0, <1>1, <1>11, <1>12, <1>13 DEF SendTyped

\* The connection fails, and the session with it.
LEMMA WriteFailsOK ==
    ASSUME Typed, Frames, NEW x \in Writers, WriteFails(x)
    PROVE  SendTyped' /\ Frames'
  <1>1. Writing(x) /\ Fatal(x)  BY DEF WriteFails, Writing
  <1>2. PICK N, c, s, w : At(x, N, c, s, w)  BY <1>1, SomewhereAt DEF Frames
  <1>3. c \in Conns /\ w \in Nat /\ c = writer[x].conn /\ w = writer[x].written  BY <1>2 DEF At
  <1>4. Rest(x) \in Nat /\ w + Rest(x) = Parts /\ Parts \in Nat /\ Rest(x) >= 1
    BY <1>3, WriterType, Constants
  <1>5. PICK n \in Nat : w + n < Parts /\ Grows(x, N, c, w, n) /\ (n = 0 \/ open[c])
    <2>1. CASE open[writer[x].conn] /\ \E n \in 0 .. Rest(x) - 1 : Take(x, n)
      <3>1. PICK n \in 0 .. Rest(x) - 1 : Take(x, n)  BY <2>1
      <3>2. n \in Nat /\ n <= Rest(x) /\ w + n < Parts  BY <1>3, <1>4, <3>1
      <3>3. Grows(x, N, c, w, n)  BY <1>2, <3>1, <3>2, TakeGrows
      <3> QED  BY <1>3, <2>1, <3>2, <3>3
    <2>2. CASE UNCHANGED wire
      <3>1. Grows(x, N, c, w, 0)  BY <1>3, <2>2, NoneGrows
      <3>2. w + 0 < Parts  BY <1>3, <1>4
      <3> QED  BY <3>1, <3>2
    <2> QED  BY <2>1, <2>2 DEF WriteFails
  <1>6. /\ open' = [open EXCEPT ![c] = FALSE] /\ lock' = [lock EXCEPT ![c] = None]
        /\ Answers(x, "fatal")
    BY <1>1, <1>3 DEF Fatal, CloseSession
  <1>7. /\ res' = [res EXCEPT ![x] = Append(res[x], "fatal")]
        /\ writer' = [writer EXCEPT ![x] = Idle]
    BY <1>6 DEF Answers
  <1>8. ~open'[c] /\ Shrinks  BY <1>3, <1>6 DEF Shrinks, Typed, TypeOK
  <1>9. "fatal" \in Answer /\ Amount("fatal", w + n)  BY <1>5 DEF Answer, Amount
  <1>10. w + n <= Parts  BY <1>3, <1>4, <1>5
  <1>11. Frames'  BY <1>2, <1>5, <1>6, <1>7, <1>8, <1>9, <1>10, AnswerStep
  <1>12. wire' \in [Conns -> Seq(Part)]  BY <1>5 DEF Grows
  <1>13. SendTyped'  BY <1>3, <1>6, <1>9, <1>12, AnswersTyped
  <1> QED  BY <1>11, <1>13

-----------------------------------------------------------------------------
(* Every step keeps the types and Frames.                                  *)

Places == {"none", "accepted", "handshake", "known", "displacing", "reading",
           "draining", "remove", "untrack", "close", "done"}

\* Types of the node's, the server's and the connections' state.
ServerTyped ==
    /\ cur \in Conns \cup {None} /\ registry \in Conns \cup {None}
    /\ open \in [Conns -> BOOLEAN] /\ broken \in [Conns -> BOOLEAN] /\ closed \in [Conns -> BOOLEAN]
    /\ medium \in Media /\ closing \in BOOLEAN /\ conns \subseteq Conns
    /\ handler \in [Conns -> Places]
    /\ prev \in [Conns -> Conns \cup {None}]

\* The types, in their two parts.
LEMMA TypesSplit == Typed <=> ServerTyped /\ SendTyped
  BY DEF Typed, TypeOK, ServerTyped, SendTyped, WriterRecord, Places

\* The same of the next state.
LEMMA TypesSplitNext == ServerTyped' /\ SendTyped' => Typed'
  BY DEF Typed, TypeOK, ServerTyped, SendTyped, WriterRecord, Places

\* What is not sent leaves the types of sending alone.
LEMMA SendTypesStay ==
    ASSUME SendTyped, UNCHANGED sending
    PROVE  SendTyped' /\ UNCHANGED writer /\ UNCHANGED lock /\ UNCHANGED wire /\ UNCHANGED res
  BY DEF SendTyped, sending

\* The node's steps.
LEMMA NodeStep ==
    ASSUME ServerTyped, NEW c \in Conns, Dial(c) \/ Leave \/ Notice
    PROVE  ServerTyped' /\ Shrinks /\ UNCHANGED sending
  <1>1. CASE Dial(c)
    BY <1>1 DEF ServerTyped, Dial, Shrinks, Places
  <1>2. CASE Leave \/ Notice
    <2>1. Leave  BY <1>2 DEF Notice
    <2> QED  BY <2>1 DEF ServerTyped, Leave, Shrinks, server
  <1> QED  BY <1>1, <1>2

\* The steps of handleConn up to the registration.
LEMMA BeginStep ==
    ASSUME ServerTyped, NEW c \in Conns, Track(c) \/ Handshake(c) \/ Register(c)
    PROVE  ServerTyped' /\ Shrinks /\ UNCHANGED sending
  <1>1. CASE Track(c)
    BY <1>1 DEF ServerTyped, Track, Goto, Shrinks, Places
  <1>2. CASE Handshake(c)
    BY <1>2 DEF ServerTyped, Handshake, Goto, Shrinks, Places
  <1>3. CASE Register(c)
    BY <1>3 DEF ServerTyped, Register, Goto, Shrinks, Places
  <1> QED  BY <1>1, <1>2, <1>3

\* The steps of handleConn that close and clean up, and Server.Close.
LEMMA EndStep ==
    ASSUME ServerTyped, NEW c \in Conns,
           Displace(c) \/ RemoveSession(c) \/ Untrack(c) \/ Finish(c) \/ Close
    PROVE  ServerTyped' /\ Shrinks /\ UNCHANGED sending
  <1>1. CASE Displace(c)
    BY <1>1 DEF ServerTyped, Displace, CloseDisplaced, CloseSession, Goto, Shrinks, Places
  <1>2. CASE RemoveSession(c)
    BY <1>2 DEF ServerTyped, RemoveSession, WithoutSession, Goto, Shrinks, Places
  <1>3. CASE Untrack(c)
    BY <1>3 DEF ServerTyped, Untrack, Goto, Shrinks, Places
  <1>4. CASE Finish(c)
    BY <1>4 DEF ServerTyped, Finish, CloseSession, Goto, Shrinks, Places
  <1>5. CASE Close
    <2>1. open' \in [Conns -> BOOLEAN] /\ Shrinks  BY <1>5 DEF ServerTyped, Close, Shrinks
    <2> QED  BY <1>5, <2>1 DEF ServerTyped, Close
  <1> QED  BY <1>1, <1>2, <1>3, <1>4, <1>5

\* The steps of readLoop.
LEMMA ReadStep ==
    ASSUME ServerTyped, NEW c \in Conns, Read(c) \/ ReadFails(c) \/ Drain(c)
    PROVE  ServerTyped' /\ Shrinks
  <1>1. CASE Read(c)
    BY <1>1 DEF ServerTyped, Read, Goto, Shrinks, Places
  <1>2. CASE ReadFails(c)
    BY <1>2 DEF ServerTyped, ReadFails, ReadEnds, Goto, Shrinks, Places
  <1>3. CASE Drain(c)
    <2>1. /\ UNCHANGED cur /\ UNCHANGED broken /\ UNCHANGED medium /\ UNCHANGED closed
          /\ UNCHANGED prev /\ UNCHANGED conns /\ UNCHANGED closing /\ UNCHANGED registry
      BY <1>3 DEF Drain
    <2>2. \/ handler' = [handler EXCEPT ![c] = "remove"] /\ open' = [open EXCEPT ![c] = FALSE]
          \/ handler' = [handler EXCEPT ![c] = "reading"] /\ UNCHANGED open
          \/ UNCHANGED handler /\ UNCHANGED open
      BY <1>3 DEF Drain, ReadEnds, Goto
    <2>3. handler' \in [Conns -> Places]  BY <2>2 DEF ServerTyped, Places
    <2>4. open' \in [Conns -> BOOLEAN] /\ Shrinks  BY <2>2 DEF ServerTyped, Shrinks
    <2> QED  BY <2>1, <2>3, <2>4 DEF ServerTyped
  <1> QED  BY <1>1, <1>2, <1>3

\* A turn of the inner loop sends nothing, or looks the session up.
LEMMA DrainSends ==
    ASSUME NEW c \in Conns, Drain(c)
    PROVE  UNCHANGED sending \/ Lookup(c)
  BY DEF Drain

\* The steps of a sender, as far as the server is concerned.
LEMMA SenderStep ==
    ASSUME ServerTyped, LockOK, NEW x \in Writers, StartSend(x) \/ Lock(x) \/ Write(x)
    PROVE  ServerTyped' /\ Shrinks
  <1>1. CASE StartSend(x)
    BY <1>1 DEF ServerTyped, StartSend, Shrinks, server
  <1>2. CASE Lock(x)
    BY <1>2 DEF ServerTyped, Lock, Shrinks, server
  <1>3. CASE WriteAll(x)
    BY <1>3 DEF ServerTyped, WriteAll, Shrinks, server
  <1>4. CASE WriteTimesOut(x)
    <2>1. broken' \in [Conns -> BOOLEAN]
      <3>1. broken' = [broken EXCEPT ![writer[x].conn] = (medium = "permanent")]
        BY <1>4 DEF WriteTimesOut
      <3>2. (medium = "permanent") \in BOOLEAN  OBVIOUS
      <3> QED  BY <3>1, <3>2 DEF ServerTyped
    <2> QED  BY <1>4, <2>1 DEF ServerTyped, WriteTimesOut, Shrinks, server
  <1>5. CASE WriteFails(x)
    <2>1. /\ closed' = [closed EXCEPT ![writer[x].conn] = TRUE]
          /\ open' = [open EXCEPT ![writer[x].conn] = FALSE]
      BY <1>5 DEF WriteFails, Fatal, CloseSession
    <2>2. closed' \in [Conns -> BOOLEAN] /\ open' \in [Conns -> BOOLEAN] /\ Shrinks
      BY <2>1 DEF ServerTyped, Shrinks
    <2> QED  BY <1>5, <2>2 DEF ServerTyped, WriteFails, server
  <1> QED  BY <1>1, <1>2, <1>3, <1>4, <1>5 DEF Write

\* The types and Frames are kept by every step.
LEMMA FramesNext == Typed /\ Frames /\ [Next]_vars => Typed' /\ Frames'
  <1> SUFFICES ASSUME Typed, Frames, [Next]_vars  PROVE Typed' /\ Frames'
    OBVIOUS
  <1>1. ServerTyped /\ SendTyped  BY TypesSplit
  <1>2. ASSUME ServerTyped', Shrinks, UNCHANGED sending
        PROVE  Typed' /\ Frames'
    <2>1. SendTyped' /\ UNCHANGED writer /\ UNCHANGED lock /\ UNCHANGED wire /\ UNCHANGED res
      BY <1>1, <1>2, SendTypesStay
    <2> QED  BY <1>2, <2>1, TypesSplitNext, OtherStep
  <1>3. ASSUME ServerTyped', SendTyped' /\ Frames'
        PROVE  Typed' /\ Frames'
    BY <1>3, TypesSplitNext
  <1>4. CASE Leave \/ Notice
    <2>1. 1 \in Conns  BY TransportAssumption DEF Conns
    <2> QED  BY <1>1, <1>2, <1>4, <2>1, NodeStep
  <1>5. CASE Close
    <2>1. 1 \in Conns  BY TransportAssumption DEF Conns
    <2> QED  BY <1>1, <1>2, <1>5, <2>1, EndStep
  <1>6. ASSUME NEW c \in Conns, Dial(c) \/ Serving(c) \/ Read(c)
        PROVE  Typed' /\ Frames'
    <2>1. CASE Dial(c)  BY <1>1, <1>2, <2>1, NodeStep
    <2>2. CASE Track(c) \/ Handshake(c) \/ Register(c)  BY <1>1, <1>2, <2>2, BeginStep
    <2>3. CASE Displace(c) \/ RemoveSession(c) \/ Untrack(c) \/ Finish(c)
      BY <1>1, <1>2, <2>3, EndStep
    <2>4. CASE Read(c) \/ ReadFails(c)
      <3>1. ServerTyped' /\ Shrinks  BY <1>1, <2>4, ReadStep
      <3>2. UNCHANGED sending  BY <2>4 DEF Read, ReadFails
      <3> QED  BY <1>2, <3>1, <3>2
    <2>5. CASE Drain(c)
      <3>1. ServerTyped' /\ Shrinks  BY <1>1, <2>5, ReadStep
      <3>2. CASE UNCHANGED sending  BY <1>2, <3>1, <3>2
      <3>3. CASE Lookup(c)
        <4>1. c \in Writers  BY Constants
        <4> QED  BY <1>3, <3>1, <3>3, <4>1, LookupOK
      <3> QED  BY <2>5, <3>2, <3>3, DrainSends
    <2> QED  BY <1>6, <2>1, <2>2, <2>3, <2>4, <2>5 DEF Serving
  <1>7. ASSUME NEW x \in Senders, StartSend(x)
        PROVE  Typed' /\ Frames'
    <2>1. x \in Writers /\ Lookup(x)  BY <1>7 DEF Writers, StartSend
    <2>2. ServerTyped' /\ Shrinks  BY <1>1, <1>7, <2>1, SenderStep DEF Frames
    <2> QED  BY <1>3, <2>1, <2>2, LookupOK
  <1>8. ASSUME NEW x \in Writers, Sending(x)
        PROVE  Typed' /\ Frames'
    <2>1. Lock(x) \/ Write(x)  BY <1>8 DEF Sending
    <2>2. ServerTyped'  BY <1>1, <2>1, SenderStep DEF Frames
    <2>3. SendTyped' /\ Frames'
      BY <2>1, LockActionOK, WriteAllOK, WriteTimesOutOK, WriteFailsOK DEF Write
    <2> QED  BY <1>3, <2>2, <2>3
  <1>9. CASE UNCHANGED vars
    <2>1. UNCHANGED sending  BY <1>9 DEF vars
    <2>2. ServerTyped'  BY <1>1, <1>9 DEF ServerTyped, vars, server
    <2>3. Shrinks  BY <1>9 DEF Shrinks, vars
    <2> QED  BY <1>2, <2>1, <2>2, <2>3
  <1> QED  BY <1>4, <1>5, <1>6, <1>7, <1>8, <1>9 DEF Next

\* ... and hold at the start.
LEMMA FramesInit == Init => Typed /\ Frames
  <1> SUFFICES ASSUME Init  PROVE Typed /\ Frames
    OBVIOUS
  <1>1. ServerTyped  BY Constants DEF Init, ServerTyped, Places
  <1>2. writer \in [Writers -> WriterRecord]  BY IdleTyped DEF Init
  <1>3. /\ res = [x \in Writers |-> <<>>] /\ wire = [c \in Conns |-> <<>>]
        /\ lock = [c \in Conns |-> None] /\ writer = [x \in Writers |-> Idle]
    BY DEF Init
  <1>4. /\ \A x \in Writers : res[x] = <<>> /\ writer[x].at = "idle"
        /\ \A c \in Conns : wire[c] = <<>>
    BY <1>3 DEF Idle
  <1>5. SendTyped  BY <1>2, <1>3, EmptySeq DEF SendTyped
  <1>6. Typed  BY <1>1, <1>5, TypesSplit
  <1>7. \A c \in Conns : Len(wire[c]) = 0  BY <1>4, EmptySeq
  <1>8. \A x \in Writers : Len(res[x]) = 0  BY <1>4, EmptySeq
  <1>9. LockOK  BY <1>4 DEF LockOK, Writing
  <1>10. Underway  BY <1>4 DEF Underway, Writing
  <1>11. Unsent  BY <1>7 DEF Unsent
  <1>12. Answered  BY <1>8 DEF Answered
  <1>13. InOrder  BY <1>7 DEF InOrder
  <1>14. EndsWhole  BY <1>7 DEF EndsWhole, Whole
  <1> QED  BY <1>6, <1>9, <1>10, <1>11, <1>12, <1>13, <1>14 DEF Frames

-----------------------------------------------------------------------------
(* Who can be reached.                                                     *)

\* A handler moves, and neither begins nor ends a displacement or a service but by
\* closing its connection.
Moves ==
    /\ \A d \in Conns : handler[d] = "displacing" => handler'[d] = "displacing"
    /\ \A d \in Conns : handler'[d] \in InService => handler[d] \in InService
    /\ \A d \in Conns : handler[d] \in InService => handler'[d] \in InService \/ ~open'[d]

\* The steps that move a handler and leave the registry alone.
LEMMA OtherMoves ==
    ASSUME ServerTyped, NEW c \in Conns,
           \/ Dial(c) \/ Leave \/ Notice \/ Track(c) \/ Handshake(c) \/ Untrack(c) \/ Finish(c)
           \/ Close \/ Read(c) \/ ReadFails(c) \/ Drain(c)
    PROVE  Moves /\ UNCHANGED registry /\ UNCHANGED prev
  <1>1. CASE Dial(c)
    BY <1>1 DEF ServerTyped, Dial, Moves, InService
  <1>2. CASE Leave \/ Notice
    <2>1. Leave  BY <1>2 DEF Notice
    <2> QED  BY <2>1 DEF Leave, server, Moves, InService
  <1>3. CASE Track(c)
    BY <1>3 DEF ServerTyped, Track, Goto, Moves, InService
  <1>4. CASE Handshake(c)
    BY <1>4 DEF ServerTyped, Handshake, Goto, Moves, InService
  <1>5. CASE Untrack(c)
    BY <1>5 DEF ServerTyped, Untrack, Goto, Moves, InService
  <1>6. CASE Finish(c)
    BY <1>6 DEF ServerTyped, Finish, Goto, Moves, InService
  <1>7. CASE Close
    BY <1>7 DEF Close, Moves, InService
  <1>8. CASE Read(c)
    BY <1>8 DEF ServerTyped, Read, Goto, Moves, InService
  <1>9. CASE ReadFails(c)
    BY <1>9 DEF ServerTyped, ReadFails, ReadEnds, Goto, Moves, InService
  <1>10. CASE Drain(c)
    <2>1. UNCHANGED registry /\ UNCHANGED prev /\ handler[c] = "draining"  BY <1>10 DEF Drain
    <2>2. \/ handler' = [handler EXCEPT ![c] = "remove"] /\ open' = [open EXCEPT ![c] = FALSE]
          \/ handler' = [handler EXCEPT ![c] = "reading"] /\ UNCHANGED open
          \/ UNCHANGED handler /\ UNCHANGED open
      BY <1>10 DEF Drain, ReadEnds, Goto
    <2> QED  BY <2>1, <2>2 DEF ServerTyped, Moves, InService
  <1> QED  BY <1>1, <1>2, <1>3, <1>4, <1>5, <1>6, <1>7, <1>8, <1>9, <1>10

\* Such a step keeps Reached.
LEMMA ReachedStays ==
    ASSUME Reached, Shrinks, Moves, UNCHANGED registry, UNCHANGED prev
    PROVE  Reached'
  <1> SUFFICES ASSUME NEW c \in Conns, handler'[c] \in InService, open'[c]
               PROVE  registry' = c \/ Displaced(c)'
    BY DEF Reached
  <1>1. registry = c \/ Displaced(c)  BY DEF Reached, Shrinks, Moves
  <1> QED  BY <1>1 DEF Displaced, Moves

\* Registry.Register: the newcomer displaces the session that was there.
LEMMA RegisterStep ==
    ASSUME ServerTyped, Reached, NEW c \in Conns, Register(c)
    PROVE  /\ Reached' /\ Served(c)' /\ registry' = c
           /\ \A d \in Conns : handler[d] \in InService => handler'[d] \in InService
  <1>1. /\ registry' = c /\ handler[c] = "known" /\ UNCHANGED open
        /\ prev'[c] = registry /\ \A d \in Conns : d # c => prev'[d] = prev[d] /\ handler'[d] = handler[d]
        /\ handler'[c] = IF registry = None THEN "reading" ELSE "displacing"
    BY DEF ServerTyped, Register, Goto
  <1>2. Reached'
    <2> SUFFICES ASSUME NEW d \in Conns, handler'[d] \in InService, open'[d]
                 PROVE  registry' = d \/ Displaced(d)'
      BY DEF Reached
    <2>1. CASE d = c  BY <1>1, <2>1
    <2>2. CASE d # c
      <3>1. registry = d \/ Displaced(d)  BY <1>1, <2>2 DEF Reached
      <3>2. CASE registry = d
        <4>1. handler'[c] = "displacing" /\ prev'[c] = d  BY <1>1, <3>2, Constants
        <4> QED  BY <4>1 DEF Displaced
      <3>3. CASE Displaced(d)
        <4>1. PICK e \in Conns : handler[e] = "displacing" /\ prev[e] = d  BY <3>3 DEF Displaced
        <4>2. e # c  BY <1>1, <4>1
        <4>3. handler'[e] = "displacing" /\ prev'[e] = d  BY <1>1, <4>1, <4>2
        <4> QED  BY <4>3 DEF Displaced
      <3> QED  BY <3>1, <3>2, <3>3
    <2> QED  BY <2>1, <2>2
  <1>3. Served(c)'  BY <1>1 DEF Served, InService
  <1>4. \A d \in Conns : handler[d] \in InService => handler'[d] \in InService
    BY <1>1 DEF InService
  <1> QED  BY <1>1, <1>2, <1>3, <1>4

\* The displaced session is closed.
LEMMA DisplaceStep ==
    ASSUME ServerTyped, Reached, NEW c \in Conns, Displace(c)
    PROVE  /\ Reached' /\ UNCHANGED registry
           /\ \A d \in Conns : handler[d] \in InService => handler'[d] \in InService
  <1>1. /\ UNCHANGED registry /\ handler[c] = "displacing" /\ handler'[c] = "reading"
        /\ open' = [open EXCEPT ![prev[c]] = FALSE]
        /\ \A d \in Conns : d # c => prev'[d] = prev[d] /\ handler'[d] = handler[d]
    BY DEF ServerTyped, Displace, CloseDisplaced, CloseSession, Goto
  <1>2. \A d \in Conns : open'[d] => open[d] /\ prev[c] # d  BY <1>1 DEF ServerTyped
  <1>3. Reached'
    <2> SUFFICES ASSUME NEW d \in Conns, handler'[d] \in InService, open'[d]
                 PROVE  registry' = d \/ Displaced(d)'
      BY DEF Reached
    <2>1. handler[d] \in InService  BY <1>1 DEF InService
    <2>2. registry = d \/ Displaced(d)  BY <1>2, <2>1 DEF Reached
    <2>3. CASE Displaced(d)
      <3>1. PICK e \in Conns : handler[e] = "displacing" /\ prev[e] = d  BY <2>3 DEF Displaced
      <3>2. e # c  BY <1>2, <3>1
      <3> QED  BY <1>1, <3>1, <3>2 DEF Displaced
    <2> QED  BY <1>1, <2>2, <2>3
  <1>4. \A d \in Conns : handler[d] \in InService => handler'[d] \in InService
    BY <1>1 DEF InService
  <1> QED  BY <1>1, <1>3, <1>4

\* RemoveIfSame: the session of the registry stays, unless it is the handler's own.
LEMMA RemoveStep ==
    ASSUME ServerTyped, Reached, NEW c \in Conns, RemoveSession(c)
    PROVE  /\ Reached' /\ registry' \in {None, registry}
           /\ \A d \in Conns : handler[d] \in InService => handler'[d] \in InService
  <1>1. /\ registry' = IF registry = c THEN None ELSE registry
        /\ handler[c] = "remove" /\ handler'[c] = "untrack" /\ UNCHANGED open /\ UNCHANGED prev
        /\ \A d \in Conns : d # c => handler'[d] = handler[d]
    BY DEF ServerTyped, RemoveSession, WithoutSession, Goto
  <1>2. Reached'
    <2> SUFFICES ASSUME NEW d \in Conns, handler'[d] \in InService, open'[d]
                 PROVE  registry' = d \/ Displaced(d)'
      BY DEF Reached
    <2>1. d # c /\ handler[d] \in InService  BY <1>1 DEF InService
    <2>2. registry = d \/ Displaced(d)  BY <1>1, <2>1 DEF Reached
    <2>3. CASE Displaced(d)
      <3>1. PICK e \in Conns : handler[e] = "displacing" /\ prev[e] = d  BY <2>3 DEF Displaced
      <3>2. e # c  BY <1>1, <3>1
      <3> QED  BY <1>1, <3>1, <3>2 DEF Displaced
    <2> QED  BY <1>1, <2>1, <2>2, <2>3
  <1>3. \A d \in Conns : handler[d] \in InService => handler'[d] \in InService
    BY <1>1 DEF InService
  <1> QED  BY <1>1, <1>2, <1>3

\* What the registry and the senders know stays served when services end by closing
\* and the registry is left alone or emptied.
LEMMA KnownStays ==
    ASSUME Typed, KnownServed, Shrinks, registry' \in {None, registry},
           \A d \in Conns : handler[d] \in InService => handler'[d] \in InService \/ ~open'[d],
           \A x \in Writers : Busy(x)' =>
             \/ Busy(x) /\ writer'[x].conn = writer[x].conn
             \/ registry # None /\ writer'[x].conn = registry
    PROVE  KnownServed'
  <1>1. registry \in Conns \cup {None}  BY DEF Typed, TypeOK
  <1>2. ASSUME NEW d \in Conns, Served(d)
        PROVE  Served(d)'
    BY <1>2 DEF Served, Shrinks
  <1>3. registry' # None => Served(registry)'
    <2>1. SUFFICES ASSUME registry' # None
                   PROVE  Served(registry)'
      OBVIOUS
    <2>2. registry' = registry /\ registry \in Conns /\ Served(registry)  BY <1>1, <2>1 DEF KnownServed
    <2> QED  BY <2>2 DEF Served, Shrinks
  <1>4. ASSUME NEW x \in Writers, Busy(x)'
        PROVE  writer'[x].conn \in Conns /\ Served(writer[x].conn)'
    <2>1. CASE Busy(x) /\ writer'[x].conn = writer[x].conn
      BY <1>2, <2>1 DEF KnownServed, Served
    <2>2. CASE registry # None /\ writer'[x].conn = registry
      BY <1>1, <1>2, <2>2 DEF KnownServed, Served
    <2> QED  BY <1>4, <2>1, <2>2
  <1> QED  BY <1>3, <1>4 DEF KnownServed

\* A sender keeps its connection, gives it up, or takes the one of the registry.
LEMMA SenderKeeps ==
    ASSUME Typed, NEW x \in Writers, Lookup(x) \/ Lock(x) \/ Write(x)
    PROVE  \A y \in Writers : Busy(y)' =>
             \/ Busy(y) /\ writer'[y].conn = writer[y].conn
             \/ registry # None /\ writer'[y].conn = registry
  <1>1. SendTyped  BY SendTypes
  <1>2. ASSUME NEW v, writer' = [writer EXCEPT ![x] = v],
               \/ v.at = "idle"
               \/ Busy(x) /\ v.conn = writer[x].conn
               \/ registry # None /\ v.conn = registry
        PROVE  \A y \in Writers : Busy(y)' =>
                 \/ Busy(y) /\ writer'[y].conn = writer[y].conn
                 \/ registry # None /\ writer'[y].conn = registry
    <2>1. writer'[x] = v /\ \A y \in Writers : y # x => writer'[y] = writer[y]
      BY <1>1, <1>2 DEF SendTyped
    <2> QED  BY <1>2, <2>1 DEF Busy
  <1>3. CASE Lookup(x)
    <2>1. CASE registry = None
      <3>1. UNCHANGED writer  BY <1>3, <2>1 DEF Lookup
      <3> QED  BY <3>1 DEF Busy
    <2>2. CASE registry # None
      <3>1. writer' = [writer EXCEPT ![x] = [Idle EXCEPT !.at = "found", !.conn = registry]]
        BY <1>3, <2>2 DEF Lookup
      <3>2. [Idle EXCEPT !.at = "found", !.conn = registry].conn = registry  BY DEF Idle
      <3> QED  BY <1>2, <2>2, <3>1, <3>2
    <2> QED  BY <2>1, <2>2
  <1>4. ASSUME NEW r, Answers(x, r)
        PROVE  \A y \in Writers : Busy(y)' =>
                 \/ Busy(y) /\ writer'[y].conn = writer[y].conn
                 \/ registry # None /\ writer'[y].conn = registry
    <2>1. writer' = [writer EXCEPT ![x] = Idle] /\ Idle.at = "idle"  BY <1>4 DEF Answers, Idle
    <2> QED  BY <1>2, <2>1
  <1>5. writer[x] \in WriterRecord  BY <1>1 DEF SendTyped
  <1>6. CASE Lock(x)
    <2>1. CASE writer' = [writer EXCEPT ![x].at = "writing"]
      <3>1. writer' = [writer EXCEPT ![x] = [writer[x] EXCEPT !.at = "writing"]]  BY <2>1
      <3>2. [writer[x] EXCEPT !.at = "writing"].conn = writer[x].conn  BY <1>5 DEF WriterRecord
      <3>3. Busy(x)  BY <1>6 DEF Lock, Busy
      <3> QED  BY <1>2, <3>1, <3>2, <3>3
    <2> QED  BY <1>4, <1>6, <2>1 DEF Lock
  <1>7. CASE WriteTimesOut(x)
    <2>1. PICK n \in 0 .. Rest(x) - 1 : writer' = [writer EXCEPT ![x].written = Resumed(x, n)]
      BY <1>7 DEF WriteTimesOut
    <2>2. writer' = [writer EXCEPT ![x] = [writer[x] EXCEPT !.written = Resumed(x, n)]]  BY <2>1
    <2>3. [writer[x] EXCEPT !.written = Resumed(x, n)].conn = writer[x].conn
      BY <1>5 DEF WriterRecord
    <2>4. Busy(x)  BY <1>7 DEF WriteTimesOut, Busy
    <2> QED  BY <1>2, <2>2, <2>3, <2>4
  <1>8. CASE WriteAll(x)  BY <1>4, <1>8 DEF WriteAll
  <1>9. CASE WriteFails(x)  BY <1>4, <1>9 DEF WriteFails, Fatal
  <1> QED  BY <1>3, <1>6, <1>7, <1>8, <1>9 DEF Write

\* A step that does not send leaves the senders where they are.
LEMMA SendersStay ==
    ASSUME UNCHANGED sending
    PROVE  \A y \in Writers : Busy(y)' => Busy(y) /\ writer'[y].conn = writer[y].conn
  BY DEF sending, Busy

\* A step that moves a handler and leaves the registry alone, and may send.
LEMMA MovesKeep ==
    ASSUME Typed, Reached, KnownServed, Shrinks, Moves, UNCHANGED registry, UNCHANGED prev,
           \A x \in Writers : Busy(x)' =>
             \/ Busy(x) /\ writer'[x].conn = writer[x].conn
             \/ registry # None /\ writer'[x].conn = registry
    PROVE  Reached' /\ KnownServed'
  <1>1. Reached'  BY ReachedStays
  <1>2. \A d \in Conns : handler[d] \in InService => handler'[d] \in InService \/ ~open'[d]
    BY DEF Moves
  <1>3. KnownServed'  BY <1>2, KnownStays
  <1> QED  BY <1>1, <1>3

\* The server's own state stays as it is.
LEMMA ServerStays ==
    ASSUME UNCHANGED server
    PROVE  Moves /\ UNCHANGED registry /\ UNCHANGED prev
  BY DEF server, Moves

\* Who can be reached is kept by every step.
LEMMA ReachedNext ==
    Typed /\ LockOK /\ Reached /\ KnownServed /\ [Next]_vars => Reached' /\ KnownServed'
  <1> SUFFICES ASSUME Typed, LockOK, Reached, KnownServed, [Next]_vars
               PROVE  Reached' /\ KnownServed'
    OBVIOUS
  <1>1. ServerTyped /\ SendTyped  BY TypesSplit
  <1>2. ASSUME Shrinks, Moves, UNCHANGED registry, UNCHANGED prev, UNCHANGED sending
        PROVE  Reached' /\ KnownServed'
    <2>1. \A y \in Writers : Busy(y)' => Busy(y) /\ writer'[y].conn = writer[y].conn
      BY <1>2, SendersStay
    <2> QED  BY <1>2, <2>1, MovesKeep
  <1>3. ASSUME Shrinks, registry' \in {None, registry}, UNCHANGED sending,
               \A d \in Conns : handler[d] \in InService => handler'[d] \in InService
        PROVE  KnownServed'
    <2>1. \A y \in Writers : Busy(y)' => Busy(y) /\ writer'[y].conn = writer[y].conn
      BY <1>3, SendersStay
    <2> QED  BY <1>3, <2>1, KnownStays
  <1>4. CASE Leave \/ Notice \/ Close
    <2>1. 1 \in Conns  BY TransportAssumption DEF Conns
    <2>2. Shrinks /\ UNCHANGED sending  BY <1>1, <1>4, <2>1, NodeStep, EndStep
    <2>3. Moves /\ UNCHANGED registry /\ UNCHANGED prev  BY <1>1, <1>4, <2>1, OtherMoves
    <2> QED  BY <1>2, <2>2, <2>3
  <1>5. ASSUME NEW c \in Conns, Dial(c) \/ Serving(c) \/ Read(c)
        PROVE  Reached' /\ KnownServed'
    <2>1. CASE Dial(c) \/ Track(c) \/ Handshake(c) \/ Untrack(c) \/ Finish(c)
      <3>1. Shrinks /\ UNCHANGED sending  BY <1>1, <2>1, NodeStep, BeginStep, EndStep
      <3>2. Moves /\ UNCHANGED registry /\ UNCHANGED prev  BY <1>1, <2>1, OtherMoves
      <3> QED  BY <1>2, <3>1, <3>2
    <2>2. CASE Read(c) \/ ReadFails(c)
      <3>1. Shrinks  BY <1>1, <2>2, ReadStep
      <3>2. UNCHANGED sending  BY <2>2 DEF Read, ReadFails
      <3>3. Moves /\ UNCHANGED registry /\ UNCHANGED prev  BY <1>1, <2>2, OtherMoves
      <3> QED  BY <1>2, <3>1, <3>2, <3>3
    <2>3. CASE Drain(c)
      <3>1. Shrinks  BY <1>1, <2>3, ReadStep
      <3>2. Moves /\ UNCHANGED registry /\ UNCHANGED prev  BY <1>1, <2>3, OtherMoves
      <3>3. CASE UNCHANGED sending  BY <1>2, <3>1, <3>2, <3>3
      <3>4. CASE Lookup(c)
        <4>1. c \in Writers  BY Constants
        <4>2. \A y \in Writers : Busy(y)' =>
                \/ Busy(y) /\ writer'[y].conn = writer[y].conn
                \/ registry # None /\ writer'[y].conn = registry
          BY <3>4, <4>1, SenderKeeps
        <4> QED  BY <3>1, <3>2, <4>2, MovesKeep
      <3> QED  BY <2>3, <3>3, <3>4, DrainSends
    <2>4. CASE Register(c)
      <3>1. Shrinks /\ UNCHANGED sending  BY <1>1, <2>4, BeginStep
      <3>2. /\ Reached' /\ Served(c)' /\ registry' = c
            /\ \A d \in Conns : handler[d] \in InService => handler'[d] \in InService
        BY <1>1, <2>4, RegisterStep
      <3>3. \A y \in Writers : Busy(y)' => Busy(y) /\ writer'[y].conn = writer[y].conn
        BY <3>1, SendersStay
      <3>4. ASSUME NEW y \in Writers, Busy(y)'
            PROVE  writer'[y].conn \in Conns /\ Served(writer[y].conn)'
        <4>1. /\ writer'[y].conn = writer[y].conn
              /\ writer[y].conn \in Conns /\ Served(writer[y].conn)
          BY <3>3, <3>4 DEF KnownServed
        <4> QED  BY <3>1, <3>2, <4>1 DEF Served, Shrinks
      <3>5. Served(registry)'  BY <3>2 DEF Served
      <3>6. KnownServed'  BY <3>4, <3>5 DEF KnownServed
      <3> QED  BY <3>2, <3>6
    <2>5. CASE Displace(c)
      <3>1. Shrinks /\ UNCHANGED sending  BY <1>1, <2>5, EndStep
      <3>2. /\ Reached' /\ UNCHANGED registry
            /\ \A d \in Conns : handler[d] \in InService => handler'[d] \in InService
        BY <1>1, <2>5, DisplaceStep
      <3> QED  BY <1>3, <3>1, <3>2
    <2>6. CASE RemoveSession(c)
      <3>1. Shrinks /\ UNCHANGED sending  BY <1>1, <2>6, EndStep
      <3>2. /\ Reached' /\ registry' \in {None, registry}
            /\ \A d \in Conns : handler[d] \in InService => handler'[d] \in InService
        BY <1>1, <2>6, RemoveStep
      <3> QED  BY <1>3, <3>1, <3>2
    <2> QED  BY <1>5, <2>1, <2>2, <2>3, <2>4, <2>5, <2>6 DEF Serving
  <1>6. ASSUME NEW x \in Writers, StartSend(x) \/ Lock(x) \/ Write(x)
        PROVE  Reached' /\ KnownServed'
    <2>1. Shrinks  BY <1>1, <1>6, SenderStep
    <2>2. Moves /\ UNCHANGED registry /\ UNCHANGED prev
      <3>1. UNCHANGED server
        BY <1>6 DEF StartSend, Lock, Write, WriteAll, WriteTimesOut, WriteFails
      <3> QED  BY <3>1, ServerStays
    <2>3. Lookup(x) \/ Lock(x) \/ Write(x)  BY <1>6 DEF StartSend
    <2>4. \A y \in Writers : Busy(y)' =>
            \/ Busy(y) /\ writer'[y].conn = writer[y].conn
            \/ registry # None /\ writer'[y].conn = registry
      BY <2>3, SenderKeeps
    <2> QED  BY <2>1, <2>2, <2>4, MovesKeep
  <1>7. ASSUME NEW x \in Senders, StartSend(x)
        PROVE  Reached' /\ KnownServed'
    <2>1. x \in Writers  BY DEF Writers
    <2> QED  BY <1>6, <1>7, <2>1
  <1>8. ASSUME NEW x \in Writers, Sending(x)
        PROVE  Reached' /\ KnownServed'
    BY <1>6, <1>8 DEF Sending
  <1>9. CASE UNCHANGED vars
    <2>1. UNCHANGED sending /\ UNCHANGED server /\ Shrinks  BY <1>9 DEF vars, Shrinks
    <2> QED  BY <1>2, <2>1, ServerStays
  <1> QED  BY <1>4, <1>5, <1>7, <1>8, <1>9 DEF Next

\* ... and holds at the start.
LEMMA ReachedInit == Init => Reached /\ KnownServed
  BY DEF Init, Reached, KnownServed, InService, Busy, Idle

-----------------------------------------------------------------------------
(* The theorems.                                                           *)

\* The inductive invariant holds in every reachable state.
THEOREM Invariance == Spec => []IInv
  <1>1. Init => IInv  BY FramesInit, ReachedInit DEF IInv
  <1>2. IInv /\ [Next]_vars => IInv'  BY FramesNext, ReachedNext DEF IInv, Frames
  <1> QED  BY <1>1, <1>2, PTL DEF Spec

\* The types of the state (the connections', the senders', the registry's).
THEOREM TypeCorrect == Spec => []TypeOK
  <1>1. IInv => TypeOK  BY DEF IInv, Typed
  <1> QED  BY <1>1, Invariance, PTL

\* A connection that is read is the one downlinks go to, or is about to be closed by its
\* successor (registry.go: Register, RemoveIfSame), for any number of connections.
THEOREM ReachableCorrect == Spec => []Reachable
  <1>1. IInv => Reachable
    BY DEF IInv, Reached, Reachable, InService, Displaced
  <1> QED  BY <1>1, Invariance, PTL

\* A block is as many entries as it says.
LEMMA BlockSize ==
    ASSUME Typed, NEW x, NEW n, NEW c \in Conns, NEW s \in Nat, NEW m \in Nat, Block(x, n, c, s, m)
    PROVE  /\ Cardinality(TakenOf(x, n)) = m
           /\ m = 0 => TakenOf(x, n) = {}
  <1>0. ASSUME NEW j \in 1 .. m
        PROVE  s + j \in 1 .. Len(wire[c])
    BY OnWire DEF Block
  <1> DEFINE T == TakenOf(x, n)
             f == [k \in 1 .. m |-> <<c, s + k>>]
  <1>1. \A d \in Conns : DOMAIN wire[d] = 1 .. Len(wire[d]) /\ Len(wire[d]) \in Nat  BY OnWire
  <1>2. ASSUME NEW j \in 1 .. m
        PROVE  f[j] \in T
    <2>1. s + j \in 1 .. Len(wire[c])  BY <1>0
    <2>2. wire[c][s + j] = [by |-> x, no |-> n, k |-> j]  BY DEF Block
    <2>3. s + j \in DOMAIN wire[c]  BY <1>1, <2>1
    <2>4. wire[c][s + j].by = x /\ wire[c][s + j].no = n  BY <2>2
    <2> QED  BY <2>3, <2>4 DEF TakenOf
  <1>3. ASSUME NEW t \in T
        PROVE  \E j \in 1 .. m : f[j] = t
    <2>1. PICK d \in Conns : \E i \in DOMAIN wire[d] :
            wire[d][i].by = x /\ wire[d][i].no = n /\ t = <<d, i>>
      BY <1>3 DEF TakenOf
    <2>2. PICK i \in DOMAIN wire[d] : wire[d][i].by = x /\ wire[d][i].no = n /\ t = <<d, i>>
      BY <2>1
    <2>3. d = c /\ i \in s + 1 .. s + m  BY <1>1, <2>2 DEF Block
    <2>4. i - s \in 1 .. m /\ s + (i - s) = i  BY <2>3
    <2>5. f[i - s] = <<c, s + (i - s)>>  BY <2>4
    <2> QED  BY <2>2, <2>3, <2>4, <2>5
  <1>4. ASSUME NEW i \in 1 .. m, NEW j \in 1 .. m, f[i] = f[j]
        PROVE  i = j
    <2>1. s + i = s + j  BY <1>4
    <2> QED  BY <2>1
  <1>5. f \in [1 .. m -> T]  BY <1>2
  <1> HIDE DEF f, T
  <1>6. f \in Bijection(1 .. m, T)  BY <1>3, <1>4, <1>5 DEF Bijection, Injection, Surjection, IsInjective
  <1>7. ExistsBijection(1 .. m, T)  BY <1>6 DEF ExistsBijection
  <1>8. Cardinality(T) = m  BY <1>7, FS_CountingElements
  <1>9. m = 0 => T = {}  BY <1>3
  <1> QED  BY <1>8, <1>9 DEF T

\* What Frames says is what a reader of a connection sees.
LEMMA FramesAreWhole == Typed /\ Frames => WholeFrames
  <1> SUFFICES ASSUME Typed, Frames  PROVE WholeFrames
    OBVIOUS
  <1>1. ASSUME NEW c \in Conns, NEW i \in DOMAIN wire[c]
        PROVE  Placed(c, i)
    <2>1. i \in 1 .. Len(wire[c])  BY OnWire
    <2> QED  BY <2>1 DEF Frames, InOrder
  <1>2. ASSUME NEW x \in Writers, NEW n \in 1 .. Len(res[x])
        PROVE  CASE res[x][n] = "ok"        -> Cardinality(TakenOf(x, n)) = Parts
                 [] res[x][n] = "not_ready" -> TakenOf(x, n) = {}
                 [] res[x][n] = "fatal"     -> Cardinality(TakenOf(x, n)) < Parts
    <2>1. res[x][n] \in Answer  BY OnRecord
    <2>2. PICK c \in Conns, s \in Nat, m \in Nat : Block(x, n, c, s, m) /\ Amount(res[x][n], m)
      BY DEF Frames, Answered
    <2>3. Cardinality(TakenOf(x, n)) = m /\ (m = 0 => TakenOf(x, n) = {})  BY <2>2, BlockSize
    <2>4. CASE res[x][n] = "ok"  BY <2>2, <2>3, <2>4 DEF Amount
    <2>5. CASE res[x][n] = "not_ready"  BY <2>2, <2>3, <2>5 DEF Amount
    <2>6. CASE res[x][n] = "fatal"  BY <2>2, <2>3, <2>6 DEF Amount
    <2> QED  BY <2>1, <2>4, <2>5, <2>6 DEF Answer
  <1> QED  BY <1>1, <1>2 DEF WholeFrames, Placed

\* The parts on a connection are whole frames one after the other, each once and in
\* order; one that was cut off is the last; and Send's answer says what became of it
\* (session.go: writeMu, resumption, Close after a partial frame), for any number of
\* senders, connections, frames and parts.
THEOREM FramesWhole == Spec => []WholeFrames
  <1>1. IInv => WholeFrames  BY FramesAreWhole DEF IInv
  <1> QED  BY <1>1, Invariance, PTL

\* Only the session of the registry takes parts, or one that is about to be closed by
\* its successor: a sender that found the old session delivers nothing once the
\* displacement is done (registry.go: Register).
THEOREM SupersededSilent == Spec => SupersededIsSilent
  <1>1. ASSUME IInv, [Next]_vars, NEW c \in Conns, wire'[c] # wire[c]
        PROVE  registry = c \/ \E d \in Conns : handler[d] = "displacing" /\ prev[d] = c
    <2>1. PICK x \in Writers : Writing(x) /\ writer[x].conn = c /\ open[c]
      <3>1. UNCHANGED wire \/ \E x \in Writers : WriteAll(x) \/ WriteTimesOut(x) \/ WriteFails(x)
        BY <1>1 DEF Next, Dial, Leave, Notice, Close, StartSend, Lookup, Sending, Lock, Write, Serving,
             Track, Handshake, Register, Displace, ReadFails, Drain, RemoveSession, Untrack, Finish,
             Read, sending, vars
      <3>2. PICK x \in Writers : WriteAll(x) \/ WriteTimesOut(x) \/ WriteFails(x)  BY <1>1, <3>1
      <3>3. ASSUME writer[x].conn # c
            PROVE  UNCHANGED wire \/ wire'[c] = wire[c]
        <4>1. wire \in [Conns -> Seq(Part)]  BY <1>1 DEF IInv, Typed
        <4> QED  BY <3>2, <3>3, <4>1 DEF WriteAll, WriteTimesOut, WriteFails, Take
      <3>4. Writing(x) /\ (open[writer[x].conn] \/ UNCHANGED wire)
        BY <3>2 DEF WriteAll, WriteTimesOut, WriteFails, Writing
      <3> QED  BY <1>1, <3>3, <3>4
    <2>2. Served(c) /\ handler[c] \in InService  BY <1>1, <2>1 DEF IInv, KnownServed, Busy, Writing, Served
    <2> QED  BY <1>1, <2>1, <2>2 DEF IInv, Reached, Displaced
  <1>2. IInv /\ [Next]_vars =>
          [\A c \in Conns : wire'[c] # wire[c] =>
             registry = c \/ \E d \in Conns : handler[d] = "displacing" /\ prev[d] = c]_vars
    BY <1>1
  <1> QED  BY <1>2, Invariance, PTL DEF Spec, SupersededIsSilent

-----------------------------------------------------------------------------
(* What the read loop makes of a stream that arrives in pieces.            *)

Bytes == Seq(Nat)

\* A set of numbers that is not empty has a least one.
LEMMA LeastNumber ==
    ASSUME NEW T \in SUBSET Nat, T # {}
    PROVE  \E n \in T : \A k \in T : n <= k
  <1>1. IsWellFoundedOn(OpToRel(<, Nat), Nat)
    BY NatLessThanWellFounded
  <1>2. PICK n \in T : \A k \in T : ~(<<k, n>> \in OpToRel(<, Nat))
    BY <1>1, WFMin
  <1>3. \A k \in T : ~(k < n)
    BY <1>2 DEF OpToRel
  <1> QED  BY <1>3

\* The part of a sequence from one place to another.
LEMMA SubPart ==
    ASSUME NEW b \in Bytes, NEW m \in 1 .. Len(b) + 1, NEW n \in m - 1 .. Len(b)
    PROVE  SubSeq(b, m, n) \in Bytes /\ Len(SubSeq(b, m, n)) = n - m + 1
  <1>1. Len(b) \in Nat /\ \A i \in 1 .. Len(b) : b[i] \in Nat
    BY LenProperties, ElementOfSeq DEF Bytes
  <1>2. m \in Int /\ n \in Int /\ \A i \in m .. n : b[i] \in Nat
    BY <1>1
  <1>3. SubSeq(b, m, n) \in Seq(Nat) /\ Len(SubSeq(b, m, n)) = IF m <= n THEN n - m + 1 ELSE 0
    BY <1>2, SubSeqProperties
  <1> QED  BY <1>1, <1>3 DEF Bytes

\* Sequences are joined in any order.
LEMMA AnyOrder ==
    ASSUME NEW a \in Bytes, NEW x \in Bytes, NEW z \in Bytes
    PROVE  (a \o x) \o z = a \o (x \o z)
  BY ConcatAssociative, SMTT(30) DEF Bytes

\* What is joined is as long as its parts together.
LEMMA Joined ==
    ASSUME NEW a \in Bytes, NEW x \in Bytes
    PROVE  /\ a \o x \in Bytes /\ Len(a \o x) = Len(a) + Len(x)
           /\ Len(a) \in Nat /\ Len(x) \in Nat
           /\ \A i \in 1 .. Len(a) : (a \o x)[i] = a[i]
  BY ConcatProperties, LenProperties DEF Bytes

\* A sequence is what comes up to a place, and what comes after it.
LEMMA Split ==
    ASSUME NEW b \in Bytes, NEW n \in 0 .. Len(b)
    PROVE  /\ SubSeq(b, 1, n) \in Bytes /\ Len(SubSeq(b, 1, n)) = n
           /\ SubSeq(b, n + 1, Len(b)) \in Bytes /\ Len(SubSeq(b, n + 1, Len(b))) = Len(b) - n
           /\ b = SubSeq(b, 1, n) \o SubSeq(b, n + 1, Len(b))
  <1>0. Len(b) \in Nat  BY LenProperties DEF Bytes
  <1>1. 1 \in 1 .. Len(b) + 1 /\ n \in 1 - 1 .. Len(b) /\ n - 1 + 1 = n
    BY <1>0
  <1>2. n + 1 \in 1 .. Len(b) + 1 /\ Len(b) \in (n + 1) - 1 .. Len(b) /\ Len(b) - (n + 1) + 1 = Len(b) - n
    BY <1>0
  <1>3. Len(b) \in n .. Len(b)
    BY <1>0
  <1>4. SubSeq(b, 1, n) \o SubSeq(b, n + 1, Len(b)) = SubSeq(b, 1, Len(b))
    BY <1>1, <1>3, ConcatAdjacentSubSeq DEF Bytes
  <1>5. SubSeq(b, 1, n) \in Bytes /\ Len(SubSeq(b, 1, n)) = n - 1 + 1
    BY <1>1, SubPart
  <1>6. /\ SubSeq(b, n + 1, Len(b)) \in Bytes
        /\ Len(SubSeq(b, n + 1, Len(b))) = Len(b) - (n + 1) + 1
    BY <1>2, SubPart
  <1>7. SubSeq(b, 1, Len(b)) = b
    BY SubSeqFull DEF Bytes
  <1> QED  BY <1>1, <1>2, <1>4, <1>5, <1>6, <1>7

\* What is cut off where it was joined is what was joined.
LEMMA Cut ==
    ASSUME NEW a \in Bytes, NEW z \in Bytes
    PROVE  /\ SubSeq(a \o z, Len(a) + 1, Len(a \o z)) = z
           /\ SubSeq(a \o z, 1, Len(a)) = a
  <1> DEFINE y == a \o z
             n == Len(a)
  <1>1. y \in Bytes /\ Len(y) = n + Len(z) /\ n \in Nat /\ Len(z) \in Nat /\ Len(a) = n
    BY Joined
  <1>2. n \in 0 .. Len(y)
    BY <1>1
  <1> HIDE DEF n
  <1>3. /\ SubSeq(y, 1, n) \in Bytes /\ Len(SubSeq(y, 1, n)) = n
        /\ SubSeq(y, n + 1, Len(y)) \in Bytes /\ Len(SubSeq(y, n + 1, Len(y))) = Len(y) - n
        /\ y = SubSeq(y, 1, n) \o SubSeq(y, n + 1, Len(y))
    BY <1>1, <1>2, Split
  <1>4. SubSeq(y, 1, n) = a
    <2> DEFINE p == SubSeq(y, 1, n)
               q == SubSeq(y, n + 1, Len(y))
    <2>1. \A i \in 1 .. n : y[i] = a[i]
      BY <1>1, Joined
    <2>2. \A i \in 1 .. n : y[i] = p[i]
      <3>1. p \in Bytes /\ q \in Bytes /\ Len(p) = n /\ y = p \o q
        BY <1>3
      <3> HIDE DEF p, q
      <3>2. \A i \in 1 .. n : (p \o q)[i] = p[i]
        BY <3>1, Joined
      <3> HIDE DEF y
      <3> QED  BY <3>1, <3>2
    <2>3. p \in Seq(Nat) /\ Len(p) = n
      BY <1>3 DEF Bytes
    <2> HIDE DEF p, y
    <2>4. p = a
      BY <1>1, <2>1, <2>2, <2>3, SeqEqual DEF Bytes
    <2> QED  BY <2>4 DEF p
  <1>5. SubSeq(y, n + 1, Len(y)) = z
    <2>1. a \o SubSeq(y, n + 1, Len(y)) = a \o z
      BY <1>3, <1>4
    <2>2. SubSeq(y, n + 1, Len(y)) \in Seq(Nat) /\ a \in Seq(Nat) /\ z \in Seq(Nat)
      BY <1>3 DEF Bytes
    <2> HIDE DEF y
    <2> QED  BY <2>1, <2>2, ConcatSimplifications
  <1> QED  BY <1>1, <1>4, <1>5

\* What comes after a place is not disturbed by what is joined to it, and neither is
\* what comes before.
LEMMA PartsJoined ==
    ASSUME NEW b \in Bytes, NEW x \in Bytes, NEW n \in 0 .. Len(b)
    PROVE  /\ SubSeq(b \o x, n + 1, Len(b \o x)) = SubSeq(b, n + 1, Len(b)) \o x
           /\ \A m \in 1 .. n + 1 : SubSeq(b \o x, m, n) = SubSeq(b, m, n)
  <1>0. Len(b) \in Nat  BY LenProperties DEF Bytes
  <1> DEFINE p == SubSeq(b, 1, n)
             q == SubSeq(b, n + 1, Len(b))
  <1>1. p \in Bytes /\ Len(p) = n /\ q \in Bytes /\ b = p \o q
    BY Split
  <1> HIDE DEF p, q
  <1>2. q \o x \in Bytes /\ b \o x = p \o (q \o x)
    <2>1. q \o x \in Bytes
      BY <1>1, Joined
    <2>2. (p \o q) \o x = p \o (q \o x)
      BY <1>1, AnyOrder
    <2> QED  BY <1>1, <2>1, <2>2
  <1>3. SubSeq(b \o x, n + 1, Len(b \o x)) = q \o x
    <2> DEFINE z == q \o x
    <2> HIDE DEF z
    <2>1. z \in Bytes
      BY <1>2 DEF z
    <2>2. SubSeq(p \o z, Len(p) + 1, Len(p \o z)) = z
      BY <1>1, <2>1, Cut
    <2> QED  BY <1>1, <1>2, <2>2 DEF z
  <1>4. ASSUME NEW m \in 1 .. n + 1 PROVE SubSeq(b \o x, m, n) = SubSeq(b, m, n)
    <2>1. CASE m <= n
      <3>1. m \in 1 .. Len(b) /\ n \in 1 .. Len(b)
        BY <1>0, <2>1
      <3> QED  BY <3>1, SubSeqOfConcat1 DEF Bytes
    <2>2. CASE n < m
      <3>1. m \in Int /\ n \in Int
        OBVIOUS
      <3> QED  BY <2>2, <3>1, SubSeqEmpty
    <2> QED  BY <2>1, <2>2
  <1> QED  BY <1>3, <1>4 DEF q

\* A frame has its header, and its payload is that long.
LEMMA Header ==
    ASSUME NEW b \in Bytes, Len(b) >= HeaderSize
    PROVE  /\ b[1] \in Nat /\ b[2] \in Nat /\ b[3] \in Nat
           /\ FrameBytes(b) \in Nat /\ FrameBytes(b) >= HeaderSize + b[3]
           /\ FrameBytes(b) <= HeaderSize + b[3] + 1
  <1>1. b[1] \in Nat /\ b[2] \in Nat /\ b[3] \in Nat
    BY ElementOfSeq, LenProperties DEF Bytes, HeaderSize
  <1> QED  BY <1>1 DEF FrameBytes, HeaderSize

\* What is kept of a buffer is shorter where something was taken from it.
LEMMA KeptBytes ==
    ASSUME NEW b \in Bytes
    PROVE  /\ Verdict(b) \in {"more", "resync", "fail", "frame"}
           /\ Kept(b) \in Bytes
           /\ Verdict(b) \in {"frame", "resync"} => Len(Kept(b)) < Len(b)
           /\ Verdict(b) \in {"more", "fail"} => Kept(b) = b
           /\ Verdict(b) = "frame" => Payload(b) \in Bytes
  <1>0. Len(b) \in Nat  BY LenProperties DEF Bytes
  <1>1. Verdict(b) \in {"more", "resync", "fail", "frame"}
    BY DEF Verdict
  <1>2. CASE Verdict(b) = "frame"
    <2>1. Len(b) >= HeaderSize /\ ~(Len(b) < FrameBytes(b))
      BY <1>0, <1>2 DEF Verdict, HeaderSize
    <2>2. FrameBytes(b) \in Nat /\ FrameBytes(b) >= HeaderSize + b[3] /\ b[3] \in Nat
      BY <2>1, Header
    <2>3. Kept(b) = SubSeq(b, FrameBytes(b) + 1, Len(b))
      BY <1>2 DEF Kept
    <2>4. Kept(b) \in Bytes /\ Len(Kept(b)) = Len(b) - FrameBytes(b)
      <3>1. FrameBytes(b) + 1 \in 1 .. Len(b) + 1 /\ Len(b) \in (FrameBytes(b) + 1) - 1 .. Len(b)
        BY <1>0, <2>1, <2>2
      <3>2. Len(b) - (FrameBytes(b) + 1) + 1 = Len(b) - FrameBytes(b)
        BY <1>0, <2>2
      <3> QED  BY <3>1, <3>2, <2>3, SubPart
    <2>5. Payload(b) \in Bytes
      <3>1. HeaderSize + 1 \in 1 .. Len(b) + 1 /\ HeaderSize + b[3] \in (HeaderSize + 1) - 1 .. Len(b)
        BY <1>0, <2>1, <2>2 DEF HeaderSize
      <3> QED  BY <3>1, SubPart DEF Payload
    <2>6. Len(b) - FrameBytes(b) < Len(b)
      BY <1>0, <2>2 DEF HeaderSize
    <2> QED  BY <1>2, <2>4, <2>5, <2>6
  <1>3. CASE Verdict(b) = "resync"
    <2>0. ~(Len(b) < HeaderSize)
      BY <1>3 DEF Verdict
    <2>1. Len(b) >= HeaderSize
      BY <1>0, <2>0 DEF HeaderSize
    <2>2. b # <<>>
      BY <2>1 DEF HeaderSize
    <2>3. Kept(b) = Tail(b)
      BY <1>3 DEF Kept
    <2>4. Tail(b) \in Bytes /\ Len(Tail(b)) = Len(b) - 1
      BY <2>2, HeadTailProperties DEF Bytes
    <2> QED  BY <1>0, <1>3, <2>3, <2>4
  <1>4. CASE Verdict(b) \in {"more", "fail"}
    BY <1>4 DEF Kept
  <1> QED  BY <1>1, <1>2, <1>3, <1>4

\* A buffer about which the loop has decided is decided alike when more has come.
LEMMA Extended ==
    ASSUME NEW b \in Bytes, NEW x \in Bytes, Verdict(b) # "more"
    PROVE  /\ Verdict(b \o x) = Verdict(b)
           /\ Verdict(b) = "frame" => Payload(b \o x) = Payload(b)
           /\ Verdict(b) \in {"frame", "resync"} => Kept(b \o x) = Kept(b) \o x
  <1> DEFINE y == b \o x
  <1>1. /\ y \in Bytes /\ Len(y) = Len(b) + Len(x) /\ Len(b) \in Nat /\ Len(x) \in Nat
        /\ \A i \in 1 .. Len(b) : y[i] = b[i]
    BY Joined
  <1>2. ~(Len(b) < HeaderSize)
    BY DEF Verdict
  <1>3. Len(b) >= 3 /\ Len(y) >= 3 /\ ~(Len(y) < HeaderSize)
    BY <1>1, <1>2 DEF HeaderSize
  <1>4. y[1] = b[1] /\ y[2] = b[2] /\ y[3] = b[3]
    BY <1>1, <1>3
  <1>5. FrameBytes(y) = FrameBytes(b) /\ HasCRC(y) = HasCRC(b) /\ TooLarge(y) = TooLarge(b)
    BY <1>4 DEF FrameBytes, HasCRC, TooLarge
  <1>6. b[3] \in Nat /\ FrameBytes(b) \in Nat /\ FrameBytes(b) >= HeaderSize + b[3]
    BY <1>3, Header DEF HeaderSize
  <1>7. CASE b[1] # Magic \/ b[2] \notin Vers
    <2> HIDE DEF y
    <2>1. Verdict(b) = "resync" /\ Verdict(y) = "resync"
      BY <1>2, <1>3, <1>4, <1>7 DEF Verdict
    <2>2. Kept(b) = Tail(b) /\ Kept(y) = Tail(y)
      BY <2>1 DEF Kept
    <2>3. Tail(b) = SubSeq(b, 1 + 1, Len(b)) /\ Tail(y) = SubSeq(y, 1 + 1, Len(y))
      <3>1. b # <<>> /\ y # <<>>
        BY <1>3
      <3> QED  BY <1>1, <3>1, TailIsSubSeq DEF Bytes
    <2>4. 1 \in 0 .. Len(b)
      BY <1>1, <1>3
    <2>5. SubSeq(y, 1 + 1, Len(y)) = SubSeq(b, 1 + 1, Len(b)) \o x
      BY <2>4, PartsJoined DEF y
    <2> QED  BY <2>1, <2>2, <2>3, <2>5 DEF y
  <1>8. CASE ~(b[1] # Magic \/ b[2] \notin Vers) /\ TooLarge(b)
    <2> HIDE DEF y
    <2>1. Verdict(b) = "fail" /\ Verdict(y) = "fail"
      BY <1>2, <1>3, <1>4, <1>5, <1>8 DEF Verdict
    <2> QED  BY <2>1 DEF y
  <1>9. CASE ~(b[1] # Magic \/ b[2] \notin Vers) /\ ~TooLarge(b)
    <2> HIDE DEF y
    <2>1. ~(Len(b) < FrameBytes(b))
      BY <1>2, <1>9 DEF Verdict
    <2>2. ~(Len(y) < FrameBytes(y)) /\ FrameBytes(b) <= Len(b) /\ FrameBytes(b) >= 3
      BY <1>1, <1>5, <1>6, <2>1 DEF HeaderSize
    <2>3. Payload(y) = Payload(b)
      <3> DEFINE n == HeaderSize + b[3]
                 m == HeaderSize + 1
      <3>1. n \in 0 .. Len(b) /\ m \in 1 .. n + 1
        BY <1>1, <1>6, <2>2 DEF HeaderSize
      <3> HIDE DEF n, m
      <3>2. SubSeq(y, m, n) = SubSeq(b, m, n)
        BY <3>1, PartsJoined DEF y
      <3> QED  BY <1>4, <3>2 DEF Payload, n, m
    <2>4. HasCRC(b) => y[FrameBytes(y)] = b[FrameBytes(b)]
      <3>1. FrameBytes(b) \in 1 .. Len(b)
        BY <1>1, <1>6, <2>2 DEF HeaderSize
      <3> QED  BY <1>1, <1>5, <3>1
    <2>5. CASE HasCRC(b) /\ b[FrameBytes(b)] # CRC32C(Payload(b))
      <3>1. HasCRC(y) /\ y[FrameBytes(y)] # CRC32C(Payload(y))
        BY <1>5, <2>3, <2>4, <2>5
      <3>2. Verdict(b) = "fail" /\ Verdict(y) = "fail"
        BY <1>2, <1>3, <1>4, <1>5, <1>9, <2>1, <2>2, <2>5, <3>1 DEF Verdict
      <3> QED  BY <3>2 DEF y
    <2>6. CASE ~(HasCRC(b) /\ b[FrameBytes(b)] # CRC32C(Payload(b)))
      <3>1. ~(HasCRC(y) /\ y[FrameBytes(y)] # CRC32C(Payload(y)))
        BY <1>5, <2>3, <2>4, <2>6
      <3>2. Verdict(b) = "frame" /\ Verdict(y) = "frame"
        BY <1>2, <1>3, <1>4, <1>5, <1>9, <2>1, <2>2, <2>6, <3>1 DEF Verdict
      <3>3. Kept(b) = SubSeq(b, FrameBytes(b) + 1, Len(b)) /\ Kept(y) = SubSeq(y, FrameBytes(b) + 1, Len(y))
        BY <1>5, <3>2 DEF Kept
      <3>4. FrameBytes(b) \in 0 .. Len(b)
        BY <1>1, <1>6, <2>2
      <3>5. SubSeq(y, FrameBytes(b) + 1, Len(y)) = SubSeq(b, FrameBytes(b) + 1, Len(b)) \o x
        BY <3>4, PartsJoined DEF y
      <3> QED  BY <2>3, <3>2, <3>3, <3>5 DEF y
    <2> QED  BY <2>5, <2>6
  <1> QED  BY <1>7, <1>8, <1>9

(* Parsed is defined by recursion on the buffer.  That it is a function    *)
(* which obeys its equation holds because what is kept is shorter.         *)

\* The equation's right-hand side, and the functions that solve it for buffers that
\* are shorter than n.
Body(f, b) ==
  CASE Verdict(b) = "frame"  -> <<Payload(b)>> \o f[Kept(b)]
    [] Verdict(b) = "resync" -> f[Kept(b)]
    [] OTHER                 -> <<>>

Below(n) == {b \in Bytes : Len(b) < n}

Solves(f, n) == f = [b \in Below(n) |-> Body(f, b)]

\* Functions that agree on what is shorter agree.
LEMMA BodyAgrees ==
    ASSUME NEW b \in Bytes, NEW f, NEW g, \A k \in Bytes : Len(k) < Len(b) => f[k] = g[k]
    PROVE  Body(f, b) = Body(g, b)
  <1>1. CASE Verdict(b) = "frame"
    <2>1. f[Kept(b)] = g[Kept(b)]
      BY <1>1, KeptBytes
    <2>2. Body(f, b) = <<Payload(b)>> \o f[Kept(b)] /\ Body(g, b) = <<Payload(b)>> \o g[Kept(b)]
      BY <1>1 DEF Body
    <2> QED  BY <2>1, <2>2
  <1>2. CASE Verdict(b) = "resync"
    <2>1. f[Kept(b)] = g[Kept(b)]
      BY <1>2, KeptBytes
    <2>2. Body(f, b) = f[Kept(b)] /\ Body(g, b) = g[Kept(b)]
      BY <1>2 DEF Body
    <2> QED  BY <2>1, <2>2
  <1>3. CASE Verdict(b) \notin {"frame", "resync"}
    BY <1>3 DEF Body
  <1> QED  BY <1>1, <1>2, <1>3

LEMMA OneSolution ==
    ASSUME NEW m \in Nat, NEW n \in Nat, NEW f, NEW g, Solves(f, m), Solves(g, n)
    PROVE  \A b \in Below(m) \cap Below(n) : f[b] = g[b]
  <1> DEFINE Bad == {b \in Below(m) \cap Below(n) : f[b] # g[b]}
             T == {Len(b) : b \in Bad}
  <1>0. \A b \in Bytes : Len(b) \in Nat
    BY LenProperties DEF Bytes
  <1>1. T \in SUBSET Nat
    BY <1>0 DEF Below
  <1>2. ASSUME T # {} PROVE FALSE
    <2>1. PICK l \in T : \A k \in T : l <= k
      <3> HIDE DEF T
      <3> QED  BY <1>1, <1>2, LeastNumber
    <2>2. PICK b \in Bad : Len(b) = l
      BY <2>1
    <2>3. b \in Bytes /\ Len(b) < m /\ Len(b) < n
      BY <2>2 DEF Below
    <2>4. ASSUME NEW k \in Bytes, Len(k) < Len(b) PROVE f[k] = g[k]
      <3>1. k \in Below(m) \cap Below(n)
        BY <1>0, <2>3, <2>4 DEF Below
      <3>2. CASE k \in Bad
        <4>1. Len(b) <= Len(k)
          BY <2>1, <2>2, <3>2
        <4> QED  BY <1>0, <2>3, <2>4, <4>1
      <3> QED  BY <3>1, <3>2
    <2>5. Body(f, b) = Body(g, b)
      BY <2>3, <2>4, BodyAgrees
    <2>6. f[b] = Body(f, b) /\ g[b] = Body(g, b)
      <3>1. b \in Below(m) /\ b \in Below(n)
        BY <2>2
      <3> QED  BY <3>1 DEF Solves
    <2> QED  BY <2>2, <2>5, <2>6
  <1> QED  BY <1>2

LEMMA SomeSolution ==
    ASSUME NEW n \in Nat
    PROVE  \E f : Solves(f, n)
  <1> DEFINE T == {m \in Nat : ~\E f : Solves(f, m)}
  <1>0. \A b \in Bytes : Len(b) \in Nat
    BY LenProperties DEF Bytes
  <1>1. ASSUME T # {} PROVE FALSE
    <2>1. PICK m \in T : \A k \in T : m <= k
      <3>1. T \in SUBSET Nat
        OBVIOUS
      <3> HIDE DEF T
      <3> QED  BY <1>1, <3>1, LeastNumber
    <2>2. \E g : \A k \in Below(m) : k \in Below(m - 1) => g[k] = Body(g, k)
      <3>1. CASE m = 0
        <4>1. Below(m) = {}
          BY <1>0, <3>1 DEF Below
        <4> QED  BY <4>1
      <3>2. CASE m # 0
        <4>1. m - 1 \in Nat /\ m - 1 \notin T
          BY <2>1, <3>2
        <4>2. PICK g : Solves(g, m - 1)
          BY <4>1
        <4> QED  BY <4>2 DEF Solves
      <3> QED  BY <3>1, <3>2
    <2>3. PICK g : \A k \in Below(m) : k \in Below(m - 1) => g[k] = Body(g, k)
      BY <2>2
    <2> DEFINE f == [b \in Below(m) |-> Body(g, b)]
    <2>4. ASSUME NEW b \in Below(m) PROVE Body(f, b) = Body(g, b)
      <3>1. ASSUME NEW k \in Bytes, Len(k) < Len(b) PROVE f[k] = g[k]
        <4>1. k \in Below(m) /\ k \in Below(m - 1)
          BY <1>0, <2>1, <3>1 DEF Below
        <4>2. f[k] = Body(g, k) /\ g[k] = Body(g, k)
          BY <2>3, <4>1
        <4> QED  BY <4>2
      <3>2. b \in Bytes
        BY DEF Below
      <3> HIDE DEF f
      <3> QED  BY <3>1, <3>2, BodyAgrees
    <2>5. f = [b \in Below(m) |-> Body(f, b)]
      <3> DEFINE h == [b \in Below(m) |-> Body(f, b)]
      <3>1. \A b \in Below(m) : h[b] = f[b]
        <4> SUFFICES ASSUME NEW b \in Below(m) PROVE h[b] = f[b]
          OBVIOUS
        <4>1. h[b] = Body(f, b) /\ f[b] = Body(g, b)
          OBVIOUS
        <4> HIDE DEF f, h
        <4> QED  BY <2>4, <4>1
      <3> QED  BY <3>1
    <2>6. Solves(f, m)
      <3> HIDE DEF f
      <3> QED  BY <2>5 DEF Solves
    <2>7. \E e : Solves(e, m)
      <3> HIDE DEF f
      <3> QED  BY <2>6
    <2> QED  BY <2>1, <2>7
  <1> QED  BY <1>1

Solution == [b \in Bytes |-> (CHOOSE f : Solves(f, Len(b) + 1))[b]]

\* Parsed obeys its equation.
LEMMA Unfold ==
    \A b \in Bytes : Parsed[b] = Body(Parsed, b)
  <1>0. \A b \in Bytes : Len(b) \in Nat
    BY LenProperties DEF Bytes
  <1> DEFINE Best(b) == CHOOSE f : Solves(f, Len(b) + 1)
  <1>1. ASSUME NEW b \in Bytes PROVE Solves(Best(b), Len(b) + 1)
    <2>1. \E f : Solves(f, Len(b) + 1)
      BY <1>0, SomeSolution
    <2> QED  BY <2>1
  <1>2. ASSUME NEW b \in Bytes PROVE Solution[b] = Best(b)[b]
    BY DEF Solution
  <1> HIDE DEF Best
  <1>3. ASSUME NEW b \in Bytes PROVE Solution[b] = Body(Solution, b)
    <2>1. ASSUME NEW k \in Bytes, Len(k) < Len(b) PROVE Solution[k] = Best(b)[k]
      <3>1. k \in Below(Len(k) + 1) \cap Below(Len(b) + 1)
        BY <1>0, <2>1 DEF Below
      <3>2. Len(k) + 1 \in Nat /\ Len(b) + 1 \in Nat
        BY <1>0
      <3>3. Best(k)[k] = Best(b)[k]
        BY <1>1, <3>1, <3>2, OneSolution
      <3> QED  BY <1>2, <3>3
    <2>2. Body(Solution, b) = Body(Best(b), b)
      BY <2>1, BodyAgrees
    <2>3. b \in Below(Len(b) + 1)
      BY <1>0 DEF Below
    <2>4. Best(b)[b] = Body(Best(b), b)
      BY <1>1, <2>3 DEF Solves
    <2> QED  BY <1>2, <2>2, <2>4
  <1>4. Solution = [b \in Bytes |-> Body(Solution, b)]
    <2>1. Solution = [b \in Bytes |-> Solution[b]]
      BY DEF Solution
    <2> QED  BY <1>3, <2>1
  <1>5. Parsed = CHOOSE f : f = [b \in Bytes |-> Body(f, b)]
    BY DEF Parsed, Body, Bytes
  <1>6. Parsed = [b \in Bytes |-> Body(Parsed, b)]
    BY <1>4, <1>5
  <1> QED  BY <1>6

\* What is parsed is a sequence of payloads.
LEMMA ParsedType ==
    \A b \in Bytes : Parsed[b] \in Seq(Bytes)
  <1> DEFINE Bad == {b \in Bytes : Parsed[b] \notin Seq(Bytes)}
             T == {Len(b) : b \in Bad}
  <1>0. \A b \in Bytes : Len(b) \in Nat
    BY LenProperties DEF Bytes
  <1>1. T \in SUBSET Nat
    BY <1>0
  <1>2. ASSUME T # {} PROVE FALSE
    <2>1. PICK l \in T : \A k \in T : l <= k
      <3> HIDE DEF T
      <3> QED  BY <1>1, <1>2, LeastNumber
    <2>2. PICK b \in Bad : Len(b) = l
      BY <2>1
    <2>3. ASSUME NEW k \in Bytes, Len(k) < Len(b) PROVE Parsed[k] \in Seq(Bytes)
      <3>1. CASE k \in Bad
        <4>1. Len(b) <= Len(k)
          BY <2>1, <2>2, <3>1
        <4> QED  BY <1>0, <2>2, <2>3, <4>1
      <3> QED  BY <3>1
    <2>4. CASE Verdict(b) = "frame"
      <3>1. Payload(b) \in Bytes /\ Parsed[Kept(b)] \in Seq(Bytes)
        BY <2>2, <2>3, <2>4, KeptBytes
      <3>2. <<Payload(b)>> \in Seq(Bytes)
        BY <3>1
      <3>3. <<Payload(b)>> \o Parsed[Kept(b)] \in Seq(Bytes)
        BY <3>1, <3>2, ConcatProperties
      <3>4. Parsed[b] = <<Payload(b)>> \o Parsed[Kept(b)]
        BY <2>2, <2>4, Unfold DEF Body
      <3> QED  BY <2>2, <3>3, <3>4
    <2>5. CASE Verdict(b) = "resync"
      <3>1. Parsed[Kept(b)] \in Seq(Bytes)
        BY <2>2, <2>3, <2>5, KeptBytes
      <3>2. Parsed[b] = Parsed[Kept(b)]
        BY <2>2, <2>5, Unfold DEF Body
      <3> QED  BY <2>2, <3>1, <3>2
    <2>6. CASE Verdict(b) \notin {"frame", "resync"}
      <3>1. Body(Parsed, b) = <<>>
        BY <2>6 DEF Body
      <3>2. Parsed[b] = <<>>
        BY <2>2, <3>1, Unfold
      <3>3. <<>> \in Seq(Bytes)
        BY EmptySeq
      <3> QED  BY <2>2, <3>2, <3>3
    <2> QED  BY <2>4, <2>5, <2>6
  <1> QED  BY <1>2

\* One turn of the loop, in terms of what is parsed whatever comes after.
LEMMA Turn ==
    ASSUME NEW b \in Bytes, NEW x \in Bytes
    PROVE  /\ Verdict(b) = "frame" => Parsed[b \o x] = <<Payload(b)>> \o Parsed[Kept(b) \o x]
           /\ Verdict(b) = "resync" => Parsed[b \o x] = Parsed[Kept(b) \o x]
  <1>1. b \o x \in Bytes
    BY Joined
  <1>2. CASE Verdict(b) = "frame"
    <2>1. /\ Verdict(b \o x) = "frame" /\ Payload(b \o x) = Payload(b)
          /\ Kept(b \o x) = Kept(b) \o x
      BY <1>2, Extended
    <2>2. Parsed[b \o x] = <<Payload(b \o x)>> \o Parsed[Kept(b \o x)]
      BY <1>1, <2>1, Unfold DEF Body
    <2> QED  BY <1>2, <2>1, <2>2
  <1>3. CASE Verdict(b) = "resync"
    <2>1. Verdict(b \o x) = "resync" /\ Kept(b \o x) = Kept(b) \o x
      BY <1>3, Extended
    <2>2. Parsed[b \o x] = Parsed[Kept(b \o x)]
      BY <1>1, <2>1, Unfold DEF Body
    <2> QED  BY <1>3, <2>1, <2>2
  <1> QED  BY <1>2, <1>3

LEMMA NothingLeft ==
    ASSUME NEW b \in Bytes, Verdict(b) \in {"more", "fail"}
    PROVE  Parsed[b] = <<>>
  <1>1. Body(Parsed, b) = <<>>
    BY DEF Body
  <1> QED  BY <1>1, Unfold

(* What the read loop has received, given away and kept. *)

Quiet(b) == Verdict(b) \in {"more", "fail"}

\* The stream s of connection c, of which p has been received: with whatever may follow
\* p, what has been given to OnFrame and what the buffer will give is what p gives.
Received(s, p, c) ==
  /\ s = p \o up[c]
  /\ \A x \in Bytes : Parsed[p \o x] = got[c] \o Parsed[buf[c] \o x]

StreamTyped == up \in [Conns -> Bytes] /\ buf \in [Conns -> Bytes] /\ got \in [Conns -> Seq(Bytes)]

StreamOf(c) ==
  /\ handler[c] # "draining" => Quiet(buf[c])
  /\ handler[c] = "none" => buf[c] = <<>> /\ got[c] = <<>>
  /\ handler[c] # "none" => \E s \in Streams : \E p \in Bytes : Received(s, p, c)

Streamed == StreamTyped /\ \A c \in Conns : StreamOf(c)

LEMMA NothingJoined ==
    ASSUME NEW S, NEW x \in Seq(S)
    PROVE  <<>> \o x = x /\ x \o <<>> = x /\ <<>> \in Seq(S)
  BY ConcatEmptySeq, EmptySeq

LEMMA StreamedInit == Init => Streamed
  <1> SUFFICES ASSUME Init PROVE Streamed
    OBVIOUS
  <1>1. up = [c \in Conns |-> <<>>] /\ buf = [c \in Conns |-> <<>>] /\ got = [c \in Conns |-> <<>>]
    BY DEF Init
  <1>2. <<>> \in Bytes /\ <<>> \in Seq(Bytes)
    BY EmptySeq DEF Bytes
  <1>3. Quiet(<<>>)
    BY DEF Quiet, Verdict, HeaderSize
  <1>4. ASSUME NEW c \in Conns PROVE StreamOf(c)
    BY <1>1, <1>3 DEF Init, StreamOf
  <1> QED  BY <1>1, <1>2, <1>4 DEF Streamed, StreamTyped

HandlerTyped == handler \in [Conns -> {"none", "accepted", "handshake", "known", "displacing",
  "reading", "draining", "remove", "untrack", "close", "done"}]

\* Whatever else happens leaves what is received alone, begins no connection and leaves
\* no buffer half drained.
LEMMA ElseStep ==
    ASSUME Streamed, UNCHANGED reading, NEW e \in Conns,
           handler' = [handler EXCEPT ![e] = handler'[e]],
           handler[e] \notin {"none", "draining"}, handler'[e] \notin {"none", "draining"},
           HandlerTyped
    PROVE  Streamed'
  <1>1. up' = up /\ buf' = buf /\ got' = got
    BY DEF reading
  <1>2. ASSUME NEW c \in Conns
        PROVE  handler'[c] = handler[c] \/ {handler[c], handler'[c]} \cap {"none", "draining"} = {}
    BY DEF HandlerTyped
  <1>3. ASSUME NEW c \in Conns PROVE StreamOf(c)'
    <2>1. StreamOf(c)
      BY DEF Streamed
    <2> QED  BY <1>1, <1>2, <2>1 DEF StreamOf, Received
  <1> QED  BY <1>1, <1>3 DEF Streamed, StreamTyped

LEMMA SameStep ==
    ASSUME Streamed, UNCHANGED <<handler, reading>>
    PROVE  Streamed'
  BY DEF reading, Streamed, StreamTyped, StreamOf, Received

\* Nothing of a stream has been received when its connection begins.
LEMMA DialStep ==
    ASSUME Streamed, HandlerTyped, NEW e \in Conns, Dial(e)
    PROVE  Streamed'
  <1>1. PICK s \in Streams : up' = [up EXCEPT ![e] = s]
    BY DEF Dial
  <1>2. handler[e] = "none" /\ handler' = [handler EXCEPT ![e] = "accepted"] /\ buf' = buf /\ got' = got
    BY DEF Dial
  <1>3. s \in Bytes
    BY TransportAssumption DEF Bytes
  <1>4. StreamTyped'
    BY <1>1, <1>2, <1>3 DEF Streamed, StreamTyped
  <1>5. ASSUME NEW c \in Conns PROVE StreamOf(c)'
    <2>1. StreamOf(c)
      BY DEF Streamed
    <2>2. CASE c # e
      BY <1>1, <1>2, <2>1, <2>2 DEF StreamOf, Received, Streamed, StreamTyped, HandlerTyped
    <2>3. CASE c = e
      <3>1. buf[e] = <<>> /\ got[e] = <<>> /\ Quiet(buf[e])
        BY <1>2, <2>1, <2>3 DEF StreamOf
      <3>2. up'[e] = s /\ handler'[e] = "accepted" /\ buf'[e] = <<>> /\ got'[e] = <<>>
        BY <1>1, <1>2, <3>1 DEF Streamed, StreamTyped, HandlerTyped
      <3>3. <<>> \in Bytes /\ s = <<>> \o s
        BY <1>3, NothingJoined DEF Bytes
      <3>4. ASSUME NEW x \in Bytes PROVE Parsed[<<>> \o x] = <<>> \o Parsed[<<>> \o x]
        <4>1. <<>> \o x = x
          BY NothingJoined DEF Bytes
        <4>2. Parsed[x] = <<>> \o Parsed[x]
          BY ParsedType, NothingJoined
        <4> QED  BY <4>1, <4>2
      <3>5. Received(s, <<>>, e)'
        BY <3>2, <3>3, <3>4 DEF Received
      <3> QED  BY <2>3, <3>1, <3>2, <3>3, <3>5 DEF StreamOf
    <2> QED  BY <2>2, <2>3
  <1> QED  BY <1>4, <1>5 DEF Streamed

\* A read moves bytes to the buffer, as many as it likes.
LEMMA ReadingStep ==
    ASSUME Streamed, HandlerTyped, NEW e \in Conns, Read(e)
    PROVE  Streamed'
  <1>1. PICK n \in 1 .. Len(up[e]) : /\ buf' = [buf EXCEPT ![e] = @ \o SubSeq(up[e], 1, n)]
                                    /\ up' = [up EXCEPT ![e] = SubSeq(@, n + 1, Len(@))]
    BY DEF Read
  <1>2. /\ handler[e] = "reading" /\ handler' = [handler EXCEPT ![e] = "draining"] /\ got' = got
    BY DEF Read, Goto
  <1> DEFINE d == SubSeq(up[e], 1, n)
             u == SubSeq(up[e], n + 1, Len(up[e]))
  <1>3. up[e] \in Bytes /\ buf[e] \in Bytes /\ got[e] \in Seq(Bytes)
    BY DEF Streamed, StreamTyped
  <1>4. d \in Bytes /\ u \in Bytes /\ up[e] = d \o u
    <2>1. n \in 0 .. Len(up[e])
      BY <1>1
    <2> QED  BY <1>3, <2>1, Split
  <1>5. buf' = [buf EXCEPT ![e] = buf[e] \o d] /\ up' = [up EXCEPT ![e] = u]
    BY <1>1
  <1> HIDE DEF d, u
  <1>6. buf[e] \o d \in Bytes
    BY <1>3, <1>4, Joined
  <1>7. buf'[e] = buf[e] \o d /\ up'[e] = u /\ got'[e] = got[e] /\ handler'[e] = "draining"
    BY <1>2, <1>5 DEF Streamed, StreamTyped, HandlerTyped
  <1>8. StreamTyped'
    BY <1>2, <1>4, <1>5, <1>6 DEF Streamed, StreamTyped
  <1>9. ASSUME NEW c \in Conns PROVE StreamOf(c)'
    <2>1. StreamOf(c)
      BY DEF Streamed
    <2>2. CASE c # e
      BY <1>2, <1>5, <2>1, <2>2 DEF StreamOf, Received, Streamed, StreamTyped, HandlerTyped
    <2>3. CASE c = e
      <3>1. PICK s \in Streams, p \in Bytes : Received(s, p, e)
        BY <1>2, <2>1, <2>3 DEF StreamOf
      <3>2. PICK q \in Bytes : q = p \o d
        BY <1>4, Joined
      <3>3. s = q \o u
        <4>1. s = p \o (d \o u)
          BY <1>4, <3>1 DEF Received
        <4> QED  BY <1>4, <3>2, <4>1, AnyOrder
      <3>4. ASSUME NEW x \in Bytes
            PROVE  Parsed[q \o x] = got[e] \o Parsed[(buf[e] \o d) \o x]
        <4>1. d \o x \in Bytes
          BY <1>4, Joined
        <4>2. Parsed[p \o (d \o x)] = got[e] \o Parsed[buf[e] \o (d \o x)]
          BY <3>1, <4>1 DEF Received
        <4>3. (p \o d) \o x = p \o (d \o x) /\ (buf[e] \o d) \o x = buf[e] \o (d \o x)
          <5>1. d \in Bytes
            BY <1>4
          <5>2. (p \o d) \o x = p \o (d \o x)
            BY <5>1, AnyOrder
          <5>3. (buf[e] \o d) \o x = buf[e] \o (d \o x)
            <6> DEFINE a == buf[e]
            <6>1. a \in Bytes
              BY <1>3
            <6> HIDE DEF a
            <6>2. (a \o d) \o x = a \o (d \o x)
              BY <5>1, <6>1, AnyOrder
            <6> QED  BY <6>2 DEF a
          <5> QED  BY <5>2, <5>3
        <4> QED  BY <3>2, <4>2, <4>3
      <3>5. Received(s, q, e)'
        BY <1>7, <3>3, <3>4 DEF Received
      <3>6. StreamOf(e)'
        BY <1>7, <3>5 DEF StreamOf
      <3> QED  BY <2>3, <3>6
    <2> QED  BY <2>2, <2>3
  <1> QED  BY <1>8, <1>9 DEF Streamed

\* One turn of the inner loop gives away what it takes, and stops only where nothing
\* more is to be had.
LEMMA DrainingStep ==
    ASSUME Streamed, HandlerTyped, NEW e \in Conns, Drain(e)
    PROVE  Streamed'
  <1> DEFINE b == buf[e]
  <1>1. up[e] \in Bytes /\ b \in Bytes /\ got[e] \in Seq(Bytes)
    BY DEF Streamed, StreamTyped
  <1>2. /\ up' = up /\ buf' = [buf EXCEPT ![e] = Kept(b)] /\ handler[e] = "draining"
        /\ got' = IF Verdict(b) = "frame" THEN [got EXCEPT ![e] = Append(@, Payload(b))] ELSE got
    BY DEF Drain
  <1>3. /\ handler' = [handler EXCEPT ![e] = handler'[e]] /\ handler'[e] \in {"draining", "reading", "remove"}
        /\ handler'[e] # "draining" => Verdict(b) \in {"more", "fail"}
    BY DEF Drain, ReadEnds, Goto, HandlerTyped
  <1>4. /\ Verdict(b) \in {"more", "resync", "fail", "frame"} /\ Kept(b) \in Bytes
        /\ Verdict(b) \in {"more", "fail"} => Kept(b) = b
        /\ Verdict(b) = "frame" => Payload(b) \in Bytes
    <2> HIDE DEF b
    <2> QED  BY <1>1, KeptBytes
  <1> DEFINE g == IF Verdict(b) = "frame" THEN Append(got[e], Payload(b)) ELSE got[e]
  <1>5. g \in Seq(Bytes)
    <2> HIDE DEF b
    <2>1. CASE Verdict(b) = "frame"
      BY <1>1, <1>4, <2>1, AppendProperties
    <2> QED  BY <1>1, <2>1
  <1>6. got' = [got EXCEPT ![e] = g]
    BY <1>2 DEF Streamed, StreamTyped
  <1>7. up'[e] = up[e] /\ buf'[e] = Kept(b) /\ got'[e] = g
    BY <1>2, <1>6 DEF Streamed, StreamTyped
  <1> HIDE DEF b, g
  <1>8. StreamTyped'
    BY <1>2, <1>4, <1>5, <1>6 DEF Streamed, StreamTyped
  <1>9. ASSUME NEW c \in Conns PROVE StreamOf(c)'
    <2>1. StreamOf(c)
      BY DEF Streamed
    <2>2. CASE c # e
      <3>1. up'[c] = up[c] /\ buf'[c] = buf[c] /\ got'[c] = got[c]
        BY <1>2, <1>6, <2>2 DEF Streamed, StreamTyped
      <3>2. handler'[c] = handler[c]
        BY <1>3, <2>2 DEF HandlerTyped
      <3> QED  BY <2>1, <3>1, <3>2 DEF StreamOf, Received
    <2>3. CASE c = e
      <3>1. PICK s \in Streams, p \in Bytes : Received(s, p, e)
        BY <1>2, <2>1, <2>3 DEF StreamOf
      <3>2. ASSUME NEW x \in Bytes
            PROVE  Parsed[p \o x] = g \o Parsed[Kept(b) \o x]
        <4>1. Parsed[p \o x] = got[e] \o Parsed[b \o x]
          BY <3>1 DEF Received, b
        <4>2. Kept(b) \o x \in Bytes
          BY <1>4, Joined
        <4>3. CASE Verdict(b) = "frame"
          <5>1. Parsed[b \o x] = <<Payload(b)>> \o Parsed[Kept(b) \o x]
            BY <1>1, <4>3, Turn
          <5>2. <<Payload(b)>> \in Seq(Bytes) /\ Parsed[Kept(b) \o x] \in Seq(Bytes)
            BY <1>4, <4>2, <4>3, ParsedType
          <5>3. g = got[e] \o <<Payload(b)>>
            BY <1>1, <1>4, <4>3, AppendIsConcat DEF g
          <5>4. (got[e] \o <<Payload(b)>>) \o Parsed[Kept(b) \o x]
                = got[e] \o (<<Payload(b)>> \o Parsed[Kept(b) \o x])
            <6> DEFINE q == <<Payload(b)>>
                       z == Parsed[Kept(b) \o x]
                       h == got[e]
            <6>1. h \in Seq(Bytes) /\ q \in Seq(Bytes) /\ z \in Seq(Bytes)
              BY <1>1, <5>2
            <6> HIDE DEF h, q, z
            <6>2. (h \o q) \o z = h \o (q \o z)
              BY <6>1, ConcatAssociative
            <6> QED  BY <6>2 DEF h, q, z
          <5> QED  BY <4>1, <5>1, <5>3, <5>4
        <4>4. CASE Verdict(b) = "resync"
          <5>1. Parsed[b \o x] = Parsed[Kept(b) \o x]
            BY <1>1, <4>4, Turn
          <5> QED  BY <4>1, <4>4, <5>1 DEF g
        <4>5. CASE Verdict(b) \in {"more", "fail"}
          BY <1>4, <4>1, <4>5 DEF g
        <4> QED  BY <1>4, <4>3, <4>4, <4>5
      <3>3. s = p \o up[e]
        BY <3>1 DEF Received
      <3>4. Received(s, p, e)'
        BY <1>7, <3>2, <3>3 DEF Received
      <3>5. handler'[e] # "none" /\ (handler'[e] # "draining" => Quiet(buf'[e]))
        BY <1>3, <1>4, <1>7 DEF Quiet
      <3> QED  BY <2>3, <3>4, <3>5 DEF StreamOf
    <2> QED  BY <2>2, <2>3
  <1> QED  BY <1>8, <1>9 DEF Streamed

LEMMA StreamedNext == Streamed /\ HandlerTyped /\ [Next]_vars => Streamed'
  <1> SUFFICES ASSUME Streamed, HandlerTyped, [Next]_vars PROVE Streamed'
    OBVIOUS
  <1>1. ASSUME NEW c \in Conns, Dial(c) PROVE Streamed'
    BY <1>1, DialStep
  <1>2. ASSUME NEW c \in Conns, Read(c) PROVE Streamed'
    BY <1>2, ReadingStep
  <1>3. ASSUME NEW c \in Conns, Drain(c) PROVE Streamed'
    BY <1>3, DrainingStep
  <1>4. ASSUME NEW c \in Conns,
               Track(c) \/ Handshake(c) \/ Register(c) \/ Displace(c) \/ ReadFails(c)
                 \/ RemoveSession(c) \/ Untrack(c) \/ Finish(c)
        PROVE  Streamed'
    <2>1. UNCHANGED reading
      BY <1>4 DEF Track, Handshake, Register, Displace, ReadFails, RemoveSession, Untrack, Finish
    <2>2. handler' = [handler EXCEPT ![c] = handler'[c]]
      BY <1>4 DEF Track, Handshake, Register, Displace, ReadFails, RemoveSession, Untrack, Finish,
           Goto, ReadEnds, HandlerTyped
    <2>3. handler[c] \notin {"none", "draining"}
      BY <1>4 DEF Track, Handshake, Register, Displace, ReadFails, RemoveSession, Untrack, Finish
    <2>4. handler'[c] \notin {"none", "draining"}
      BY <1>4 DEF Track, Handshake, Register, Displace, ReadFails, RemoveSession, Untrack, Finish,
           Goto, ReadEnds, HandlerTyped
    <2> QED  BY <2>1, <2>2, <2>3, <2>4, ElseStep
  <1>5. ASSUME Leave \/ Notice \/ Close \/ (\E s \in Senders : StartSend(s))
                 \/ (\E x \in Writers : Sending(x)) \/ UNCHANGED vars
        PROVE  Streamed'
    <2>1. UNCHANGED <<handler, reading>>
      BY <1>5 DEF Leave, Notice, Close, StartSend, Sending, Lock, Write, WriteAll, WriteTimesOut,
           WriteFails, vars, server
    <2> QED  BY <2>1, SameStep
  <1> QED  BY <1>1, <1>2, <1>3, <1>4, <1>5 DEF Next, Serving

\* What the inductive invariant says where the buffer holds nothing more to be had.
LEMMA StreamedIsParsed == Streamed => StreamIsParsed
  <1> SUFFICES ASSUME Streamed, NEW c \in Conns, handler[c] \in {"reading", "remove"}
               PROVE  \E s \in Streams : /\ Len(up[c]) <= Len(s)
                                         /\ up[c] = SubSeq(s, Len(s) - Len(up[c]) + 1, Len(s))
                                         /\ got[c] = Parsed[SubSeq(s, 1, Len(s) - Len(up[c]))]
    BY DEF StreamIsParsed
  <1>1. up[c] \in Bytes /\ buf[c] \in Bytes /\ got[c] \in Seq(Bytes) /\ Quiet(buf[c])
    BY DEF Streamed, StreamTyped, StreamOf
  <1>2. PICK s \in Streams, p \in Bytes : Received(s, p, c)
    BY DEF Streamed, StreamOf
  <1>3. s = p \o up[c] /\ Len(s) = Len(p) + Len(up[c]) /\ Len(p) \in Nat /\ Len(up[c]) \in Nat
    BY <1>1, <1>2, Joined DEF Received
  <1>4. Len(s) - Len(up[c]) = Len(p)
    BY <1>3
  <1>5. SubSeq(s, Len(p) + 1, Len(s)) = up[c] /\ SubSeq(s, 1, Len(p)) = p
    BY <1>1, <1>3, Cut
  <1>6. got[c] = Parsed[p]
    <2>1. <<>> \in Bytes /\ p \o <<>> = p /\ buf[c] \o <<>> = buf[c] /\ got[c] \o <<>> = got[c]
      BY <1>1, NothingJoined DEF Bytes
    <2>2. Parsed[p \o <<>>] = got[c] \o Parsed[buf[c] \o <<>>]
      BY <1>2, <2>1 DEF Received
    <2>3. Parsed[buf[c]] = <<>>
      BY <1>1, NothingLeft DEF Quiet
    <2> QED  BY <2>1, <2>2, <2>3
  <1>7. Len(up[c]) <= Len(s)
    BY <1>3
  <1>8. up[c] = SubSeq(s, Len(s) - Len(up[c]) + 1, Len(s))
    BY <1>4, <1>5
  <1>9. got[c] = Parsed[SubSeq(s, 1, Len(s) - Len(up[c]))]
    BY <1>4, <1>5, <1>6
  <1> QED  BY <1>7, <1>8, <1>9

\* A buffer the loop waits to be filled is below its cap.
LEMMA WaitsBelowCap ==
    ASSUME NEW b \in Bytes, Verdict(b) = "more"
    PROVE  ~Overflows(b)
  <1>0. Len(b) \in Nat /\ MaxPayload \in Nat
    BY LenProperties, TransportAssumption DEF Bytes
  <1>1. CASE Len(b) < HeaderSize
    BY <1>0, <1>1 DEF Overflows, HeaderSize
  <1>2. CASE ~(Len(b) < HeaderSize)
    <2>1. Len(b) >= HeaderSize
      BY <1>0, <1>2 DEF HeaderSize
    <2>2. Len(b) < FrameBytes(b) /\ ~TooLarge(b)
      BY <1>2 DEF Verdict
    <2>3. b[3] \in Nat /\ FrameBytes(b) \in Nat /\ FrameBytes(b) <= HeaderSize + b[3] + 1
      BY <2>1, Header
    <2> QED  BY <1>0, <2>2, <2>3 DEF Overflows, TooLarge, HeaderSize
  <1> QED  BY <1>1, <1>2

\* The inductive invariant of the read loop (server.go: readLoop).
THEOREM StreamInvariance == Spec => []Streamed
  <1>1. IInv => HandlerTyped
    BY DEF IInv, Typed, TypeOK, HandlerTyped
  <1> QED  BY <1>1, Invariance, StreamedInit, StreamedNext, PTL DEF Spec

\* The payloads given to OnFrame are those of what has been received, wherever the
\* reads cut it (server.go:423-427), for any set of streams and any cap.
THEOREM StreamParsed == Spec => []StreamIsParsed
  BY StreamInvariance, StreamedIsParsed, PTL

\* The guard against the buffer's growth is never needed (server.go:504-507).
THEOREM BufferIsBounded == Spec => []NeverOverflows
  <1>1. Streamed => NeverOverflows
    BY WaitsBelowCap DEF Streamed, StreamTyped, NeverOverflows
  <1> QED  BY <1>1, StreamInvariance, PTL

=============================================================================
