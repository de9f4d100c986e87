--------------------------- MODULE AVStreamProofs ---------------------------
(***************************************************************************)
(* That a stream keeps its order from end to end, that the clock of the    *)
(* audio is the newest one and that no task outlives its plugin, for every *)
(* length of the queues, every number of frames and every ring.            *)
(*                                                                         *)
(* The order rests on one invariant over all places a frame can be at: of  *)
(* two frames the one that is further downstream is the older one, and all *)
(* lie between the last frame played and the last one pushed. A step drops *)
(* the oldest frames of a place or moves the oldest one to the next place; *)
(* two lemmas about such steps carry all actions.                          *)
(***************************************************************************)
EXTENDS AVStream, SequenceTheorems, TLAPS

-----------------------------------------------------------------------------
(* The places *)

Place == 1 .. 7

Hand(p) == IF p.wk = "hand" THEN <<p.hand>> ELSE <<>>

\* What is where, downstream first.
Flow == [k \in Place |->
            CASE k = 1 -> Hand(pl["play"])
              [] k = 2 -> pl["play"].q
              [] k = 3 -> Hand(pl["snk"])
              [] k = 4 -> pl["snk"].q
              [] k = 5 -> wire
              [] k = 6 -> Hand(pl["src"])
              [] k = 7 -> pl["src"].q]

Flows == [Place -> Seq(Nat)]

\* Frames grow with their distance from the application; a null buffer has no
\* order.
Rising(F) ==
    \A j, k \in Place : \A a \in 1 .. Len(F[j]), b \in 1 .. Len(F[k]) :
        (j < k \/ (j = k /\ a < b)) => F[j][a] = 0 \/ F[k][b] = 0 \/ F[j][a] < F[k][b]

\* Frame f belongs behind place k, and before the next one.
Fits(F, k, f) ==
    f # 0 => \A j \in Place : \A a \in 1 .. Len(F[j]) :
                F[j][a] = 0 \/ IF j <= k THEN F[j][a] < f ELSE f < F[j][a]

\* t is s without some of its first frames.
Suffix(s, t) ==
    \E d \in 0 .. Len(s) : Len(t) = Len(s) - d /\ \A i \in 1 .. Len(t) : t[i] = s[i + d]

-----------------------------------------------------------------------------
(* The invariant *)

Order ==
    /\ Rising(Flow) /\ Fits(Flow, 0, played) /\ Fits(Flow, 7, pushed + 1)
    /\ got <= played /\ played <= pushed
    /\ \A i \in 1 .. Len(pl["play"].q) : pl["play"].q[i] # 0

\* A task is in its loop while its plugin runs or is being stopped.
StageInv(p) ==
    /\ p.wk # "out" => p.st = "RUNNING" \/ p.stop
    /\ p.stop => p.st = "PREPARED"
    /\ p.st \in {"PREPARED", "RUNNING"} => p.cb
    /\ p.wk \in {"hand", "clock"} => p.hand # 0

Stages ==
    /\ \A s \in Stage : StageInv(pl[s])
    /\ pl["src"].st = "RUNNING" \/ pl["src"].stop => opened
    /\ Video => pl["play"].wk = "out"

\* The last clock written is in the ring and none is newer.
Clock ==
    /\ written <= played
    /\ pl["play"].wk = "clock" => pl["play"].hand = played
    /\ \A i \in Units : ring[i] <= written
    /\ \E i \in Units : ring[i] = written

StreamInv == TypeOK /\ Stages /\ Order /\ Clock

-----------------------------------------------------------------------------
(* Sequences of frames *)

\* What a queue may be cut to: itself, nothing, its tail, or a later part.
LEMMA Suffixes ==
    ASSUME NEW S, NEW s \in Seq(S)
    PROVE  /\ Suffix(s, s) /\ Suffix(s, <<>>)
           /\ s # <<>> => Suffix(s, Tail(s))
           /\ \A i \in 1 .. Len(s) + 1 : SubSeq(s, i, Len(s)) \in Seq(S) /\ Suffix(s, SubSeq(s, i, Len(s)))
  <1>1. Len(s) \in Nat
    OBVIOUS
  <1>2. Suffix(s, s)
    <2>1. 0 \in 0 .. Len(s) /\ Len(s) = Len(s) - 0 /\ \A i \in 1 .. Len(s) : s[i] = s[i + 0]
      BY <1>1
    <2> QED
      BY <2>1 DEF Suffix
  <1>3. Suffix(s, <<>>)
    <2>1. Len(s) \in 0 .. Len(s) /\ Len(<<>>) = Len(s) - Len(s) /\ \A i \in 1 .. Len(<<>>) : FALSE
      BY <1>1
    <2> QED
      BY <2>1 DEF Suffix
  <1>4. ASSUME s # <<>> PROVE Suffix(s, Tail(s))
    <2>1. 1 \in 0 .. Len(s) /\ Len(Tail(s)) = Len(s) - 1 /\ \A i \in 1 .. Len(Tail(s)) : Tail(s)[i] = s[i + 1]
      BY <1>1, <1>4
    <2> QED
      BY <2>1 DEF Suffix
  <1>5. ASSUME NEW i \in 1 .. Len(s) + 1
        PROVE  SubSeq(s, i, Len(s)) \in Seq(S) /\ Suffix(s, SubSeq(s, i, Len(s)))
    <2> DEFINE t == SubSeq(s, i, Len(s))
               d == i - 1
    <2>1. d \in 0 .. Len(s) /\ Len(t) = Len(s) - d /\ \A j \in 1 .. Len(t) : t[j] = s[j + d]
      BY <1>1
    <2>2. t \in Seq(S)
      BY <1>1
    <2> HIDE DEF t, d
    <2>3. Suffix(s, t)
      BY <2>1 DEF Suffix
    <2> QED
      BY <2>2, <2>3 DEF t
  <1> QED
    BY <1>2, <1>3, <1>4, <1>5

\* A later part of a queue begins with the frame it is cut at.
LEMMA LaterPart ==
    ASSUME NEW S, NEW s \in Seq(S), NEW i \in 1 .. Len(s)
    PROVE  LET y == SubSeq(s, i, Len(s))
           IN  y # <<>> /\ Tail(y) = SubSeq(s, i + 1, Len(s)) /\ Head(y) = s[i]
  <1>1. Len(s) \in Nat /\ i \in Int /\ Len(s) \in Int /\ i <= Len(s) /\ Len(s) \in i .. Len(s)
        /\ \A j \in i .. Len(s) : s[j] \in S
    OBVIOUS
  <1>2. Len(SubSeq(s, i, Len(s))) = Len(s) - i + 1
    BY <1>1, SubSeqProperties
  <1>3. SubSeq(s, i, Len(s)) # <<>>
    <2>1. Len(s) - i + 1 # 0
      BY <1>1
    <2>2. Len(<<>>) = 0
      OBVIOUS
    <2> QED
      BY <1>2, <2>1, <2>2, Zenon
  <1> QED
    BY <1>1, <1>3, HeadTailOfSubSeq

\* A queue that is cleared.
LEMMA NoFrames == <<>> \in Seq(Frame)
  BY EmptySeq

\* The elements of a suffix are elements of the sequence, in the same order.
LEMMA SuffixElements ==
    ASSUME NEW s \in Seq(Nat), NEW t \in Seq(Nat), Suffix(s, t)
    PROVE  \E d \in Nat : \A i \in 1 .. Len(t) : i + d \in 1 .. Len(s) /\ t[i] = s[i + d] /\ t[i] \in Nat
  <1>1. PICK d \in 0 .. Len(s) : Len(t) = Len(s) - d /\ \A i \in 1 .. Len(t) : t[i] = s[i + d]
    BY DEF Suffix
  <1>2. Len(s) \in Nat /\ d \in Nat /\ Len(t) \in Nat
    BY <1>1
  <1>3. \A i \in 1 .. Len(t) : i + d \in 1 .. Len(s) /\ t[i] \in Nat
    BY <1>1, <1>2
  <1> QED
    BY <1>1, <1>2, <1>3

-----------------------------------------------------------------------------
(* Steps of frames *)

\* Frames are lost, at each place the oldest first.
LEMMA Drop ==
    ASSUME NEW F \in Flows, NEW G \in Flows, \A k \in Place : Suffix(F[k], G[k]), Rising(F)
    PROVE  Rising(G) /\ \A n \in 0 .. 7, f \in Nat : Fits(F, n, f) => Fits(G, n, f)
  <1>1. ASSUME NEW k \in Place
        PROVE  \E d \in Nat : \A i \in 1 .. Len(G[k]) : i + d \in 1 .. Len(F[k]) /\ G[k][i] = F[k][i + d]
    <2>1. F[k] \in Seq(Nat) /\ G[k] \in Seq(Nat) /\ Suffix(F[k], G[k])
      BY DEF Flows
    <2> QED
      BY <2>1, SuffixElements
  <1>2. Rising(G)
    <2> SUFFICES ASSUME NEW i \in Place, NEW j \in Place, NEW a \in 1 .. Len(G[i]), NEW b \in 1 .. Len(G[j]),
                        i < j \/ (i = j /\ a < b)
                 PROVE  G[i][a] = 0 \/ G[j][b] = 0 \/ G[i][a] < G[j][b]
      BY DEF Rising
    <2>1. PICK d \in Nat : \A x \in 1 .. Len(G[i]) : x + d \in 1 .. Len(F[i]) /\ G[i][x] = F[i][x + d]
      BY <1>1
    <2>2. PICK e \in Nat : \A x \in 1 .. Len(G[j]) : x + e \in 1 .. Len(F[j]) /\ G[j][x] = F[j][x + e]
      BY <1>1
    <2>3. CASE i < j
      BY <2>1, <2>2, <2>3 DEF Rising
    <2>4. CASE i = j /\ a < b
      <3>1. a + d \in 1 .. Len(F[i]) /\ b + d \in 1 .. Len(F[i]) /\ a + d < b + d
        BY <2>1, <2>4
      <3>2. G[i][a] = F[i][a + d] /\ G[j][b] = F[i][b + d]
        BY <2>1, <2>4
      <3> QED
        BY <3>1, <3>2 DEF Rising
    <2> QED
      BY <2>3, <2>4
  <1>3. ASSUME NEW n \in 0 .. 7, NEW f \in Nat, Fits(F, n, f)
        PROVE  Fits(G, n, f)
    <2> SUFFICES ASSUME f # 0, NEW i \in Place, NEW a \in 1 .. Len(G[i])
                 PROVE  G[i][a] = 0 \/ IF i <= n THEN G[i][a] < f ELSE f < G[i][a]
      BY DEF Fits
    <2>1. PICK d \in Nat : \A x \in 1 .. Len(G[i]) : x + d \in 1 .. Len(F[i]) /\ G[i][x] = F[i][x + d]
      BY <1>1
    <2> QED
      BY <1>3, <2>1 DEF Fits
  <1> QED
    BY <1>2, <1>3

\* A frame comes to the end of a place where it fits.
LEMMA Add ==
    ASSUME NEW F \in Flows, NEW G \in Flows, NEW k \in Place, NEW f \in Nat,
           G[k] = Append(F[k], f), \A j \in Place \ {k} : G[j] = F[j],
           Rising(F), Fits(F, k, f)
    PROVE  /\ Rising(G)
           /\ \A n \in 0 .. 7, g \in Nat :
                 Fits(F, n, g) /\ (f = 0 \/ g = 0 \/ IF k <= n THEN f < g ELSE g < f) => Fits(G, n, g)
  <1>1. /\ Len(F[k]) \in Nat /\ Len(G[k]) = Len(F[k]) + 1 /\ G[k][Len(F[k]) + 1] = f
        /\ \A i \in 1 .. Len(F[k]) : G[k][i] = F[k][i]
    BY DEF Flows
  <1>2. \A j \in Place : \A a \in 1 .. Len(G[j]) :
           \/ a \in 1 .. Len(F[j]) /\ G[j][a] = F[j][a]
           \/ j = k /\ a = Len(F[k]) + 1 /\ G[j][a] = f
    BY <1>1
  <1>3. Rising(G)
    <2> SUFFICES ASSUME NEW i \in Place, NEW j \in Place, NEW a \in 1 .. Len(G[i]), NEW b \in 1 .. Len(G[j]),
                        i < j \/ (i = j /\ a < b)
                 PROVE  G[i][a] = 0 \/ G[j][b] = 0 \/ G[i][a] < G[j][b]
      BY DEF Rising
    <2>1. CASE a \in 1 .. Len(F[i]) /\ G[i][a] = F[i][a] /\ b \in 1 .. Len(F[j]) /\ G[j][b] = F[j][b]
      BY <2>1 DEF Rising
    <2>2. CASE a \in 1 .. Len(F[i]) /\ G[i][a] = F[i][a] /\ j = k /\ b = Len(F[k]) + 1 /\ G[j][b] = f
      <3>1. i <= k
        BY <2>2 DEF Place
      <3> QED
        BY <2>2, <3>1 DEF Fits
    <2>3. CASE i = k /\ a = Len(F[k]) + 1 /\ G[i][a] = f /\ b \in 1 .. Len(F[j]) /\ G[j][b] = F[j][b]
      <3>1. ~(j <= k)
        BY <1>1, <2>3 DEF Place
      <3> QED
        BY <2>3, <3>1 DEF Fits
    <2>4. ~(i = k /\ a = Len(F[k]) + 1 /\ j = k /\ b = Len(F[k]) + 1)
      BY <1>1 DEF Place
    <2> QED
      BY <1>2, <2>1, <2>2, <2>3, <2>4
  <1>4. ASSUME NEW n \in 0 .. 7, NEW g \in Nat, Fits(F, n, g),
               f = 0 \/ g = 0 \/ IF k <= n THEN f < g ELSE g < f
        PROVE  Fits(G, n, g)
    BY <1>2, <1>4 DEF Fits
  <1> QED
    BY <1>3, <1>4

\* The oldest frame of a place, once it is gone from there, fits just before it.
LEMMA Taken ==
    ASSUME NEW F \in Flows, NEW k \in Place, F[k] # <<>>, Rising(F), NEW G \in Flows,
           G[k] = Tail(F[k]), \A j \in Place \ {k} : G[j] = F[j]
    PROVE  /\ Rising(G) /\ Fits(G, k - 1, Head(F[k])) /\ Head(F[k]) \in Nat
           /\ \A n \in 0 .. 7, g \in Nat : Fits(F, n, g) =>
                 /\ Fits(G, n, g)
                 /\ Head(F[k]) = 0 \/ g = 0 \/ IF k <= n THEN Head(F[k]) < g ELSE g < Head(F[k])
  <1> DEFINE f == Head(F[k])
  <1>1. /\ f = F[k][1] /\ f \in Nat /\ 1 \in 1 .. Len(F[k])
        /\ \A a \in 1 .. Len(G[k]) : a + 1 \in 1 .. Len(F[k]) /\ 1 < a + 1 /\ G[k][a] = F[k][a + 1]
    BY DEF Flows
  <1>2. \A j \in Place : F[j] \in Seq(Nat) /\ Suffix(F[j], G[j])
    BY Suffixes DEF Flows
  <1>3. Rising(G) /\ \A n \in 0 .. 7, g \in Nat : Fits(F, n, g) => Fits(G, n, g)
    BY <1>2, Drop
  <1> HIDE DEF f
  <1>4. Fits(G, k - 1, f)
    <2> SUFFICES ASSUME NEW j \in Place, NEW a \in 1 .. Len(G[j]), f # 0
                 PROVE  G[j][a] = 0 \/ IF j <= k - 1 THEN G[j][a] < f ELSE f < G[j][a]
      BY DEF Fits
    <2>1. CASE j < k
      <3>1. j <= k - 1
        BY <2>1 DEF Place
      <3> QED
        BY <1>1, <2>1, <3>1 DEF Rising
    <2>2. CASE j = k
      <3>1. ~(j <= k - 1)
        BY <2>2 DEF Place
      <3>2. a + 1 \in 1 .. Len(F[k]) /\ 1 < a + 1 /\ G[j][a] = F[k][a + 1]
        BY <1>1, <2>2
      <3>3. F[k][1] = 0 \/ F[k][a + 1] = 0 \/ F[k][1] < F[k][a + 1]
        BY <1>1, <3>2 DEF Rising
      <3> QED
        BY <1>1, <3>1, <3>2, <3>3
    <2>3. CASE k < j
      <3>1. ~(j <= k - 1)
        BY <2>3 DEF Place
      <3> QED
        BY <1>1, <2>3, <3>1 DEF Rising
    <2> QED
      BY <2>1, <2>2, <2>3 DEF Place
  <1>5. \A n \in 0 .. 7, g \in Nat : Fits(F, n, g) => f = 0 \/ g = 0 \/ IF k <= n THEN f < g ELSE g < f
    BY <1>1 DEF Fits
  <1> QED
    BY <1>1, <1>3, <1>4, <1>5 DEF f

\* The oldest frame of a place, or a null buffer instead of it, moves to the end
\* of the one before, which may lose some of its own.
Moved(F, G, k, c, f) ==
    /\ F[k] # <<>> /\ G[k] = Tail(F[k]) /\ (f = 0 \/ f = Head(F[k]))
    /\ Suffix(F[k - 1], c) /\ G[k - 1] = Append(c, f)
    /\ \A j \in Place \ {k - 1, k} : G[j] = F[j]

\* That keeps the order.
LEMMA Move ==
    ASSUME NEW F \in Flows, NEW G \in Flows, NEW k \in Place \ {1}, NEW c \in Seq(Nat), NEW f,
           Rising(F), Moved(F, G, k, c, f)
    PROVE  Rising(G) /\ \A n \in {0, 7}, g \in Nat : Fits(F, n, g) => Fits(G, n, g)
  <1> USE DEF Moved
  <1> DEFINE H == [F EXCEPT ![k] = Tail(F[k])]
             J == [H EXCEPT ![k - 1] = c]
  <1>1. /\ k - 1 \in Place /\ k - 1 # k /\ f \in Nat /\ Tail(F[k]) \in Seq(Nat)
    <2>1. F[k] \in Seq(Nat)
      BY DEF Flows
    <2>2. Head(F[k]) \in Nat /\ f \in Nat /\ Tail(F[k]) \in Seq(Nat)
      BY <2>1
    <2>3. k - 1 \in Place /\ k - 1 # k
      BY DEF Place
    <2> QED
      BY <2>2, <2>3
  <1>2. H \in Flows /\ H[k] = Tail(F[k]) /\ \A j \in Place \ {k} : H[j] = F[j]
    BY <1>1 DEF Flows
  <1>3. J \in Flows /\ J[k - 1] = c /\ \A j \in Place \ {k - 1} : J[j] = H[j]
    BY <1>1, <1>2 DEF Flows
  <1>4. G[k - 1] = Append(J[k - 1], f) /\ \A j \in Place \ {k - 1} : G[j] = J[j]
    BY <1>1, <1>2, <1>3
  <1> HIDE DEF H, J
  <1>5. /\ Rising(H) /\ Fits(H, k - 1, f)
        /\ \A n \in 0 .. 7, g \in Nat : Fits(F, n, g) =>
              Fits(H, n, g) /\ (f = 0 \/ g = 0 \/ IF k <= n THEN f < g ELSE g < f)
    <2>1. /\ Rising(H) /\ Fits(H, k - 1, Head(F[k]))
          /\ \A n \in 0 .. 7, g \in Nat : Fits(F, n, g) =>
                /\ Fits(H, n, g)
                /\ Head(F[k]) = 0 \/ g = 0 \/ IF k <= n THEN Head(F[k]) < g ELSE g < Head(F[k])
      BY <1>2, Taken
    <2>2. CASE f = 0
      BY <2>1, <2>2 DEF Fits
    <2>3. CASE f = Head(F[k])
      BY <2>1, <2>3
    <2> QED
      BY <2>2, <2>3
  <1>6. /\ Rising(J) /\ Fits(J, k - 1, f)
        /\ \A n \in 0 .. 7, g \in Nat : Fits(H, n, g) => Fits(J, n, g)
    <2>1. \A j \in Place : H[j] \in Seq(Nat) /\ Suffix(H[j], J[j])
      BY <1>1, <1>2, <1>3, Suffixes DEF Flows
    <2>2. Rising(J) /\ \A n \in 0 .. 7, g \in Nat : Fits(H, n, g) => Fits(J, n, g)
      BY <1>2, <1>3, <1>5, <2>1, Drop
    <2> QED
      BY <1>1, <1>5, <2>2 DEF Place
  <1>7. /\ Rising(G)
        /\ \A n \in 0 .. 7, g \in Nat :
              Fits(J, n, g) /\ (f = 0 \/ g = 0 \/ IF k - 1 <= n THEN f < g ELSE g < f) => Fits(G, n, g)
    BY <1>1, <1>3, <1>4, <1>6, Add
  <1>8. ASSUME NEW n \in {0, 7}, NEW g \in Nat, Fits(F, n, g)
        PROVE  Fits(G, n, g)
    <2>1. n \in 0 .. 7 /\ ((k <= n) <=> (k - 1 <= n))
      BY DEF Place
    <2> QED
      BY <1>5, <1>6, <1>7, <1>8, <2>1
  <1> QED
    BY <1>7, <1>8

\* A later frame fits at the end too.
LEMMA FitsMore ==
    ASSUME NEW F \in Flows, NEW f \in Nat \ {0}, Fits(F, 7, f)
    PROVE  Fits(F, 7, f + 1)
  <1> SUFFICES ASSUME NEW j \in Place, NEW a \in 1 .. Len(F[j])
               PROVE  F[j][a] = 0 \/ IF j <= 7 THEN F[j][a] < f + 1 ELSE f + 1 < F[j][a]
    BY DEF Fits
  <1>1. j <= 7
    BY DEF Place
  <1>2. F[j] \in Seq(Nat)
    BY DEF Flows
  <1>3. F[j][a] \in Nat
    BY <1>2
  <1>4. F[j][a] = 0 \/ F[j][a] < f
    BY <1>1 DEF Fits
  <1> QED
    BY <1>1, <1>3, <1>4

-----------------------------------------------------------------------------
(* The plugins *)

\* n is p with queue x.
Requeued(p, n, x) ==
    /\ n \in Plugin /\ n.q = x /\ n.st = p.st /\ n.wk = p.wk /\ n.hand = p.hand
    /\ n.stop = p.stop /\ n.cb = p.cb /\ Hand(n) = Hand(p)

\* Such a plugin is what a change of the queue makes.
LEMMA WithQueue ==
    ASSUME NEW p \in Plugin, NEW x \in Seq(Frame)
    PROVE  Requeued(p, [p EXCEPT !.q = x], x)
  <1> DEFINE n == [p EXCEPT !.q = x]
  <1>1. /\ n \in Plugin /\ n.q = x /\ n.st = p.st /\ n.wk = p.wk /\ n.hand = p.hand
        /\ n.stop = p.stop /\ n.cb = p.cb
    BY DEF Plugin
  <1> HIDE DEF n
  <1>2. Hand(n) = Hand(p)
    BY <1>1 DEF Hand
  <1>3. Requeued(p, n, x)
    BY <1>1, <1>2 DEF Requeued
  <1> QED
    BY <1>3 DEF n

\* Enqueue makes room, if it must, and appends.
LEMMA EnqueueCuts ==
    ASSUME NEW p \in Plugin, NEW f \in Frame
    PROVE  \E c \in Seq(Frame) : Suffix(p.q, c) /\ Requeued(p, Enqueue(p, f), Append(c, f))
  <1> DEFINE n == Len(p.q)
             i == n - DATA_QUEUE_MAX_SIZE + 2
             c == IF n >= DATA_QUEUE_MAX_SIZE THEN SubSeq(p.q, i, n) ELSE p.q
  <1>1. n \in Nat /\ DATA_QUEUE_MAX_SIZE \in Nat /\ DATA_QUEUE_MAX_SIZE > 0 /\ p.q \in Seq(Frame)
    BY StreamAssumption DEF Plugin
  <1>2. c \in Seq(Frame) /\ Suffix(p.q, c)
    <2>1. CASE n >= DATA_QUEUE_MAX_SIZE
      <3>1. i \in 1 .. n + 1
        BY <1>1, <2>1
      <3>2. SubSeq(p.q, i, n) \in Seq(Frame) /\ Suffix(p.q, SubSeq(p.q, i, n))
        BY <1>1, <3>1, Suffixes
      <3> QED
        BY <2>1, <3>2
    <2>2. CASE ~(n >= DATA_QUEUE_MAX_SIZE)
      BY <1>1, <2>2, Suffixes
    <2> QED
      BY <2>1, <2>2
  <1>3. Enqueue(p, f) = [p EXCEPT !.q = Append(c, f)]
    BY Zenon DEF Enqueue
  <1> HIDE DEF c
  <1>4. Append(c, f) \in Seq(Frame)
    BY <1>2
  <1>5. Requeued(p, [p EXCEPT !.q = Append(c, f)], Append(c, f))
    BY <1>4, WithQueue, Zenon
  <1>6. Requeued(p, Enqueue(p, f), Append(c, f))
    BY <1>3, <1>5, Zenon
  <1> QED
    BY <1>2, <1>6, Zenon

\* A task that has left its loop.
LEMMA ReturnedPlugin ==
    ASSUME NEW p \in Plugin
    PROVE  LET n == Returned(p)
           IN  /\ n \in Plugin /\ n.q = p.q /\ n.st = p.st /\ n.wk = "out"
               /\ n.stop = p.stop /\ n.cb = p.cb /\ Hand(n) = <<>>
  <1> DEFINE n == Returned(p)
  <1>1. 0 \in Frame
    BY StreamAssumption DEF Frame
  <1>2. /\ n \in Plugin /\ n.q = p.q /\ n.st = p.st /\ n.wk = "out"
        /\ n.stop = p.stop /\ n.cb = p.cb
    BY <1>1 DEF Plugin, Returned
  <1> QED
    BY <1>2 DEF Hand

\* What the calls of the plugin classes have in common.
LEMMA PluginCalls ==
    ASSUME NEW s \in Stage, NEW p \in Plugin, NEW ok \in BOOLEAN
    PROVE  /\ PluginPrepare(s, p, ok) \in {p, [p EXCEPT !.st = "PREPARED"]}
           /\ PluginStart(s, p) = Running(p)
           /\ PluginStop(s, p) \in {Stopping(p), DataQueueClear(Stopping(p))}
           /\ PluginReset(s, p) = Cleared(p)
  BY DEF Stage, PluginPrepare, PluginStart, PluginStop, PluginReset, Prepared, OutVideoPrepare, OutAudioPrepare,
         InVideoPrepare, InAudioPrepare, AudioOutPrepare, OutVideoStart, OutAudioStart, InVideoStart,
         InAudioStart, AudioOutStart, OutVideoStop, OutAudioStop, InVideoStop, InAudioStop, AudioOutStop,
         OutVideoReset, OutAudioReset, InVideoReset, InAudioReset, AudioOutReset

\* A task starts to wait, takes the first frame, or leaves its loop.
LEMMA LoopSteps ==
    ASSUME NEW p \in Plugin, NEW ask \in BOOLEAN, NEW n \in Loop(p, ask)
    PROVE  /\ n \in Plugin /\ n.st = p.st /\ n.stop = p.stop /\ n.cb = p.cb
           /\ \/ p.wk = "out" /\ p.st = "RUNNING" /\ n.wk = "wait" /\ n.q = p.q
              \/ /\ p.wk = "wait" /\ p.q # <<>> /\ n.q = Tail(p.q)
                 /\ n.wk = "hand" /\ n.hand = Head(p.q) /\ n.hand # 0
              \/ p.wk = "wait" /\ n.wk = "out" /\ (n.q = p.q \/ (p.q # <<>> /\ n.q = Tail(p.q)))
  <1> DEFINE taken == [p EXCEPT !.wk = "hand", !.hand = Head(p.q), !.q = Tail(@)]
  <1>1. CASE p.wk = "out" /\ p.st = "RUNNING"
    <2>1. n = [p EXCEPT !.wk = "wait"]
      BY <1>1 DEF Loop
    <2> QED
      BY <1>1, <2>1 DEF Plugin
  <1>2. CASE p.wk = "wait" /\ p.q # <<>> /\ (ask => p.st = "RUNNING")
    <2>1. n = IF taken.hand = 0 THEN Returned(taken) ELSE taken
      BY <1>2 DEF Loop
    <2>2. p.q \in Seq(Frame) /\ Head(p.q) \in Frame /\ Tail(p.q) \in Seq(Frame)
      BY <1>2 DEF Plugin
    <2>3. /\ taken \in Plugin /\ taken.st = p.st /\ taken.stop = p.stop /\ taken.cb = p.cb
          /\ taken.wk = "hand" /\ taken.hand = Head(p.q) /\ taken.q = Tail(p.q)
      BY <2>2 DEF Plugin
    <2> HIDE DEF taken
    <2>4. CASE taken.hand = 0
      <3>1. n = [taken EXCEPT !.wk = "out", !.hand = 0]
        BY <2>1, <2>4 DEF Returned
      <3>2. 0 \in Frame
        BY StreamAssumption DEF Frame
      <3> QED
        BY <1>2, <2>3, <3>1, <3>2 DEF Plugin
    <2>5. CASE taken.hand # 0
      BY <1>2, <2>1, <2>3, <2>5
    <2> QED
      BY <2>4, <2>5
  <1>3. CASE p.wk = "wait" /\ p.st # "RUNNING" /\ (p.q = <<>> \/ ask)
    <2>1. n = Returned(p) \/ (p.wk = "wait" /\ p.q # <<>> /\ (ask => p.st = "RUNNING"))
      BY <1>3 DEF Loop
    <2>2. 0 \in Frame
      BY StreamAssumption DEF Frame
    <2>3. CASE n = Returned(p)
      BY <1>3, <2>2, <2>3 DEF Returned, Plugin
    <2> QED
      BY <1>2, <2>1, <2>3
  <1> QED
    BY <1>1, <1>2, <1>3 DEF Loop

-----------------------------------------------------------------------------
(* The places of the stages *)

QueueAt(s) == CASE s = "src" -> 7 [] s = "snk" -> 4 [] s = "play" -> 2
HandAt(s) == CASE s = "src" -> 6 [] s = "snk" -> 3 [] s = "play" -> 1

\* Each place of the flow, by its number.
LEMMA FlowPlaces ==
    /\ \A s \in Stage : Flow[QueueAt(s)] = pl[s].q /\ Flow[HandAt(s)] = Hand(pl[s])
    /\ Flow[5] = wire
    /\ \A s \in Stage : Flow'[QueueAt(s)] = pl'[s].q /\ Flow'[HandAt(s)] = Hand(pl'[s])
    /\ Flow'[5] = wire'
    /\ \A k \in Place : k = 5 \/ \E s \in Stage : k = QueueAt(s) \/ k = HandAt(s)
  <1>1. Place = {1, 2, 3, 4, 5, 6, 7}
    BY DEF Place
  <1> QED
    BY <1>1 DEF Flow, Stage, QueueAt, HandAt

\* Frames are numbers, and are compared as such.
LEMMA FramesAreNat == \A x \in Seq(Frame) : x \in Seq(Nat)
  <1>1. Frame \subseteq Nat
    BY DEF Frame
  <1> QED
    BY <1>1, SeqMonotonic

\* Every place of the flow holds a sequence of frames.
LEMMA FlowTypes ==
    /\ pl \in [Stage -> Plugin] /\ wire \in Seq(Frame) => Flow \in Flows
    /\ pl' \in [Stage -> Plugin] /\ wire' \in Seq(Frame) => Flow' \in Flows
  <1>1. \A p \in Plugin : p.q \in Seq(Frame) /\ p.hand \in Nat
    BY DEF Plugin, Frame
  <1>2. \A p \in Plugin : Hand(p) \in Seq(Nat) /\ p.q \in Seq(Nat)
    BY <1>1, FramesAreNat DEF Hand
  <1>3. \A x \in Seq(Frame) : x \in Seq(Nat)
    BY FramesAreNat
  <1>4. Place = {1, 2, 3, 4, 5, 6, 7}
    BY DEF Place
  <1> QED
    BY <1>2, <1>3, <1>4 DEF Flow, Flows, Stage

-----------------------------------------------------------------------------
(* Steps that move no frame forward *)

\* A stage is prepared, started, stopped or leaves its loop, frames are lost.
LEMMA QuietStep ==
    ASSUME StreamInv, UNCHANGED <<kind, ring, written, ends>>,
           pl' \in [Stage -> Plugin], wire' \in Seq(Frame), opened' \in BOOLEAN,
           shared' \in BOOLEAN, smIndex' \in Units, lives' \in 0 .. MaxLives,
           Suffix(wire, wire'),
           \A s \in Stage : /\ Suffix(pl[s].q, pl'[s].q) /\ Suffix(Hand(pl[s]), Hand(pl'[s]))
                            /\ StageInv(pl'[s]),
           pl'["src"].st = "RUNNING" \/ pl'["src"].stop => opened',
           Video => pl'["play"].wk = "out",
           pl'["play"].wk = "clock" => pl["play"].wk = "clock" /\ pl'["play"].hand = pl["play"].hand
    PROVE  StreamInv'
  <1>1. TypeOK'
    BY DEF StreamInv, TypeOK, ends, sink, Units
  <1>2. Stages'
    BY DEF Stages, Video
  <1>3. Order'
    <2>1. Flow \in Flows /\ Flow' \in Flows
      BY FlowTypes DEF StreamInv, TypeOK
    <2>2. \A k \in Place : Suffix(Flow[k], Flow'[k])
      BY FlowPlaces
    <2>3. Rising(Flow) /\ Fits(Flow, 0, played) /\ Fits(Flow, 7, pushed + 1) /\ played \in Nat /\ pushed \in Nat
      BY DEF StreamInv, Order, TypeOK, Frame
    <2>4. Rising(Flow') /\ \A n \in 0 .. 7, f \in Nat : Fits(Flow, n, f) => Fits(Flow', n, f)
      BY <2>1, <2>2, <2>3, Drop
    <2>5. played' = played /\ pushed' = pushed /\ got' = got /\ 0 \in 0 .. 7 /\ 7 \in 0 .. 7 /\ pushed + 1 \in Nat
      BY <2>3 DEF ends, sink
    <2>6. Rising(Flow') /\ Fits(Flow', 0, played') /\ Fits(Flow', 7, pushed' + 1)
      BY <2>3, <2>4, <2>5
    <2>7. \A i \in 1 .. Len(pl'["play"].q) : pl'["play"].q[i] # 0
      <3>1. /\ pl["play"].q \in Seq(Nat) /\ pl'["play"].q \in Seq(Nat)
            /\ Suffix(pl["play"].q, pl'["play"].q)
        BY FramesAreNat DEF StreamInv, TypeOK, Stage, Plugin
      <3>2. PICK d \in Nat : \A i \in 1 .. Len(pl'["play"].q) :
                i + d \in 1 .. Len(pl["play"].q) /\ pl'["play"].q[i] = pl["play"].q[i + d]
        BY <3>1, SuffixElements
      <3> QED
        BY <3>2 DEF StreamInv, Order
    <2> QED
      BY <2>5, <2>6, <2>7 DEF StreamInv, Order
  <1>4. Clock'
    BY DEF StreamInv, Clock, ends, sink, Units
  <1> QED
    BY <1>1, <1>2, <1>3, <1>4 DEF StreamInv

\* The clock of an output that is reset: the memory is not read any more.
LEMMA ClockResetTypes ==
    ASSUME TypeOK, NEW s \in Stage, ClockReset(s)
    PROVE  shared' \in BOOLEAN /\ smIndex' \in Units /\ UNCHANGED <<ring, written>>
  <1>1. 0 \in Units
    BY StreamAssumption DEF Units
  <1> QED
    BY <1>1 DEF ClockReset, clock, TypeOK

\* A plugin that does not run, made new, reset or configured again.
Same(p, n) == n \in Plugin /\ n.q \in {p.q, <<>>} /\ n.wk = p.wk /\ n.hand = p.hand /\ n.stop = p.stop

\* What a Prepare changes of a plugin.
LEMMA PrepareEffect ==
    ASSUME NEW s \in Stage, pl[s] \in Plugin, NEW far \in {"find", "configure", "prepare", "done"},
           pl[s].st \in {"none", "CREATED", "INITIALIZED"}
    PROVE  \A n \in {InFilterPrepare(s, far), OutFilterPrepare(s, far)} :
              /\ Same(pl[s], n) /\ n.st # "RUNNING"
              /\ n.st = "PREPARED" => n.cb
  <1> DEFINE p == pl[s]
             found == OutFindPlugin(s, p, far)
             ready == OutConfigPlugin(found)
  <1>0. p \in Plugin /\ p.st \in {"none", "CREATED", "INITIALIZED"}
    OBVIOUS
  <1> HIDE DEF p
  <1>1. Same(p, found) /\ found.st \in {"none", "CREATED", "INITIALIZED"}
    <2>0. PluginReset(s, p) = Cleared(p)
      BY <1>0, PluginCalls
    <2>1. found \in {p, [p EXCEPT !.st = "CREATED"], Cleared(p)}
      BY <2>0 DEF OutFindPlugin, OutCreatePlugin
    <2>2. CASE found = p
      BY <1>0, <2>2 DEF Same
    <2>3. CASE found = [p EXCEPT !.st = "CREATED"]
      BY <1>0, <2>3 DEF Same, Plugin
    <2>4. CASE found = Cleared(p)
      <3>1. found = [p EXCEPT !.q = <<>>, !.st = "INITIALIZED", !.cb = FALSE]
        BY <1>0, <2>4 DEF Cleared, DataQueueClear, Plugin
      <3> QED
        BY <1>0, <3>1, NoFrames DEF Same, Plugin
    <2> QED
      BY <2>1, <2>2, <2>3, <2>4
  <1>2. found = InFindPlugin(s, p, far)
    BY DEF OutFindPlugin, InFindPlugin, OutCreatePlugin, InCreatePlugin
  <1>3. ready = InConfigPlugin(found)
    BY DEF OutConfigPlugin, InConfigPlugin
  <1> HIDE DEF found
  <1>4. Same(p, ready) /\ ready.st = "INITIALIZED" /\ ready.cb
    <2>1. ready = [found EXCEPT !.st = "INITIALIZED", !.cb = TRUE]
      BY <1>1 DEF OutConfigPlugin, InitPlugin, Same, Plugin
    <2> QED
      BY <1>1, <2>1 DEF Same, Plugin
  <1> HIDE DEF ready
  <1>5. \A ok \in BOOLEAN : LET n == PluginPrepare(s, ready, ok)
                            IN  Same(p, n) /\ n.st \in {"INITIALIZED", "PREPARED"} /\ n.cb
    <2> SUFFICES ASSUME NEW ok \in BOOLEAN
                 PROVE  LET n == PluginPrepare(s, ready, ok)
                        IN  Same(p, n) /\ n.st \in {"INITIALIZED", "PREPARED"} /\ n.cb
      OBVIOUS
    <2>1. PluginPrepare(s, ready, ok) \in {ready, [ready EXCEPT !.st = "PREPARED"]}
      BY <1>4, PluginCalls DEF Same
    <2> QED
      BY <1>4, <2>1 DEF Same, Plugin
  <1>6. OutFilterPrepare(s, far) = IF far = "find" THEN found ELSE PluginPrepare(s, ready, far = "done")
    BY DEF OutFilterPrepare, found, ready, p
  <1>7. InFilterPrepare(s, far) = IF ConfigMeta(far) THEN PluginPrepare(s, ready, far = "done") ELSE found
    BY <1>2, <1>3 DEF InFilterPrepare, DoConfigure, p
  <1>8. (far = "done") \in BOOLEAN
    OBVIOUS
  <1> QED
    BY <1>1, <1>5, <1>6, <1>7, <1>8 DEF p

\* A step of one plugin that moves no frame forward.
LEMMA OneStageStep ==
    ASSUME StreamInv, NEW s \in Stage, NEW n \in Plugin, pl' = [pl EXCEPT ![s] = n], StageInv(n),
           Suffix(pl[s].q, n.q), Suffix(Hand(pl[s]), Hand(n)), Suffix(wire, wire'), wire' \in Seq(Frame),
           UNCHANGED <<kind, ring, written, ends>>,
           opened' \in BOOLEAN, shared' \in BOOLEAN, smIndex' \in Units, lives' \in 0 .. MaxLives,
           s = "src" /\ (n.st = "RUNNING" \/ n.stop) => opened',
           s # "src" => opened' = opened,
           s = "play" => /\ Video => n.wk = "out"
                         /\ n.wk = "clock" => pl[s].wk = "clock" /\ n.hand = pl[s].hand
    PROVE  StreamInv'
  <1>1. pl \in [Stage -> Plugin] /\ Stages
    BY DEF StreamInv, TypeOK
  <1>2. pl' \in [Stage -> Plugin] /\ pl'[s] = n /\ \A t \in Stage \ {s} : pl'[t] = pl[t]
    BY <1>1
  <1>3. \A t \in Stage : /\ Suffix(pl[t].q, pl'[t].q) /\ Suffix(Hand(pl[t]), Hand(pl'[t]))
                         /\ StageInv(pl'[t])
    <2>1. \A t \in Stage : pl[t].q \in Seq(Frame) /\ Hand(pl[t]) \in Seq(Frame)
      BY <1>1 DEF Plugin, Hand
    <2>2. \A t \in Stage \ {s} : pl'[t] = pl[t] /\ Suffix(pl[t].q, pl[t].q) /\ Suffix(Hand(pl[t]), Hand(pl[t]))
      BY <1>2, <2>1, Suffixes
    <2> QED
      BY <1>1, <1>2, <2>2 DEF Stages
  <1>4. pl'["src"].st = "RUNNING" \/ pl'["src"].stop => opened'
    BY <1>1, <1>2 DEF Stages, Stage
  <1>5. /\ Video => pl'["play"].wk = "out"
        /\ pl'["play"].wk = "clock" => pl["play"].wk = "clock" /\ pl'["play"].hand = pl["play"].hand
    BY <1>1, <1>2 DEF Stages, Stage
  <1> QED
    BY <1>2, <1>3, <1>4, <1>5, QuietStep

-----------------------------------------------------------------------------
(* The filters *)

\* A filter prepares its plugin.
LEMMA FilterPrepareStep ==
    ASSUME StreamInv, NEW s \in Stage, NEW far \in {"find", "configure", "prepare", "done"}, FilterPrepare(s, far)
    PROVE  StreamInv'
  <1>1. PICK n : /\ n \in {InFilterPrepare(s, far), OutFilterPrepare(s, far)}
                 /\ pl' = [pl EXCEPT ![s] = n]
    BY DEF FilterPrepare
  <1>2. /\ pl[s] \in Plugin /\ ~pl[s].stop /\ pl[s].st \in {"none", "CREATED", "INITIALIZED"}
        /\ pl[s].wk = "out" /\ pl[s].q \in Seq(Frame)
    BY DEF FilterPrepare, StreamInv, TypeOK, Stages, StageInv, Plugin
  <1>3. /\ n \in Plugin /\ n.q \in {pl[s].q, <<>>} /\ n.wk = "out" /\ ~n.stop
        /\ n.st # "RUNNING" /\ (n.st = "PREPARED" => n.cb)
    BY <1>1, <1>2, PrepareEffect DEF Same
  <1>4. Hand(n) = Hand(pl[s]) /\ Hand(n) \in Seq(Frame) /\ StageInv(n)
    BY <1>2, <1>3 DEF Hand, StageInv
  <1>5. Suffix(pl[s].q, n.q) /\ Suffix(Hand(pl[s]), Hand(n))
    BY <1>2, <1>3, <1>4, Suffixes
  <1>6. /\ UNCHANGED <<kind, opened, wire, ends>> /\ lives' \in 0 .. MaxLives
        /\ shared' \in BOOLEAN /\ smIndex' \in Units /\ UNCHANGED <<ring, written>>
    BY ClockResetTypes, StreamAssumption DEF StreamInv, TypeOK, FilterPrepare, chan
  <1>7. Suffix(wire, wire') /\ wire' \in Seq(Frame) /\ opened' \in BOOLEAN
    BY <1>6, Suffixes DEF StreamInv, TypeOK
  <1> QED
    BY <1>1, <1>3, <1>4, <1>5, <1>6, <1>7, OneStageStep

\* A filter starts its plugin.
LEMMA FilterStartStep ==
    ASSUME StreamInv, NEW s \in Stage, FilterStart(s)
    PROVE  StreamInv'
  <1> DEFINE n == Running(pl[s])
  <1>1. /\ pl[s] \in Plugin /\ ~pl[s].stop /\ pl[s].st = "PREPARED" /\ pl[s].wk = "out" /\ pl[s].cb
        /\ pl[s].q \in Seq(Frame)
    BY DEF FilterStart, StreamInv, TypeOK, Stages, StageInv, Plugin
  <1>2. pl' = [pl EXCEPT ![s] = n]
    BY <1>1, PluginCalls DEF FilterStart
  <1>3. n = [pl[s] EXCEPT !.q = <<>>, !.st = "RUNNING"]
    BY <1>1 DEF Running, DataQueueClear, Plugin
  <1>4. /\ n \in Plugin /\ n.q = <<>> /\ n.wk = "out" /\ ~n.stop /\ n.st = "RUNNING" /\ n.cb
    BY <1>1, <1>3, NoFrames DEF Plugin
  <1> HIDE DEF n
  <1>5. Hand(n) = Hand(pl[s]) /\ Hand(n) \in Seq(Frame) /\ StageInv(n)
    BY <1>1, <1>4 DEF Hand, StageInv
  <1>6. Suffix(pl[s].q, n.q) /\ Suffix(Hand(pl[s]), Hand(n))
    BY <1>1, <1>4, <1>5, Suffixes
  <1>7. /\ UNCHANGED <<kind, wire, clock, ends, lives>>
        /\ s = "src" => opened'
        /\ s # "src" => opened' = opened
    BY DEF FilterStart
  <1>8. opened' \in BOOLEAN
    <2>1. CASE s = "src"
      BY <2>1 DEF FilterStart, OutVideoChannel, OutAudioChannel
    <2>2. CASE s # "src"
      BY <1>7, <2>2 DEF StreamInv, TypeOK
    <2> QED
      BY <2>1, <2>2
  <1>9. /\ Suffix(wire, wire') /\ wire' \in Seq(Frame) /\ UNCHANGED <<ring, written>>
        /\ shared' \in BOOLEAN /\ smIndex' \in Units /\ lives' \in 0 .. MaxLives
    BY <1>7, Suffixes DEF StreamInv, TypeOK, clock
  <1> QED
    BY <1>2, <1>4, <1>5, <1>6, <1>7, <1>8, <1>9, OneStageStep

\* A filter stops its plugin.
LEMMA FilterStopStep ==
    ASSUME StreamInv, NEW s \in Stage, FilterStop(s)
    PROVE  StreamInv'
  <1>1. pl[s] \in Plugin /\ pl[s].q \in Seq(Frame) /\ StageInv(pl[s]) /\ ~pl[s].stop /\ pl[s].st # "none"
    BY DEF FilterStop, StreamInv, TypeOK, Stages, Plugin
  <1>2. UNCHANGED <<kind, lives, opened, wire, ends>>
    BY DEF FilterStop, chan
  <1>3. /\ Suffix(wire, wire') /\ wire' \in Seq(Frame) /\ opened' \in BOOLEAN /\ lives' \in 0 .. MaxLives
        /\ s = "src" /\ pl[s].st = "RUNNING" => opened'
        /\ s = "play" /\ Video => pl[s].wk = "out"
    BY <1>2, Suffixes DEF StreamInv, TypeOK, Stages
  <1>4. CASE pl[s].st = "RUNNING"
    <2>1. PICK n \in {Stopping(pl[s]), DataQueueClear(Stopping(pl[s]))} : pl' = [pl EXCEPT ![s] = n]
      BY <1>1, <1>4, PluginCalls DEF FilterStop
    <2>2. n \in {[pl[s] EXCEPT !.st = "PREPARED", !.stop = TRUE],
                 [pl[s] EXCEPT !.st = "PREPARED", !.stop = TRUE, !.q = <<>>]}
      BY <1>1, <2>1 DEF Stopping, DataQueueClear, Plugin
    <2>3. /\ n \in Plugin /\ n.q \in {pl[s].q, <<>>} /\ n.wk = pl[s].wk /\ n.hand = pl[s].hand /\ n.stop
          /\ n.st = "PREPARED" /\ n.cb
      BY <1>1, <1>4, <2>2, NoFrames DEF Plugin, StageInv
    <2>4. Hand(n) = Hand(pl[s]) /\ Hand(n) \in Seq(Frame) /\ StageInv(n)
      BY <1>1, <2>3 DEF Hand, StageInv, Plugin
    <2>5. Suffix(pl[s].q, n.q) /\ Suffix(Hand(pl[s]), Hand(n))
      BY <1>1, <2>3, <2>4, Suffixes
    <2>6. shared' \in BOOLEAN /\ smIndex' \in Units /\ UNCHANGED <<ring, written>>
      BY <1>4 DEF FilterStop, clock, StreamInv, TypeOK
    <2> QED
      BY <1>2, <1>3, <1>4, <2>1, <2>3, <2>4, <2>5, <2>6, OneStageStep
  <1>5. CASE pl[s].st # "RUNNING"
    <2> DEFINE n == Cleared(pl[s])
    <2>1. pl' = [pl EXCEPT ![s] = n] /\ ClockReset(s)
      BY <1>1, <1>5, PluginCalls DEF FilterStop
    <2>2. n = [pl[s] EXCEPT !.q = <<>>, !.st = "INITIALIZED", !.cb = FALSE]
      BY <1>1 DEF Cleared, DataQueueClear, Plugin
    <2>3. /\ n \in Plugin /\ n.q = <<>> /\ n.wk = pl[s].wk /\ n.hand = pl[s].hand /\ ~n.stop
          /\ n.st = "INITIALIZED" /\ n.wk = "out"
      BY <1>1, <1>5, <2>2, NoFrames DEF Plugin, StageInv
    <2> HIDE DEF n
    <2>4. Hand(n) = Hand(pl[s]) /\ Hand(n) \in Seq(Frame) /\ StageInv(n)
      BY <2>3 DEF Hand, StageInv
    <2>5. Suffix(pl[s].q, n.q) /\ Suffix(Hand(pl[s]), Hand(n))
      BY <1>1, <2>3, <2>4, Suffixes
    <2>6. shared' \in BOOLEAN /\ smIndex' \in Units /\ UNCHANGED <<ring, written>>
      BY <2>1, ClockResetTypes DEF StreamInv
    <2> QED
      BY <1>2, <1>3, <1>5, <2>1, <2>3, <2>4, <2>5, <2>6, OneStageStep
  <1> QED
    BY <1>4, <1>5

\* The plugin is dropped when its task is out of its loop.
LEMMA FilterStopEndStep ==
    ASSUME StreamInv, NEW s \in Stage, FilterStopEnd(s)
    PROVE  StreamInv'
  <1> DEFINE n == [Cleared(pl[s]) EXCEPT !.st = "none", !.stop = FALSE]
  <1>1. pl[s] \in Plugin /\ pl[s].q \in Seq(Frame) /\ pl[s].wk = "out"
    BY DEF FilterStopEnd, TaskStopped, StreamInv, TypeOK, Plugin
  <1>2. pl' = [pl EXCEPT ![s] = n] /\ ClockReset(s)
    BY <1>1, PluginCalls DEF FilterStopEnd
  <1>3. n = [pl[s] EXCEPT !.q = <<>>, !.st = "none", !.cb = FALSE, !.stop = FALSE]
    BY <1>1 DEF Cleared, DataQueueClear, Plugin
  <1>4. n \in Plugin /\ n.q = <<>> /\ n.wk = "out" /\ ~n.stop /\ n.st = "none"
    BY <1>1, <1>3, NoFrames DEF Plugin
  <1> HIDE DEF n
  <1>5. Hand(n) = Hand(pl[s]) /\ Hand(n) \in Seq(Frame) /\ StageInv(n)
    BY <1>1, <1>4 DEF Hand, StageInv
  <1>6. Suffix(pl[s].q, n.q) /\ Suffix(Hand(pl[s]), Hand(n))
    BY <1>1, <1>4, <1>5, Suffixes
  <1>7. /\ wire' \in {wire, <<>>} /\ opened' \in BOOLEAN
        /\ s # "src" => opened' = opened
    BY DEF FilterStopEnd, OutVideoChannel, OutAudioChannel, chan, StreamInv, TypeOK
  <1>8. Suffix(wire, wire') /\ wire' \in Seq(Frame)
    BY <1>7, NoFrames, Suffixes DEF StreamInv, TypeOK
  <1>9. /\ shared' \in BOOLEAN /\ smIndex' \in Units /\ UNCHANGED <<kind, ends, ring, written>>
        /\ lives' \in 0 .. MaxLives
    BY <1>2, ClockResetTypes DEF StreamInv, TypeOK, FilterStopEnd
  <1> QED
    BY <1>2, <1>4, <1>5, <1>6, <1>7, <1>8, <1>9, OneStageStep

-----------------------------------------------------------------------------
(* The frames *)

\* A frame, or a null buffer instead of it, moves to the next place.
LEMMA ForwardOrder ==
    ASSUME StreamInv, pl' \in [Stage -> Plugin], wire' \in Seq(Frame), UNCHANGED ends,
           NEW k \in Place \ {1}, NEW c \in Seq(Frame), NEW f, Moved(Flow, Flow', k, c, f),
           \A i \in 1 .. Len(pl'["play"].q) : pl'["play"].q[i] # 0
    PROVE  Order'
  <1>1. Flow \in Flows /\ Flow' \in Flows /\ c \in Seq(Nat)
    BY FlowTypes, FramesAreNat DEF StreamInv, TypeOK
  <1>2. Rising(Flow) /\ Fits(Flow, 0, played) /\ Fits(Flow, 7, pushed + 1) /\ played \in Nat /\ pushed \in Nat
    BY DEF StreamInv, Order, TypeOK, Frame
  <1>3. Rising(Flow') /\ \A n \in {0, 7}, g \in Nat : Fits(Flow, n, g) => Fits(Flow', n, g)
    BY <1>1, <1>2, Move
  <1>4. played' = played /\ pushed' = pushed /\ got' = got /\ pushed + 1 \in Nat
    BY <1>2 DEF ends, sink
  <1>5. Fits(Flow', 0, played') /\ Fits(Flow', 7, pushed' + 1)
    BY <1>2, <1>3, <1>4
  <1> QED
    BY <1>3, <1>4, <1>5 DEF StreamInv, Order

\* The frames of a queue that are not null stay so.
LEMMA NotNull ==
    ASSUME StreamInv, NEW c \in Seq(Frame), Suffix(pl["play"].q, c), NEW f \in Frame, f # 0
    PROVE  \A i \in 1 .. Len(Append(c, f)) : Append(c, f)[i] # 0
  <1>1. pl["play"].q \in Seq(Nat) /\ c \in Seq(Nat)
    BY FramesAreNat DEF StreamInv, TypeOK, Stage, Plugin
  <1>2. PICK d \in Nat : \A i \in 1 .. Len(c) : i + d \in 1 .. Len(pl["play"].q) /\ c[i] = pl["play"].q[i + d]
    BY <1>1, SuffixElements
  <1>3. \A i \in 1 .. Len(c) : c[i] # 0
    BY <1>2 DEF StreamInv, Order
  <1>4. \A i \in 1 .. Len(Append(c, f)) :
           \/ i \in 1 .. Len(c) /\ Append(c, f)[i] = c[i]
           \/ Append(c, f)[i] = f
    BY <1>1
  <1> QED
    BY <1>3, <1>4

\* The step that does so, of a stage's task or the softbus.
LEMMA ForwardStep ==
    ASSUME StreamInv, UNCHANGED <<kind, lives, opened, shared, ring, smIndex, written, pushed, played, got>>,
           pl' \in [Stage -> Plugin], wire' \in Seq(Frame),
           \A s \in Stage : StageInv(pl'[s]) /\ pl'[s].st = pl[s].st /\ pl'[s].stop = pl[s].stop,
           pl'["play"].wk = pl["play"].wk, pl'["play"].hand = pl["play"].hand,
           NEW k \in Place \ {1}, NEW c \in Seq(Frame), NEW f, Moved(Flow, Flow', k, c, f),
           \A i \in 1 .. Len(pl'["play"].q) : pl'["play"].q[i] # 0
    PROVE  StreamInv'
  <1>1. TypeOK'
    BY DEF StreamInv, TypeOK, Units
  <1>2. Stages'
    BY DEF StreamInv, Stages, Video, Stage
  <1>3. Order'
    <2>1. UNCHANGED ends
      BY DEF ends, sink
    <2> QED
      BY <2>1, ForwardOrder
  <1>4. Clock'
    BY DEF StreamInv, Clock, Units
  <1> QED
    BY <1>1, <1>2, <1>3, <1>4 DEF StreamInv

\* The oldest frame of a place next to the application, some may be lost before
\* it, is delivered: it is newer than all that were.
LEMMA DeliverOrder ==
    ASSUME StreamInv, Flow' \in Flows, NEW k \in {1, 2}, k = 2 => Flow'[1] = <<>>,
           NEW H \in Flows, \A j \in Place : Suffix(Flow[j], H[j]), H[k] # <<>>,
           Flow'[k] = Tail(H[k]), \A j \in Place \ {k} : Flow'[j] = H[j],
           played' = Head(H[k]), played' # 0, got' = got + 1, pushed' = pushed,
           \A i \in 1 .. Len(pl'["play"].q) : pl'["play"].q[i] # 0
    PROVE  Order' /\ played < played' /\ played' <= pushed /\ got' <= played'
  <1>1. /\ Flow \in Flows /\ Rising(Flow) /\ Fits(Flow, 0, played) /\ Fits(Flow, 7, pushed + 1)
        /\ played \in Nat /\ pushed \in Nat /\ got \in Nat /\ got <= played
    BY FlowTypes DEF StreamInv, TypeOK, Order, Frame
  <1>2. 0 \in 0 .. 7 /\ 7 \in 0 .. 7 /\ pushed + 1 \in Nat /\ k \in Place /\ ~(k <= 0) /\ k <= 7
    BY <1>1 DEF Place
  <1>3. Rising(H) /\ Fits(H, 0, played) /\ Fits(H, 7, pushed + 1)
    BY <1>1, <1>2, Drop
  <1>4. /\ Rising(Flow') /\ Fits(Flow', k - 1, played') /\ played' \in Nat
        /\ \A n \in 0 .. 7, g \in Nat : Fits(H, n, g) =>
              /\ Fits(Flow', n, g)
              /\ played' = 0 \/ g = 0 \/ IF k <= n THEN played' < g ELSE g < played'
    BY <1>2, <1>3, Taken
  <1>5. played < played' /\ played' <= pushed
    <2>1. played = 0 \/ played < played'
      BY <1>1, <1>2, <1>3, <1>4
    <2>2. played' < pushed + 1
      BY <1>1, <1>2, <1>3, <1>4
    <2> QED
      BY <1>1, <1>4, <2>1, <2>2
  <1>6. Fits(Flow', 7, pushed + 1)
    BY <1>2, <1>3, <1>4
  <1>7. Fits(Flow', 0, played')
    <2>1. CASE k = 1
      BY <1>4, <2>1
    <2>2. CASE k = 2
      <3> SUFFICES ASSUME NEW j \in Place, NEW a \in 1 .. Len(Flow'[j])
                   PROVE  Flow'[j][a] = 0 \/ IF j <= 0 THEN Flow'[j][a] < played' ELSE played' < Flow'[j][a]
        BY DEF Fits
      <3>1. j # 1
        <4>1. Len(<<>>) = 0
          OBVIOUS
        <4> QED
          BY <2>2, <4>1
      <3>2. ~(j <= 0) /\ ~(j <= k - 1)
        BY <2>2, <3>1 DEF Place
      <3> QED
        BY <1>4, <3>2 DEF Fits
    <2> QED
      BY <2>1, <2>2
  <1>8. got' <= played'
    BY <1>1, <1>4, <1>5
  <1>9. Fits(Flow', 7, pushed' + 1) /\ played' <= pushed'
    BY <1>5, <1>6
  <1> QED
    BY <1>4, <1>5, <1>7, <1>8, <1>9 DEF Order

\* A step of a task's loop: it waits, takes the first frame of its queue into its
\* hand, or leaves.
LEMMA TaskStep ==
    ASSUME StreamInv, NEW s \in Stage, Task(s)
    PROVE  StreamInv'
  <1>1. PICK n : /\ n \in Loop(pl[s], s = "src") /\ pl' = [pl EXCEPT ![s] = n]
                 /\ s = "play" => ~Video
    BY DEF Task, Stage, OutVideoFeed, OutAudioFeed, InVideoHandle, InAudioHandle, AudioOutHandle
  <1>2. /\ pl \in [Stage -> Plugin] /\ pl[s] \in Plugin /\ pl[s].q \in Seq(Frame) /\ StageInv(pl[s])
        /\ \A t \in Stage : pl[t].q \in Seq(Frame)
    BY DEF StreamInv, TypeOK, Stages, Plugin
  <1>3. /\ n \in Plugin /\ n.st = pl[s].st /\ n.stop = pl[s].stop /\ n.cb = pl[s].cb
        /\ \/ pl[s].wk = "out" /\ pl[s].st = "RUNNING" /\ n.wk = "wait" /\ n.q = pl[s].q
           \/ /\ pl[s].wk = "wait" /\ pl[s].q # <<>> /\ n.q = Tail(pl[s].q)
              /\ n.wk = "hand" /\ n.hand = Head(pl[s].q) /\ n.hand # 0
           \/ pl[s].wk = "wait" /\ n.wk = "out" /\ (n.q = pl[s].q \/ (pl[s].q # <<>> /\ n.q = Tail(pl[s].q)))
    <2>1. (s = "src") \in BOOLEAN
      OBVIOUS
    <2> QED
      BY <1>1, <1>2, <2>1, LoopSteps
  <1>4. StageInv(n)
    BY <1>2, <1>3 DEF StageInv
  <1>5. UNCHANGED <<kind, lives, opened, wire, shared, ring, smIndex, written, pushed, played, got>>
    BY DEF Task, chan, clock, ends, sink
  <1>6. /\ wire' \in Seq(Frame) /\ opened' \in BOOLEAN /\ lives' \in 0 .. MaxLives
        /\ shared' \in BOOLEAN /\ smIndex' \in Units /\ UNCHANGED ends
        /\ s = "src" /\ (n.st = "RUNNING" \/ n.stop) => opened'
    BY <1>3, <1>5 DEF StreamInv, TypeOK, Stages, ends, sink
  <1>7. CASE n.wk # "hand"
    <2>1. Hand(n) = <<>> /\ Hand(pl[s]) = <<>>
      BY <1>3, <1>7 DEF Hand
    <2>2. Suffix(pl[s].q, n.q) /\ Suffix(Hand(pl[s]), Hand(n)) /\ Suffix(wire, wire')
      BY <1>2, <1>3, <1>5, <1>6, <1>7, <2>1, NoFrames, Suffixes
    <2> QED
      BY <1>1, <1>3, <1>4, <1>5, <1>6, <1>7, <2>2, OneStageStep
  <1>8. CASE n.wk = "hand"
    <2>1. /\ pl[s].wk = "wait" /\ pl[s].q # <<>> /\ n.q = Tail(pl[s].q) /\ n.hand = Head(pl[s].q)
          /\ Hand(n) = <<Head(pl[s].q)>> /\ Hand(pl[s]) = <<>>
      BY <1>3, <1>8 DEF Hand
    <2>2. pl' \in [Stage -> Plugin] /\ pl'[s] = n /\ \A t \in Stage \ {s} : pl'[t] = pl[t]
      BY <1>1, <1>2, <1>3
    <2>3. TypeOK'
      BY <1>5, <2>2 DEF StreamInv, TypeOK, Units
    <2>4. Stages'
      BY <1>1, <1>2, <1>4, <1>5, <1>6, <2>2 DEF StreamInv, Stages, Video, Stage
    <2>5. Order'
      <3> DEFINE k == QueueAt(s)
      <3>1. k \in Place \ {1} /\ HandAt(s) = k - 1
        BY DEF QueueAt, HandAt, Stage, Place
      <3>2. Flow[k] = pl[s].q /\ Flow'[k] = Tail(Flow[k]) /\ Flow[k - 1] = <<>> /\ Flow[k] # <<>>
        BY <2>1, <2>2, <3>1, FlowPlaces
      <3>3. Flow'[k - 1] = Append(<<>>, Head(Flow[k]))
        <4>1. Flow'[k - 1] = <<Head(pl[s].q)>>
          BY <2>1, <2>2, <3>1, FlowPlaces
        <4> QED
          BY <3>2, <4>1
      <3>4. \A j \in Place \ {k - 1, k} : Flow'[j] = Flow[j]
        BY <1>5, <2>2, <3>1, FlowPlaces
      <3>5. \A i \in 1 .. Len(pl'["play"].q) : pl'["play"].q[i] # 0
        <4>1. pl["play"].q \in Seq(Frame)
          BY <1>2 DEF Stage
        <4>2. CASE s = "play"
          <5>1. Len(pl["play"].q) \in Nat /\ Len(Tail(pl["play"].q)) = Len(pl["play"].q) - 1
            BY <2>1, <4>1, <4>2
          <5>2. \A i \in 1 .. Len(Tail(pl["play"].q)) : Tail(pl["play"].q)[i] = pl["play"].q[i + 1]
            BY <2>1, <4>1, <4>2
          <5>3. \A i \in 1 .. Len(Tail(pl["play"].q)) : i + 1 \in 1 .. Len(pl["play"].q)
            BY <5>1
          <5>4. \A i \in 1 .. Len(pl["play"].q) : pl["play"].q[i] # 0
            BY DEF StreamInv, Order
          <5>5. pl'["play"].q = Tail(pl["play"].q)
            BY <2>1, <2>2, <4>2
          <5> QED
            BY <5>2, <5>3, <5>4, <5>5
        <4>3. CASE s # "play"
          BY <2>2, <4>3 DEF StreamInv, Order, Stage
        <4> QED
          BY <4>2, <4>3
      <3>6. Suffix(Flow[k - 1], <<>>)
        BY <3>2, NoFrames, Suffixes
      <3> HIDE DEF k
      <3>7. Moved(Flow, Flow', k, <<>>, Head(Flow[k]))
        BY <3>2, <3>3, <3>4, <3>6 DEF Moved
      <3> QED
        BY <1>6, <2>2, <3>1, <3>5, <3>7, NoFrames, ForwardOrder
    <2>6. Clock'
      BY <1>5, <1>8, <2>1, <2>2 DEF StreamInv, Clock, Units, Stage
    <2> QED
      BY <2>3, <2>4, <2>5, <2>6 DEF StreamInv
  <1> QED
    BY <1>7, <1>8

\* A frame or nothing comes to the source's queue, which may lose some.
LEMMA PushDataStep ==
    ASSUME StreamInv, PushData
    PROVE  StreamInv'
  <1>1. /\ pushed \in Nat /\ pushed < MaxFrame /\ pushed' = pushed + 1 /\ pushed + 1 \in Frame
        /\ UNCHANGED <<kind, lives, opened, wire, shared, ring, smIndex, written, played, got>>
    BY StreamAssumption DEF PushData, chan, clock, sink, StreamInv, TypeOK, Frame
  <1>2. pl \in [Stage -> Plugin] /\ \A t \in Stage : pl[t] \in Plugin /\ pl[t].q \in Seq(Frame)
    BY DEF StreamInv, TypeOK, Plugin
  <1>3. Flow \in Flows /\ Rising(Flow) /\ Fits(Flow, 0, played) /\ Fits(Flow, 7, pushed + 1) /\ played \in Nat
    BY <1>2, FlowTypes DEF StreamInv, TypeOK, Order, Frame
  <1>4. Clock'
    <2>1. pl'["play"] = pl["play"]
      BY <1>2 DEF PushData, Stage
    <2> QED
      BY <1>1, <2>1 DEF StreamInv, Clock, Units
  <1>5. CASE pl' = pl
    <2>1. TypeOK' /\ Stages'
      BY <1>1, <1>5 DEF StreamInv, TypeOK, Stages, Units, Video
    <2>2. Flow' = Flow
      BY <1>1, <1>5 DEF Flow
    <2>3. Fits(Flow, 7, pushed + 2)
      <3>1. pushed + 1 \in Nat \ {0} /\ (pushed + 1) + 1 = pushed + 2
        BY <1>1
      <3>2. Fits(Flow, 7, (pushed + 1) + 1)
        BY <1>3, <3>1, FitsMore
      <3> QED
        BY <3>1, <3>2
    <2>4. Order'
      BY <1>1, <1>3, <1>5, <2>2, <2>3 DEF StreamInv, Order, TypeOK, Frame
    <2> QED
      BY <1>4, <2>1, <2>4 DEF StreamInv
  <1>6. CASE pl' # pl
    <2>1. pl' = [pl EXCEPT !["src"] = Enqueue(pl["src"], pushed + 1)]
      BY <1>1, <1>6 DEF PushData, ScreenInPushData, AudioInPushData, OutVideoPushData, OutAudioPushData
    <2> DEFINE n == Enqueue(pl["src"], pushed + 1)
    <2>2. PICK c \in Seq(Frame) : Suffix(pl["src"].q, c) /\ Requeued(pl["src"], n, Append(c, pushed + 1))
      BY <1>1, <1>2, EnqueueCuts DEF Stage
    <2> HIDE DEF n
    <2>3. /\ n \in Plugin /\ n.q = Append(c, pushed + 1) /\ Hand(n) = Hand(pl["src"])
          /\ n.st = pl["src"].st /\ n.stop = pl["src"].stop /\ n.cb = pl["src"].cb /\ n.wk = pl["src"].wk
          /\ n.hand = pl["src"].hand
      BY <2>2 DEF Requeued
    <2>4. pl' \in [Stage -> Plugin] /\ pl'["src"] = n /\ \A t \in Stage \ {"src"} : pl'[t] = pl[t]
      BY <1>2, <2>1, <2>3 DEF Stage, n
    <2>5. TypeOK'
      BY <1>1, <2>4 DEF StreamInv, TypeOK, Units
    <2>6. Stages'
      BY <1>1, <2>3, <2>4 DEF StreamInv, Stages, StageInv, Video, Stage
    <2>7. Order'
      <3> DEFINE H == [Flow EXCEPT ![7] = c]
      <3>1. Flow[7] = pl["src"].q /\ 7 \in Place /\ c \in Seq(Nat)
        BY FlowPlaces, FramesAreNat DEF Stage, QueueAt, Place
      <3>2. H \in Flows /\ H[7] = c /\ \A j \in Place \ {7} : H[j] = Flow[j]
        BY <1>3, <3>1 DEF Flows
      <3>3. Flow' \in Flows /\ Flow'[7] = Append(c, pushed + 1) /\ \A j \in Place \ {7} : Flow'[j] = Flow[j]
        <4>1. \A t \in Stage \ {"src"} : QueueAt(t) # 7 /\ HandAt(t) # 7
          BY DEF Stage, QueueAt, HandAt
        <4>2. QueueAt("src") = 7 /\ "src" \in Stage
          BY DEF QueueAt, Stage
        <4>3. Flow' \in Flows
          BY <2>5, FlowTypes DEF TypeOK
        <4>4. Flow'[7] = Append(c, pushed + 1)
          BY <2>3, <2>4, <4>2, FlowPlaces
        <4>5. \A t \in Stage : Hand(pl'[t]) = Hand(pl[t]) /\ (t # "src" => pl'[t].q = pl[t].q)
          BY <2>3, <2>4
        <4>6. \A j \in Place \ {7} : Flow'[j] = Flow[j]
          BY <1>1, <4>2, <4>5, FlowPlaces
        <4> QED
          BY <4>3, <4>4, <4>6
      <3> HIDE DEF H
      <3>4. \A j \in Place : Flow[j] \in Seq(Nat) /\ Suffix(Flow[j], H[j])
        BY <1>3, <2>2, <3>1, <3>2, Suffixes DEF Flows
      <3>5. Rising(H) /\ Fits(H, 0, played) /\ Fits(H, 7, pushed + 1)
        <4>1. \A m \in 0 .. 7, f \in Nat : Fits(Flow, m, f) => Fits(H, m, f)
          BY <1>3, <3>2, <3>4, Drop
        <4>2. 0 \in 0 .. 7 /\ 7 \in 0 .. 7 /\ pushed + 1 \in Nat
          BY <1>1
        <4> QED
          BY <1>3, <3>2, <3>4, <4>1, <4>2, Drop
      <3>6. /\ Rising(Flow')
            /\ \A m \in 0 .. 7, g \in Nat :
                  /\ Fits(H, m, g)
                  /\ pushed + 1 = 0 \/ g = 0 \/ IF 7 <= m THEN pushed + 1 < g ELSE g < pushed + 1
                  => Fits(Flow', m, g)
        <4>1. pushed + 1 \in Nat /\ \A j \in Place \ {7} : Flow'[j] = H[j]
          BY <1>1, <3>2, <3>3
        <4>2. Flow'[7] = Append(H[7], pushed + 1)
          BY <3>2, <3>3
        <4> QED
          BY <3>1, <3>2, <3>3, <3>5, <4>1, <4>2, Add
      <3>7. played <= pushed
        BY DEF StreamInv, Order
      <3>8. Fits(Flow', 0, played)
        <4>1. 0 \in 0 .. 7 /\ ~(7 <= 0) /\ played < pushed + 1
          BY <1>1, <1>3, <3>7
        <4> QED
          BY <1>3, <3>5, <3>6, <4>1
      <3>9. Fits(Flow', 7, pushed + 2)
        <4>1. Fits(H, 7, pushed + 2)
          <5>1. pushed + 1 \in Nat \ {0} /\ (pushed + 1) + 1 = pushed + 2
            BY <1>1
          <5>2. Fits(H, 7, (pushed + 1) + 1)
            BY <3>2, <3>5, <5>1, FitsMore
          <5> QED
            BY <5>1, <5>2
        <4>2. 7 \in 0 .. 7 /\ 7 <= 7 /\ pushed + 1 < pushed + 2 /\ pushed + 2 \in Nat
          BY <1>1
        <4> QED
          BY <3>6, <4>1, <4>2
      <3>10. \A i \in 1 .. Len(pl'["play"].q) : pl'["play"].q[i] # 0
        BY <2>4 DEF StreamInv, Order, Stage
      <3>11. pushed + 2 = pushed' + 1 /\ played' = played /\ got' = got /\ played <= pushed'
        BY <1>1, <1>3, <3>7
      <3>12. Fits(Flow', 0, played') /\ Fits(Flow', 7, pushed' + 1)
        BY <3>8, <3>9, <3>11
      <3>13. got <= played
        BY DEF StreamInv, Order
      <3> QED
        BY <3>6, <3>10, <3>11, <3>12, <3>13 DEF Order
    <2> QED
      BY <1>4, <2>5, <2>6, <2>7 DEF StreamInv
  <1> QED
    BY <1>5, <1>6

\* The frame in the source's hand goes to the softbus or is lost.
LEMMA SendStep ==
    ASSUME StreamInv, SendDataToSoftbus
    PROVE  StreamInv'
  <1> DEFINE p == pl["src"]
             n == Returned(p)
  <1>1. /\ pl \in [Stage -> Plugin] /\ p \in Plugin /\ p.wk = "hand" /\ p.hand \in Frame /\ StageInv(p)
        /\ "src" \in Stage /\ wire \in Seq(Frame) /\ p.q \in Seq(Frame)
    BY DEF SendDataToSoftbus, StreamInv, TypeOK, Stages, Stage, Plugin
  <1>2. /\ n \in Plugin /\ n.q = p.q /\ n.st = p.st /\ n.wk = "out" /\ n.stop = p.stop /\ n.cb = p.cb
        /\ Hand(n) = <<>>
    BY <1>1, ReturnedPlugin
  <1>3. /\ pl' = [pl EXCEPT !["src"] = n] /\ wire' \in {wire, Append(wire, p.hand)}
        /\ UNCHANGED <<kind, lives, opened, shared, ring, smIndex, written, pushed, played, got>>
    BY DEF SendDataToSoftbus, OutVideoSend, OutAudioSend, clock, ends, sink
  <1> HIDE DEF n
  <1>4. StageInv(n)
    BY <1>1, <1>2 DEF StageInv
  <1>5. Hand(p) = <<p.hand>> /\ Hand(p) \in Seq(Frame)
    BY <1>1 DEF Hand
  <1>6. CASE wire' = wire
    <2>1. /\ Suffix(p.q, n.q) /\ Suffix(Hand(p), Hand(n)) /\ Suffix(wire, wire') /\ wire' \in Seq(Frame)
      BY <1>1, <1>2, <1>5, <1>6, Suffixes
    <2>2. /\ opened' \in BOOLEAN /\ shared' \in BOOLEAN /\ smIndex' \in Units /\ lives' \in 0 .. MaxLives
          /\ (n.st = "RUNNING" \/ n.stop => opened') /\ UNCHANGED ends
      BY <1>2, <1>3 DEF StreamInv, TypeOK, Stages, ends, sink
    <2> QED
      BY <1>1, <1>2, <1>3, <1>4, <2>1, <2>2, OneStageStep
  <1>7. CASE wire' = Append(wire, p.hand)
    <2>1. pl' \in [Stage -> Plugin] /\ pl'["src"] = n /\ \A t \in Stage \ {"src"} : pl'[t] = pl[t]
      BY <1>1, <1>2, <1>3
    <2>2. wire' \in Seq(Frame)
      BY <1>1, <1>7
    <2>3. /\ \A t \in Stage : StageInv(pl'[t]) /\ pl'[t].st = pl[t].st /\ pl'[t].stop = pl[t].stop
          /\ pl'["play"] = pl["play"]
      BY <1>2, <1>4, <2>1 DEF StreamInv, Stages, Stage
    <2>4. Moved(Flow, Flow', 6, wire, p.hand)
      <3>1. HandAt("src") = 6 /\ 6 \in Place /\ 6 - 1 = 5
        BY DEF HandAt, Place
      <3>2. Flow[6] = <<p.hand>> /\ Flow'[6] = <<>> /\ Flow[5] = wire /\ Flow'[5] = Append(wire, p.hand)
        BY <1>1, <1>2, <1>5, <1>7, <2>1, <3>1, FlowPlaces
      <3>3. Flow[6] # <<>> /\ Flow'[6] = Tail(Flow[6]) /\ p.hand = Head(Flow[6])
        BY <3>2
      <3>4. \A j \in Place \ {5, 6} : Flow'[j] = Flow[j]
        <4>1. \A t \in Stage : pl'[t].q = pl[t].q /\ (t # "src" => Hand(pl'[t]) = Hand(pl[t]))
          BY <1>2, <2>1
        <4> QED
          BY <3>1, <4>1, FlowPlaces
      <3>5. Suffix(Flow[5], wire)
        BY <1>1, <3>2, Suffixes
      <3> QED
        BY <3>1, <3>2, <3>3, <3>4, <3>5 DEF Moved
    <2>5. \A i \in 1 .. Len(pl'["play"].q) : pl'["play"].q[i] # 0
      BY <2>3 DEF StreamInv, Order
    <2>6. 6 \in Place \ {1}
      BY DEF Place
    <2> QED
      BY <1>1, <1>3, <2>1, <2>2, <2>3, <2>4, <2>5, <2>6, ForwardStep
  <1> QED
    BY <1>3, <1>6, <1>7

\* A frame leaves the softbus for the sink's queue, is lost, or has become a null
\* buffer.
LEMMA ReceiveStep ==
    ASSUME StreamInv, OnStreamReceived
    PROVE  StreamInv'
  <1> DEFINE p == pl["snk"]
  <1>1. /\ pl \in [Stage -> Plugin] /\ p \in Plugin /\ StageInv(p) /\ "snk" \in Stage /\ p.q \in Seq(Frame)
        /\ wire \in Seq(Frame) /\ wire # <<>> /\ wire' = Tail(wire) /\ Head(wire) \in Frame /\ 0 \in Frame
    BY StreamAssumption DEF OnStreamReceived, StreamInv, TypeOK, Stages, Stage, Plugin, Frame
  <1>2. UNCHANGED <<kind, lives, opened, shared, ring, smIndex, written, pushed, played, got>>
    BY DEF OnStreamReceived, clock, ends, sink
  <1>3. wire' \in Seq(Frame)
    BY <1>1
  <1>4. CASE pl' = pl
    <2>1. pl' = [pl EXCEPT !["snk"] = p]
      BY <1>1, <1>4
    <2>2. Hand(p) \in Seq(Frame)
      BY <1>1 DEF Hand, Plugin
    <2>3. Suffix(p.q, p.q) /\ Suffix(Hand(p), Hand(p)) /\ Suffix(wire, wire')
      BY <1>1, <2>2, Suffixes
    <2>4. opened' \in BOOLEAN /\ shared' \in BOOLEAN /\ smIndex' \in Units /\ lives' \in 0 .. MaxLives /\ UNCHANGED ends
      BY <1>2 DEF StreamInv, TypeOK, ends, sink
    <2> QED
      BY <1>1, <1>2, <1>3, <2>1, <2>3, <2>4, OneStageStep
  <1>5. ASSUME NEW f \in {0, Head(wire)}, pl' = [pl EXCEPT !["snk"] = Enqueue(p, f)]
        PROVE  StreamInv'
    <2> DEFINE n == Enqueue(p, f)
    <2>1. PICK c \in Seq(Frame) : Suffix(p.q, c) /\ Requeued(p, n, Append(c, f))
      BY <1>1, EnqueueCuts
    <2> HIDE DEF n
    <2>2. /\ n \in Plugin /\ n.q = Append(c, f) /\ n.st = p.st /\ n.wk = p.wk /\ n.hand = p.hand
          /\ n.stop = p.stop /\ n.cb = p.cb /\ Hand(n) = Hand(p)
      BY <2>1 DEF Requeued
    <2>3. pl' \in [Stage -> Plugin] /\ pl'["snk"] = n /\ \A t \in Stage \ {"snk"} : pl'[t] = pl[t]
      BY <1>1, <1>5, <2>2 DEF n
    <2>4. /\ \A t \in Stage : StageInv(pl'[t]) /\ pl'[t].st = pl[t].st /\ pl'[t].stop = pl[t].stop
          /\ pl'["play"] = pl["play"]
      <3>1. StageInv(n)
        BY <1>1, <2>2 DEF StageInv
      <3> QED
        BY <2>2, <2>3, <3>1 DEF StreamInv, Stages, Stage
    <2>5. Moved(Flow, Flow', 5, c, f)
      <3>1. QueueAt("snk") = 4 /\ 5 \in Place /\ 5 - 1 = 4
        BY DEF QueueAt, Place
      <3>2. Flow[5] = wire /\ Flow'[5] = Tail(wire) /\ Flow[4] = p.q /\ Flow'[4] = Append(c, f)
        BY <1>1, <2>2, <2>3, <3>1, FlowPlaces
      <3>3. \A j \in Place \ {4, 5} : Flow'[j] = Flow[j]
        <4>1. \A t \in Stage : Hand(pl'[t]) = Hand(pl[t]) /\ (t # "snk" => pl'[t].q = pl[t].q)
          BY <2>2, <2>3
        <4> QED
          BY <3>1, <4>1, FlowPlaces
      <3> QED
        BY <1>1, <2>1, <3>1, <3>2, <3>3 DEF Moved
    <2>6. \A i \in 1 .. Len(pl'["play"].q) : pl'["play"].q[i] # 0
      BY <2>4 DEF StreamInv, Order
    <2>7. 5 \in Place \ {1}
      BY DEF Place
    <2> QED
      BY <1>2, <1>3, <2>3, <2>4, <2>5, <2>6, <2>7, ForwardStep
  <1>6. \/ pl' = pl
        \/ \E f \in {0, Head(wire)} : pl' = [pl EXCEPT !["snk"] = Enqueue(p, f)]
    <2>1. [pl EXCEPT !["snk"] = p] = pl
      BY <1>1
    <2>2. \/ pl' = pl \/ pl' = [pl EXCEPT !["snk"] = p]
          \/ \E f \in {0, Head(wire)} : pl' = [pl EXCEPT !["snk"] = Enqueue(p, f)]
      BY DEF OnStreamReceived, InVideoReceive, InAudioReceive
    <2> QED
      BY <2>1, <2>2
  <1> QED
    BY <1>4, <1>5, <1>6

\* The frame in the sink's hand goes to the queue before the application or is
\* dropped.
LEMMA CallbackStep ==
    ASSUME StreamInv, OnDataCallback
    PROVE  StreamInv'
  <1> DEFINE p == pl["snk"]
             r == pl["play"]
             n == Returned(p)
  <1>1. /\ pl \in [Stage -> Plugin] /\ p \in Plugin /\ r \in Plugin /\ StageInv(p) /\ StageInv(r)
        /\ "snk" \in Stage /\ "play" \in Stage /\ p.q \in Seq(Frame) /\ r.q \in Seq(Frame)
        /\ p.wk = "hand" /\ p.hand \in Frame /\ p.hand # 0 /\ wire \in Seq(Frame)
    BY DEF OnDataCallback, StreamInv, TypeOK, Stages, StageInv, Stage, Plugin
  <1>2. UNCHANGED <<kind, lives, opened, wire, shared, ring, smIndex, written, pushed, played, got>>
    BY DEF OnDataCallback, chan, clock, ends, sink
  <1>3. /\ n \in Plugin /\ n.q = p.q /\ n.st = p.st /\ n.wk = "out" /\ n.stop = p.stop /\ n.cb = p.cb
        /\ Hand(n) = <<>>
    BY <1>1, ReturnedPlugin
  <1>4. PICK m \in {r, Enqueue(r, p.hand)} : pl' = [pl EXCEPT !["snk"] = n, !["play"] = m]
    BY <1>1 DEF OnDataCallback, ScreenOutPushData, AudioOutPushData
  <1> HIDE DEF n
  <1>5. StageInv(n) /\ Hand(p) = <<p.hand>> /\ Hand(p) \in Seq(Frame) /\ Hand(r) \in Seq(Frame)
    BY <1>1, <1>3 DEF StageInv, Hand, Plugin
  <1>6. CASE m = r
    <2>1. pl' = [pl EXCEPT !["snk"] = n]
      BY <1>1, <1>4, <1>6
    <2>2. /\ Suffix(p.q, n.q) /\ Suffix(Hand(p), Hand(n)) /\ Suffix(wire, wire') /\ wire' \in Seq(Frame)
      BY <1>1, <1>2, <1>3, <1>5, Suffixes
    <2>3. opened' \in BOOLEAN /\ shared' \in BOOLEAN /\ smIndex' \in Units /\ lives' \in 0 .. MaxLives /\ UNCHANGED ends
      BY <1>2 DEF StreamInv, TypeOK, ends, sink
    <2> QED
      BY <1>1, <1>2, <1>3, <1>5, <2>1, <2>2, <2>3, OneStageStep
  <1>7. CASE m = Enqueue(r, p.hand)
    <2>1. PICK c \in Seq(Frame) : Suffix(r.q, c) /\ Requeued(r, m, Append(c, p.hand))
      BY <1>1, <1>7, EnqueueCuts
    <2>2. /\ m \in Plugin /\ m.q = Append(c, p.hand) /\ m.st = r.st /\ m.wk = r.wk /\ m.hand = r.hand
          /\ m.stop = r.stop /\ m.cb = r.cb /\ Hand(m) = Hand(r)
      BY <2>1 DEF Requeued
    <2>3. /\ pl' \in [Stage -> Plugin] /\ pl'["snk"] = n /\ pl'["play"] = m
          /\ \A t \in Stage \ {"snk", "play"} : pl'[t] = pl[t]
      BY <1>1, <1>3, <1>4, <2>2
    <2>4. \A t \in Stage : StageInv(pl'[t]) /\ pl'[t].st = pl[t].st /\ pl'[t].stop = pl[t].stop
      <3>1. StageInv(m)
        BY <1>1, <2>2 DEF StageInv
      <3> QED
        BY <1>3, <1>5, <2>2, <2>3, <3>1 DEF StreamInv, Stages, Stage
    <2>5. Moved(Flow, Flow', 3, c, p.hand)
      <3>1. HandAt("snk") = 3 /\ QueueAt("play") = 2 /\ 3 \in Place /\ 3 - 1 = 2
        BY DEF QueueAt, HandAt, Place
      <3>2. Flow[3] = <<p.hand>> /\ Flow'[3] = <<>> /\ Flow[2] = r.q /\ Flow'[2] = Append(c, p.hand)
        BY <1>1, <1>3, <1>5, <2>2, <2>3, <3>1, FlowPlaces
      <3>3. Flow[3] # <<>> /\ Flow'[3] = Tail(Flow[3]) /\ p.hand = Head(Flow[3])
        BY <3>2
      <3>4. \A j \in Place \ {2, 3} : Flow'[j] = Flow[j]
        <4>1. \A t \in Stage : /\ t # "play" => pl'[t].q = pl[t].q
                               /\ t # "snk" => Hand(pl'[t]) = Hand(pl[t])
          BY <1>3, <2>2, <2>3
        <4> QED
          BY <1>2, <3>1, <4>1, FlowPlaces
      <3> QED
        BY <2>1, <3>1, <3>2, <3>3, <3>4 DEF Moved
    <2>6. \A i \in 1 .. Len(pl'["play"].q) : pl'["play"].q[i] # 0
      <3>1. \A i \in 1 .. Len(Append(c, p.hand)) : Append(c, p.hand)[i] # 0
        BY <1>1, <2>1, NotNull
      <3> QED
        BY <2>2, <2>3, <3>1
    <2>7. 3 \in Place \ {1} /\ wire' \in Seq(Frame)
      BY <1>1, <1>2 DEF Place
    <2> QED
      BY <1>2, <2>2, <2>3, <2>4, <2>5, <2>6, <2>7, ForwardStep
  <1> QED
    BY <1>4, <1>6, <1>7

\* The screen gives out one of its frames and forgets the ones before it.
LEMMA ScreenOutputStep ==
    ASSUME StreamInv, ScreenOutput
    PROVE  StreamInv' /\ played < played' /\ played' <= pushed
  <1> DEFINE p == pl["play"]
  <1>1. /\ pl \in [Stage -> Plugin] /\ p \in Plugin /\ StageInv(p) /\ "play" \in Stage /\ p.q \in Seq(Frame)
        /\ Video /\ p.wk = "out" /\ wire \in Seq(Frame)
    BY DEF ScreenOutput, StreamInv, TypeOK, Stages, Stage, Plugin
  <1>2. PICK i \in DOMAIN p.q :
            /\ played' = p.q[i] /\ got' = got + 1
            /\ pl' = [pl EXCEPT !["play"].q = SubSeq(@, i + 1, Len(@))]
    BY DEF ScreenOutput
  <1>3. UNCHANGED <<kind, lives, opened, wire, shared, ring, smIndex, written, pushed>>
    BY DEF ScreenOutput, chan, clock
  <1> DEFINE y == SubSeq(p.q, i, Len(p.q))
             x == SubSeq(p.q, i + 1, Len(p.q))
             n == [p EXCEPT !.q = x]
  <1>4. i \in 1 .. Len(p.q) /\ Len(p.q) \in Nat /\ p.q[i] \in Frame /\ p.q[i] # 0
    BY <1>1 DEF StreamInv, Order
  <1>5. x \in Seq(Frame) /\ y \in Seq(Frame) /\ Suffix(p.q, x) /\ Suffix(p.q, y)
    <2>1. i \in 1 .. Len(p.q) + 1 /\ i + 1 \in 1 .. Len(p.q) + 1
      BY <1>4
    <2> QED
      BY <1>1, <2>1, Suffixes
  <1>6. y # <<>> /\ Tail(y) = x /\ Head(y) = p.q[i]
    BY <1>1, <1>4, LaterPart
  <1>7. pl' = [pl EXCEPT !["play"] = n]
    BY <1>1, <1>2
  <1>8. Requeued(p, n, x)
    BY <1>1, <1>5, WithQueue, Zenon
  <1> HIDE DEF x, y, n
  <1>9. /\ n \in Plugin /\ n.q = x /\ n.st = p.st /\ n.wk = "out" /\ n.stop = p.stop /\ n.cb = p.cb
        /\ Hand(n) = <<>> /\ Hand(p) = <<>>
    BY <1>1, <1>8 DEF Requeued, Hand
  <1>10. pl' \in [Stage -> Plugin] /\ pl'["play"] = n /\ \A t \in Stage \ {"play"} : pl'[t] = pl[t]
    BY <1>1, <1>7, <1>9
  <1>11. Order' /\ played < played' /\ played' <= pushed /\ got' <= played'
    <2> DEFINE H == [Flow EXCEPT ![2] = y]
    <2>1. Flow \in Flows /\ Flow' \in Flows /\ y \in Seq(Nat) /\ 2 \in Place
      BY <1>1, <1>3, <1>5, <1>10, FlowTypes, FramesAreNat DEF Place
    <2>2. H \in Flows /\ H[2] = y /\ \A j \in Place \ {2} : H[j] = Flow[j]
      BY <2>1 DEF Flows
    <2> HIDE DEF H
    <2>3. QueueAt("play") = 2 /\ HandAt("play") = 1 /\ 1 \in Place
      BY DEF QueueAt, HandAt, Place
    <2>4. Flow[2] = p.q /\ Flow'[2] = x /\ Flow'[1] = <<>>
      BY <1>1, <1>9, <1>10, <2>3, FlowPlaces
    <2>5. \A j \in Place \ {2} : Flow'[j] = H[j]
      <3>1. \A t \in Stage : Hand(pl'[t]) = Hand(pl[t]) /\ (t # "play" => pl'[t].q = pl[t].q)
        BY <1>9, <1>10
      <3>2. \A j \in Place \ {2} : Flow'[j] = Flow[j]
        BY <1>3, <2>3, <3>1, FlowPlaces
      <3> QED
        BY <2>2, <3>2
    <2>6. \A j \in Place : Suffix(Flow[j], H[j])
      BY <1>5, <2>1, <2>2, <2>4, Suffixes DEF Flows
    <2>7. \A j \in 1 .. Len(pl'["play"].q) : pl'["play"].q[j] # 0
      <3>1. p.q \in Seq(Nat) /\ x \in Seq(Nat)
        BY <1>1, <1>5, FramesAreNat
      <3>2. PICK d \in Nat : \A j \in 1 .. Len(x) : j + d \in 1 .. Len(p.q) /\ x[j] = p.q[j + d]
        BY <1>5, <3>1, SuffixElements
      <3> QED
        BY <1>9, <1>10, <3>2 DEF StreamInv, Order
    <2>8. H[2] # <<>> /\ Flow'[2] = Tail(H[2]) /\ played' = Head(H[2]) /\ played' # 0
      BY <1>2, <1>4, <1>6, <2>2, <2>4
    <2> QED
      BY <1>2, <1>3, <2>1, <2>2, <2>4, <2>5, <2>6, <2>7, <2>8, DeliverOrder
  <1>12. played' \in Frame /\ got' \in Frame
    <2>1. played' \in Frame /\ got \in Nat
      BY <1>2, <1>4 DEF StreamInv, TypeOK, Frame
    <2> QED
      BY <1>2, <1>11, <2>1, StreamAssumption DEF Frame
  <1>13. TypeOK'
    BY <1>3, <1>10, <1>12 DEF StreamInv, TypeOK, Units
  <1>14. Stages'
    <2>1. StageInv(n)
      BY <1>1, <1>9 DEF StageInv
    <2> QED
      BY <1>3, <1>9, <1>10, <2>1 DEF StreamInv, Stages, Video, Stage
  <1>15. Clock'
    <2>1. written \in Nat /\ played \in Nat /\ played' \in Nat /\ written <= played
      BY <1>12 DEF StreamInv, TypeOK, Clock, Frame
    <2>2. written' <= played'
      BY <1>3, <1>11, <2>1
    <2> QED
      BY <1>3, <1>9, <1>10, <2>2 DEF StreamInv, Clock, Units
  <1> QED
    BY <1>11, <1>13, <1>14, <1>15 DEF StreamInv

\* The audio output gives out the frame in its hand.
LEMMA AudioOutputStep ==
    ASSUME StreamInv, AudioOutput
    PROVE  StreamInv' /\ played < played' /\ played' <= pushed
  <1> DEFINE p == pl["play"]
             n == [p EXCEPT !.wk = "clock"]
  <1>1. /\ pl \in [Stage -> Plugin] /\ p \in Plugin /\ StageInv(p) /\ "play" \in Stage /\ p.q \in Seq(Frame)
        /\ ~Video /\ p.wk = "hand" /\ p.hand \in Frame /\ p.hand # 0 /\ wire \in Seq(Frame)
    BY DEF AudioOutput, StreamInv, TypeOK, Stages, StageInv, Stage, Plugin
  <1>2. /\ UNCHANGED <<kind, lives, opened, wire, shared, ring, smIndex, written, pushed>>
        /\ played' = p.hand /\ got' = got + 1
    BY DEF AudioOutput, chan, clock
  <1>3. pl' = [pl EXCEPT !["play"] = n]
    BY <1>1 DEF AudioOutput
  <1>4. /\ n \in Plugin /\ n.q = p.q /\ n.st = p.st /\ n.wk = "clock" /\ n.stop = p.stop /\ n.cb = p.cb
        /\ n.hand = p.hand
    BY <1>1 DEF Plugin
  <1> HIDE DEF n
  <1>5. Hand(n) = <<>> /\ Hand(p) = <<p.hand>>
    BY <1>1, <1>4 DEF Hand
  <1>6. pl' \in [Stage -> Plugin] /\ pl'["play"] = n /\ \A t \in Stage \ {"play"} : pl'[t] = pl[t]
    BY <1>1, <1>3, <1>4
  <1>7. Order' /\ played < played' /\ played' <= pushed /\ got' <= played'
    <2>1. Flow \in Flows /\ Flow' \in Flows
      BY <1>1, <1>2, <1>6, FlowTypes
    <2>2. HandAt("play") = 1 /\ 1 \in Place
      BY DEF HandAt, Place
    <2>3. Flow[1] = <<p.hand>> /\ Flow'[1] = <<>>
      BY <1>1, <1>5, <1>6, <2>2, FlowPlaces
    <2>4. Flow[1] # <<>> /\ Flow'[1] = Tail(Flow[1]) /\ played' = Head(Flow[1]) /\ played' # 0
      BY <1>1, <1>2, <2>3
    <2>5. \A j \in Place \ {1} : Flow'[j] = Flow[j]
      <3>1. \A t \in Stage : pl'[t].q = pl[t].q /\ (t # "play" => Hand(pl'[t]) = Hand(pl[t]))
        BY <1>4, <1>6
      <3> QED
        BY <1>2, <2>2, <3>1, FlowPlaces
    <2>6. \A j \in Place : Suffix(Flow[j], Flow[j])
      BY <2>1, Suffixes DEF Flows
    <2>7. \A j \in 1 .. Len(pl'["play"].q) : pl'["play"].q[j] # 0
      BY <1>4, <1>6 DEF StreamInv, Order
    <2> QED
      BY <1>2, <2>1, <2>4, <2>5, <2>6, <2>7, DeliverOrder
  <1>8. played' \in Frame /\ got' \in Frame
    <2>1. played' \in Frame /\ got \in Nat
      BY <1>1, <1>2 DEF StreamInv, TypeOK, Frame
    <2> QED
      BY <1>2, <1>7, <2>1, StreamAssumption DEF Frame
  <1>9. TypeOK'
    BY <1>2, <1>6, <1>8 DEF StreamInv, TypeOK, Units
  <1>10. Stages'
    <2>1. StageInv(n)
      BY <1>1, <1>4 DEF StageInv
    <2> QED
      BY <1>1, <1>2, <1>4, <1>6, <2>1 DEF StreamInv, Stages, Video, Stage
  <1>11. Clock'
    <2>1. written \in Nat /\ played \in Nat /\ played' \in Nat /\ written <= played
      BY <1>8 DEF StreamInv, TypeOK, Clock, Frame
    <2>2. written' <= played'
      BY <1>2, <1>7, <2>1
    <2> QED
      BY <1>2, <1>4, <1>6, <2>2 DEF StreamInv, Clock, Units
  <1> QED
    BY <1>7, <1>9, <1>10, <1>11 DEF StreamInv

-----------------------------------------------------------------------------
(* The clock *)

\* The time of the last frame played is written over the unit at the index.
LEMMA WriteStep ==
    ASSUME StreamInv, WriteMasterClockToMemory
    PROVE  StreamInv'
  <1> DEFINE p == pl["play"]
             n == Returned(p)
  <1>1. /\ pl \in [Stage -> Plugin] /\ p \in Plugin /\ StageInv(p) /\ "play" \in Stage /\ p.q \in Seq(Frame)
        /\ p.wk = "clock" /\ p.hand = played /\ played \in Frame /\ wire \in Seq(Frame)
    BY DEF WriteMasterClockToMemory, StreamInv, TypeOK, Stages, StageInv, Stage, Plugin, Clock
  <1>2. UNCHANGED <<kind, lives, opened, wire, shared, pushed, played, got>>
    BY DEF WriteMasterClockToMemory, chan, ends, sink
  <1>3. /\ n \in Plugin /\ n.q = p.q /\ n.st = p.st /\ n.wk = "out" /\ n.stop = p.stop /\ n.cb = p.cb
        /\ Hand(n) = <<>>
    BY <1>1, ReturnedPlugin
  <1>4. pl' = [pl EXCEPT !["play"] = n]
    BY DEF WriteMasterClockToMemory
  <1> HIDE DEF n
  <1>5. StageInv(n) /\ Hand(p) = <<>>
    BY <1>1, <1>3 DEF StageInv, Hand
  <1>6. pl' \in [Stage -> Plugin] /\ pl'["play"] = n /\ \A t \in Stage \ {"play"} : pl'[t] = pl[t]
    BY <1>1, <1>3, <1>4
  <1>7. smIndex \in Units /\ NextIndex(smIndex) \in Units
    BY StreamAssumption DEF StreamInv, TypeOK, Units, NextIndex
  <1>8. /\ \/ UNCHANGED <<ring, smIndex, written>>
           \/ ring' = [ring EXCEPT ![smIndex] = played] /\ smIndex' = NextIndex(smIndex) /\ written' = played
    BY <1>1 DEF WriteMasterClockToMemory, WriteClockUnitToMemory
  <1>9. TypeOK'
    BY <1>1, <1>2, <1>6, <1>7, <1>8 DEF StreamInv, TypeOK
  <1>10. Stages'
    BY <1>2, <1>3, <1>5, <1>6 DEF StreamInv, Stages, Video, Stage
  <1>11. Order'
    <2>1. Flow' = Flow
      <3>1. \A t \in Stage : pl'[t].q = pl[t].q /\ Hand(pl'[t]) = Hand(pl[t])
        BY <1>3, <1>5, <1>6
      <3>2. \A k \in Place : Flow'[k] = Flow[k]
        BY <1>2, <3>1, FlowPlaces
      <3>3. Flow \in Flows /\ Flow' \in Flows
        BY <1>1, <1>2, <1>6, FlowTypes
      <3> QED
        BY <3>2, <3>3 DEF Flows
    <2>2. pl'["play"].q = pl["play"].q
      BY <1>3, <1>6
    <2> QED
      BY <1>2, <2>1, <2>2 DEF StreamInv, Order
  <1>12. Clock'
    <2>1. CASE UNCHANGED <<ring, smIndex, written>>
      BY <1>2, <1>3, <1>6, <2>1 DEF StreamInv, Clock
    <2>2. CASE ring' = [ring EXCEPT ![smIndex] = played] /\ written' = played
      <3>1. /\ ring \in [Units -> Nat] /\ written \in Nat /\ played \in Nat /\ written <= played
            /\ \A i \in Units : ring[i] <= written
        BY DEF StreamInv, TypeOK, Clock, Frame
      <3>2. ASSUME NEW i \in Units PROVE ring'[i] <= played
        <4>1. ring'[i] = IF i = smIndex THEN played ELSE ring[i]
          BY <1>7, <2>2, <3>1
        <4>2. ring[i] \in Nat /\ ring[i] <= written
          BY <3>1
        <4> QED
          BY <3>1, <4>1, <4>2
      <3>3. ring'[smIndex] = played
        BY <1>7, <2>2, <3>1
      <3>4. played <= played
        BY <3>1
      <3> QED
        BY <1>2, <1>3, <1>6, <1>7, <2>2, <3>2, <3>3, <3>4 DEF Clock
    <2> QED
      BY <1>8, <2>1, <2>2
  <1> QED
    BY <1>9, <1>10, <1>11, <1>12 DEF StreamInv

\* A new memory is zeroed, and nothing has been written to it.
LEMMA SharedMemoryStep ==
    ASSUME StreamInv, NEW new \in BOOLEAN, SetSharedMemory(new)
    PROVE  StreamInv'
  <1>1. /\ UNCHANGED <<kind, lives, pl, opened, wire, smIndex, pushed, played, got>> /\ shared' = TRUE
        /\ (ring' = NoClock /\ written' = 0) \/ UNCHANGED <<ring, written>>
    BY DEF SetSharedMemory, chan, ends, sink
  <1>2. 0 \in Units /\ 0 \in Frame /\ NoClock \in [Units -> Frame] /\ \A i \in Units : NoClock[i] = 0
    BY StreamAssumption DEF Units, Frame, NoClock
  <1>3. TypeOK'
    BY <1>1, <1>2 DEF StreamInv, TypeOK
  <1>4. Stages'
    BY <1>1 DEF StreamInv, Stages, Video
  <1>5. Order'
    <2>1. Flow' = Flow
      BY <1>1 DEF Flow
    <2> QED
      BY <1>1, <2>1 DEF StreamInv, Order
  <1>6. Clock'
    <2>1. CASE UNCHANGED <<ring, written>>
      BY <1>1, <2>1 DEF StreamInv, Clock
    <2>2. CASE ring' = NoClock /\ written' = 0
      <3>1. played \in Nat
        BY DEF StreamInv, TypeOK, Frame
      <3> QED
        BY <1>1, <1>2, <2>2, <3>1 DEF StreamInv, Clock
    <2> QED
      BY <1>1, <2>1, <2>2
  <1> QED
    BY <1>3, <1>4, <1>5, <1>6 DEF StreamInv

-----------------------------------------------------------------------------
(* The theorems *)

\* At first there is no frame anywhere and no clock.
LEMMA StreamInit == Init => StreamInv
  <1> SUFFICES ASSUME Init PROVE StreamInv
    OBVIOUS
  <1>1. 0 \in Units /\ 0 \in Frame /\ NoClock \in [Units -> Frame] /\ \A i \in Units : NoClock[i] = 0
    BY StreamAssumption DEF Units, Frame, NoClock
  <1>2. NoPlugin \in Plugin /\ StageInv(NoPlugin) /\ Hand(NoPlugin) = <<>> /\ NoPlugin.q = <<>>
    <2>1. NoPlugin \in Plugin
      BY <1>1, NoFrames DEF NoPlugin, Plugin
    <2> QED
      BY <2>1 DEF NoPlugin, StageInv, Hand
  <1>3. \A s \in Stage : pl[s] = NoPlugin
    BY DEF Init
  <1>4. TypeOK
    BY <1>1, <1>2, NoFrames, StreamAssumption DEF Init, TypeOK
  <1>5. Stages
    BY <1>2, <1>3 DEF Stages, Stage, NoPlugin
  <1>6. Order
    <2>1. \A k \in Place : Flow[k] = <<>>
      BY <1>2, <1>3, FlowPlaces DEF Init
    <2>2. \A k \in Place : 1 .. Len(Flow[k]) = {}
      <3>1. 1 .. Len(<<>>) = {}
        OBVIOUS
      <3> QED
        BY <2>1, <3>1
    <2>3. Rising(Flow) /\ \A n \in 0 .. 7, f \in Nat : Fits(Flow, n, f)
      BY <2>2, Zenon DEF Rising, Fits
    <2>4. Fits(Flow, 0, 0) /\ Fits(Flow, 7, 0 + 1)
      BY <2>3
    <2>5. \A i \in 1 .. Len(pl["play"].q) : pl["play"].q[i] # 0
      <3>1. Len(pl["play"].q) = 0
        BY <1>2, <1>3 DEF Stage
      <3> QED
        BY <3>1
    <2> QED
      BY <2>3, <2>4, <2>5 DEF Init, Order
  <1>7. Clock
    BY <1>1, <1>2, <1>3 DEF Init, Clock, Stage, NoPlugin
  <1> QED
    BY <1>4, <1>5, <1>6, <1>7 DEF StreamInv

\* Every step keeps the invariant.
LEMMA StreamStep == StreamInv /\ [Next]_vars => StreamInv'
  <1> SUFFICES ASSUME StreamInv, [Next]_vars PROVE StreamInv'
    OBVIOUS
  <1>1. CASE Work
    BY <1>1, TaskStep, FilterStopEndStep, SendStep, CallbackStep, AudioOutputStep, WriteStep DEF Work
  <1>2. CASE PushData \/ OnStreamReceived \/ ScreenOutput
    BY <1>2, PushDataStep, ReceiveStep, ScreenOutputStep
  <1>3. CASE \E s \in Stage : FilterStart(s) \/ FilterStop(s)
                 \/ \E far \in {"find", "configure", "prepare", "done"} : FilterPrepare(s, far)
    BY <1>3, FilterStartStep, FilterStopStep, FilterPrepareStep
  <1>4. CASE \E new \in BOOLEAN : SetSharedMemory(new)
    BY <1>4, SharedMemoryStep
  <1>5. CASE UNCHANGED vars
    <2>1. UNCHANGED <<kind, pl, opened, wire, shared, ring, smIndex, written, pushed, played, got, lives>>
      BY <1>5 DEF vars
    <2>2. Flow' = Flow
      BY <2>1 DEF Flow
    <2> QED
      BY <2>1, <2>2 DEF StreamInv, TypeOK, Stages, Order, Clock, Video
  <1> QED
    BY <1>1, <1>2, <1>3, <1>4, <1>5 DEF Next

\* The invariant of the stream: the types, the stages and their tasks, the order
\* of the frames over all places and the clock units of the ring.
THEOREM StreamInvariant == Spec => []StreamInv
  BY StreamInit, StreamStep, PTL DEF Spec

\* A task in its loop has its plugin, its callbacks and, in the source, its
\* channel: Stop of the filters waits for the task before it resets the plugin.
THEOREM WorkersEnd == Spec => []WorkersEndFirst
  <1>1. StreamInv => WorkersEndFirst
    <2> SUFFICES ASSUME StreamInv PROVE WorkersEndFirst
      OBVIOUS
    <2>1. \A s \in Stage : StageInv(pl[s]) /\ pl[s] \in Plugin
      BY DEF StreamInv, TypeOK, Stages
    <2>2. \A s \in Stage : pl[s].wk # "out" => pl[s].st # "none" /\ pl[s].cb
      BY <2>1 DEF StageInv
    <2>3. pl["src"].wk # "out" => opened
      BY <2>1 DEF StageInv, StreamInv, Stages, Stage
    <2> QED
      BY <2>2, <2>3 DEF WorkersEndFirst
  <1> QED
    BY <1>1, StreamInvariant, PTL

\* ReadClockUnitFromMemory returns the time of the last audio frame written by
\* WriteMasterClockToMemory, for every size of the ring.
THEOREM ClockNewest == Spec => []ClockIsNewest
  <1>1. StreamInv => ClockIsNewest
    <2> SUFFICES ASSUME StreamInv, ring[0] # 0 PROVE ReadClockUnitFromMemory(ring) = written
      BY DEF ClockIsNewest, ReadClockUnitFromMemory
    <2> DEFINE S == {ring[i] : i \in Units}
               Newest(f) == \A i \in Units : ring[i] <= f
               m == CHOOSE f \in S : Newest(f)
    <2>1. /\ \A i \in Units : ring[i] \in Nat /\ ring[i] <= written
          /\ written \in S /\ written \in Nat
      BY DEF StreamInv, TypeOK, Clock, Frame
    <2>2. \E f \in S : Newest(f)
      BY <2>1
    <2>3. m \in S /\ Newest(m)
      <3> HIDE DEF S, Newest
      <3> QED
        BY <2>2
    <2>4. PICK i \in Units : m = ring[i]
      BY <2>3
    <2>5. PICK j \in Units : written = ring[j]
      BY <2>1
    <2>6. ReadClockUnitFromMemory(ring) = m
      BY Zenon DEF ReadClockUnitFromMemory
    <2> HIDE DEF m, S
    <2>7. m \in Nat /\ m <= written /\ written <= m
      BY <2>1, <2>3, <2>4, <2>5
    <2> QED
      BY <2>1, <2>6, <2>7
  <1> QED
    BY <1>1, StreamInvariant, PTL

\* From the PushData of the source to the application of the sink the stream
\* implements LossyFifo: frames come out in the order they went in, each at most
\* once, whatever is lost, stopped and started on the way.
THEOREM StreamRefines == Spec => StreamInOrder
  <1>1. Init => Fifo!Init
    BY DEF Init, Fifo!Init
  <1>2. StreamInv /\ [Next]_vars => [Fifo!Next]_<<pushed, played, got>>
    <2> SUFFICES ASSUME StreamInv, [Next]_vars PROVE [Fifo!Next]_<<pushed, played, got>>
      OBVIOUS
    <2>1. ASSUME PushData PROVE Fifo!Offer
      BY <2>1 DEF PushData, Fifo!Offer, sink
    <2>2. ASSUME ScreenOutput \/ AudioOutput PROVE Fifo!Deliver
      <3>1. played < played' /\ played' <= pushed
        BY <2>2, ScreenOutputStep, AudioOutputStep
      <3>2. got' = got + 1 /\ pushed' = pushed
        BY <2>2 DEF ScreenOutput, AudioOutput
      <3>3. played \in Nat /\ pushed \in Nat /\ played' \in Nat
        <4>1. StreamInv'
          BY <2>2, ScreenOutputStep, AudioOutputStep
        <4> QED
          BY <4>1 DEF StreamInv, TypeOK, Frame
      <3>4. played' \in (played + 1) .. pushed
        BY <3>1, <3>3
      <3> QED
        BY <3>2, <3>4 DEF Fifo!Deliver
    <2>3. ASSUME ~PushData, ~ScreenOutput, ~AudioOutput PROVE UNCHANGED <<pushed, played, got>>
      BY <2>3 DEF Next, Work, vars, ends, sink, Task, FilterStopEnd, SendDataToSoftbus, OnDataCallback,
             WriteMasterClockToMemory, OnStreamReceived, FilterStart, FilterStop, FilterPrepare, SetSharedMemory
    <2> QED
      BY <2>1, <2>2, <2>3 DEF Fifo!Next
  <1> QED
    BY <1>1, <1>2, StreamInvariant, PTL DEF Spec, StreamInOrder, Fifo!Spec

=============================================================================
