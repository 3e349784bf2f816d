-------------------------- MODULE EventPathProofs --------------------------
(***************************************************************************)
(* The two ends of an event's way through the client library: the session, *)
(* which turns the worker's bytes into events, and the adapter that sits   *)
(* between the client's callbacks and the application's and reshapes the   *)
(* audio.  What start() leaves behind is proved for every set of messages  *)
(* and stray bytes, every way of cutting the stream, every queue limit and *)
(* a worker of either language; that the application hears exactly one end *)
(* for every set of processor chains and chunks, and every bound.          *)
(***************************************************************************)
EXTENDS AudioPostProcessing, WireSession, SequenceTheorems, WellFoundedInduction,
        NaturalsInduction, TLAPS


-----------------------------------------------------------------------------
(* Folds                                                                   *)

\* A nonempty set of naturals has a least element.
LEMMA LeastNatural ==
  ASSUME NEW S \in SUBSET Nat, S # {}
  PROVE  \E n \in S : \A m \in S : n <= m
  <1> DEFINE R == {ss \in Nat \X Nat : ss[1] < ss[2]}
  <1>1. IsWellFoundedOn(R, Nat)
    <2>1. IsWellFoundedOn(OpToRel(<, Nat), Nat)
      BY NatLessThanWellFounded, Zenon
    <2>2. OpToRel(<, Nat) = R
      BY Zenon DEF OpToRel
    <2> QED BY <2>1, <2>2, Zenon
  <1>2. \A m, n \in Nat : m < n => <<m, n>> \in R
    <2> SUFFICES ASSUME NEW m \in Nat, NEW n \in Nat, m < n PROVE <<m, n>> \in R
      OBVIOUS
    <2> DEFINE p == <<m, n>>
    <2>1. p \in Nat \X Nat /\ p[1] = m /\ p[2] = n
      OBVIOUS
    <2> HIDE DEF p
    <2>2. p \in R
      BY <2>1
    <2> QED BY <2>2 DEF p
  <1> HIDE DEF R
  <1>3. PICK n \in S : \A m \in S : ~(<<m, n>> \in R)
    BY <1>1, WFMin
  <1>4. ASSUME NEW m \in S PROVE n <= m
    <2>1. <<m, n>> \notin R
      BY <1>3, Zenon
    <2>2. ~(m < n)
      BY <1>2, <2>1, Zenon
    <2> QED BY <2>2
  <1> QED BY <1>4

\* Induction over a set of naturals.
LEMMA Induction ==
  ASSUME NEW P \in SUBSET Nat, 0 \in P, \A m \in P : m + 1 \in P
  PROVE  P = Nat
  <1> SUFFICES ASSUME Nat \ P # {} PROVE FALSE
    OBVIOUS
  <1>1. PICK n \in Nat \ P : \A m \in Nat \ P : n <= m
    BY LeastNatural
  <1>2. n # 0 /\ n - 1 \in Nat
    BY <1>1
  <1>3. n - 1 \in P
    BY <1>1, <1>2
  <1>4. (n - 1) + 1 = n
    BY <1>1
  <1> QED BY <1>1, <1>3, <1>4

\* A nonempty set of positions has a last one.
LEMMA LastPosition ==
  ASSUME NEW n \in Nat, NEW s \in SUBSET (1..n), s # {}
  PROVE  /\ Max(s) \in s
         /\ \A i \in s : i <= Max(s)
         /\ s \ {Max(s)} \in SUBSET (1..(Max(s) - 1))
  <1> DEFINE D == {n - i : i \in s}
  <1>1. D \in SUBSET Nat /\ D # {}
    <2>1. \A i \in s : n - i \in Nat
      OBVIOUS
    <2> QED BY <2>1, Zenon
  <1>2. PICK d \in D : \A e \in D : d <= e
    BY <1>1, LeastNatural
  <1>3. PICK k \in s : d = n - k
    BY <1>2
  <1>4. \A i \in s : k >= i
    <2> SUFFICES ASSUME NEW i \in s PROVE k >= i
      OBVIOUS
    <2>1. n - i \in D
      OBVIOUS
    <2>2. n - k <= n - i
      BY <1>2, <1>3, <2>1
    <2> QED BY <2>2
  <1> HIDE DEF D
  <1>5. Max(s) \in s /\ \A i \in s : Max(s) >= i
    BY <1>3, <1>4, Zenon DEF Max
  <1>6. PICK m \in 1..n : m = Max(s)
    BY <1>5
  <1>7. m \in s /\ \A i \in s : i <= m
    BY <1>5, <1>6
  <1>8. s \ {m} \in SUBSET (1..(m - 1))
    BY <1>7
  <1> QED BY <1>6, <1>7, <1>8, Zenon

\* g maps a set of positions to the fold over them, whose step at position i is H[i].
FoldsBy(g, base, n, H) ==
  \A s \in SUBSET (1..n) : g[s] = IF s = {} THEN base ELSE H[Max(s)][g[s \ {Max(s)}]]

\* The function that a fold over the positions 1..n iterates exists, when the steps stay
\* in a set of accumulators.
LEMMA FoldExists ==
  ASSUME NEW A, NEW base \in A, NEW n \in Nat, NEW H \in [1..n -> [A -> A]]
  PROVE  \E g \in [SUBSET (1..n) -> A] : FoldsBy(g, base, n, H)
  <1> DEFINE Good(g, m) == FoldsBy(g, base, m, H)
             P == {m \in Nat : m <= n => \E g \in [SUBSET (1..m) -> A] : Good(g, m)}
  <1>0. \A m \in Nat : m \in P <=> (m <= n => \E g \in [SUBSET (1..m) -> A] : Good(g, m))
    OBVIOUS
  <1>3. P \in SUBSET Nat
    OBVIOUS
  <1> HIDE DEF P, Good
  <1>1. 0 \in P
    <2> DEFINE g == [s \in SUBSET (1..0) |-> base]
    <2>1. g \in [SUBSET (1..0) -> A]
      OBVIOUS
    <2>2. \A s \in SUBSET (1..0) : s = {} /\ g[s] = base
      OBVIOUS
    <2> HIDE DEF g
    <2>3. Good(g, 0)
      BY <2>2 DEF Good, FoldsBy
    <2> QED BY <2>1, <2>3, <1>0
  <1>2. ASSUME NEW m \in P PROVE m + 1 \in P
    <2>n. m + 1 \in Nat
      BY <1>3
    <2> SUFFICES ASSUME m + 1 <= n
                 PROVE  \E h \in [SUBSET (1..(m + 1)) -> A] : Good(h, m + 1)
      BY <1>0, <2>n, Zenon
    <2>0. m \in Nat /\ m <= n /\ m + 1 \in 1..n
      BY <1>3
    <2>1. PICK g \in [SUBSET (1..m) -> A] : Good(g, m)
      BY <1>0, <2>0
    <2> DEFINE h == [s \in SUBSET (1..(m + 1)) |->
                       IF m + 1 \in s THEN H[m + 1][g[s \ {m + 1}]] ELSE g[s]]
    <2>2. \A s \in SUBSET (1..(m + 1)) :
            /\ s \ {m + 1} \in SUBSET (1..m)
            /\ m + 1 \notin s => s \in SUBSET (1..m)
      BY <2>0
    <2>3. H[m + 1] \in [A -> A]
      BY <2>0
    <2>4. h \in [SUBSET (1..(m + 1)) -> A]
      BY <2>1, <2>2, <2>3
    <2>5. \A s \in SUBSET (1..(m + 1)) :
            h[s] = IF m + 1 \in s THEN H[m + 1][g[s \ {m + 1}]] ELSE g[s]
      OBVIOUS
    <2> HIDE DEF h
    <2>6. ASSUME NEW s \in SUBSET (1..(m + 1)), s # {}
          PROVE  h[s] = H[Max(s)][h[s \ {Max(s)}]]
      <3>1. Max(s) \in s /\ \A i \in s : i <= Max(s)
        BY <2>n, <2>6, LastPosition
      <3>2. CASE m + 1 \in s
        <4>1. Max(s) = m + 1
          <5>1. PICK k \in 1..(m + 1) : k = Max(s)
            BY <3>1
          <5> QED BY <3>1, <3>2, <5>1, <2>0
        <4>2. h[s \ {m + 1}] = g[s \ {m + 1}]
          BY <2>2, <2>5
        <4> QED BY <3>2, <4>1, <4>2, <2>5
      <3>3. CASE m + 1 \notin s
        <4>1. s \in SUBSET (1..m) /\ s \ {Max(s)} \in SUBSET (1..m)
          BY <2>2, <3>3
        <4>2. h[s] = g[s] /\ h[s \ {Max(s)}] = g[s \ {Max(s)}]
          BY <2>5, <3>3, <4>1
        <4>3. g[s] = H[Max(s)][g[s \ {Max(s)}]]
          BY <2>1, <2>6, <4>1 DEF Good, FoldsBy
        <4> QED BY <4>2, <4>3
      <3> QED BY <3>2, <3>3
    <2>7. h[{}] = base
      <3>1. {} \in SUBSET (1..m) /\ {} \in SUBSET (1..(m + 1))
        OBVIOUS
      <3>2. g[{}] = base
        BY <2>1, <3>1 DEF Good, FoldsBy
      <3> QED BY <2>5, <3>1, <3>2
    <2>8. Good(h, m + 1)
      BY <2>6, <2>7 DEF Good, FoldsBy
    <2> QED BY <2>4, <2>8
  <1>4. P = Nat
    BY <1>1, <1>2, <1>3, Induction
  <1>5. \E g \in [SUBSET (1..n) -> A] : Good(g, n)
    <2>1. n \in P /\ n <= n
      BY <1>4
    <2> QED BY <1>0, <2>1, Zenon
  <1> QED BY <1>5, Zenon DEF Good

\* Whatever function a fold iterates, its value at the end is an accumulator.
LEMMA FoldTyped ==
  ASSUME NEW A, NEW n \in Nat, NEW h, h[{}] \in A,
         \A s \in SUBSET (1..n) : s # {} /\ h[s \ {Max(s)}] \in A => h[s] \in A
  PROVE  h[1..n] \in A
  <1> DEFINE P == {m \in Nat : m <= n => \A s \in SUBSET (1..m) : h[s] \in A}
  <1>0. \A m \in Nat : m \in P <=> (m <= n => \A s \in SUBSET (1..m) : h[s] \in A)
    OBVIOUS
  <1>3. P \in SUBSET Nat
    OBVIOUS
  <1> HIDE DEF P
  <1>1. 0 \in P
    <2>1. \A s \in SUBSET (1..0) : s = {}
      OBVIOUS
    <2> QED BY <1>0, <2>1
  <1>2. ASSUME NEW m \in P PROVE m + 1 \in P
    <2>n. m + 1 \in Nat
      BY <1>3
    <2> SUFFICES ASSUME m + 1 <= n, NEW s \in SUBSET (1..(m + 1)) PROVE h[s] \in A
      BY <1>0, <2>n, Zenon
    <2>0. m \in Nat /\ m <= n /\ \A t \in SUBSET (1..m) : h[t] \in A
      BY <1>0, <1>3
    <2>1. CASE s = {}
      BY <2>1
    <2>2. CASE s # {}
      <3>1. s \ {Max(s)} \in SUBSET (1..(Max(s) - 1)) /\ Max(s) \in s
        BY <2>n, <2>2, LastPosition
      <3>2. s \ {Max(s)} \in SUBSET (1..m)
        <4>1. PICK k \in 1..(m + 1) : k = Max(s)
          BY <3>1
        <4>2. 1..(k - 1) \subseteq 1..m
          BY <2>0
        <4> QED BY <3>1, <4>1, <4>2
      <3>3. h[s \ {Max(s)}] \in A
        BY <2>0, <3>2
      <3>4. s \in SUBSET (1..n)
        BY <2>0
      <3> QED BY <2>2, <3>3, <3>4
    <2> QED BY <2>1, <2>2
  <1>4. P = Nat
    BY <1>1, <1>2, <1>3, Induction
  <1>5. n \in P /\ n <= n
    BY <1>4
  <1>6. \A s \in SUBSET (1..n) : h[s] \in A
    BY <1>0, <1>5, Zenon
  <1>7. 1..n \in SUBSET (1..n)
    BY Zenon
  <1> QED BY <1>6, <1>7, Zenon
-----------------------------------------------------------------------------
(* What the processors and the chain return                                *)

ChunkType == [first : Int, samples : Seq(Int), same : BOOLEAN]
Processor ==
  [options : Options, first : Int, count : Int, pending : Seq(Int),
   received : BOOLEAN, finished : BOOLEAN]
Results(P) == [ok : BOOLEAN, p : P, chunks : Seq(ChunkType)]

LEMMA OutType ==
  ASSUME NEW P, NEW ok \in BOOLEAN, NEW p \in P, NEW chunks \in Seq(ChunkType)
  PROVE  /\ Out(ok, p, chunks) \in Results(P)
         /\ Out(ok, p, chunks).ok = ok /\ Out(ok, p, chunks).p = p
         /\ Out(ok, p, chunks).chunks = chunks
  BY DEF Out, Results

LEMMA NoChunks == <<>> \in Seq(ChunkType)
  OBVIOUS

LEMMA ChunkOfType ==
  ASSUME NEW first \in Int, NEW samples \in Seq(Int)
  PROVE  ChunkOf(first, samples) \in Seq(ChunkType)
  <1> DEFINE c == Chunk(first, samples, TRUE)
  <1>1. c \in ChunkType
    BY DEF Chunk, ChunkType
  <1> HIDE DEF c
  <1>2. <<c>> \in Seq(ChunkType)
    BY <1>1
  <1> QED BY <1>2, NoChunks DEF ChunkOf, c

LEMMA ProcessorUpdate ==
  ASSUME NEW p \in Processor, NEW first \in Int, NEW count \in Int, NEW pending \in Seq(Int)
  PROVE  /\ [p EXCEPT !.received = TRUE, !.first = first, !.count = count, !.pending = pending]
              \in Processor
         /\ [p EXCEPT !.first = first, !.count = count, !.pending = pending] \in Processor
  BY DEF Processor

\* A processor returns chunks and stays a processor.
LEMMA FadeProcessType ==
  ASSUME NEW p \in Processor, NEW c \in ChunkType
  PROVE  FadeProcess(p, c) \in Results(Processor)
  <1> DEFINE all == p.pending \o c.samples
             emit == Len(all) - p.options.fade
             first == IF p.pending = <<>> THEN c.first ELSE p.first
             kept == [p EXCEPT !.received = TRUE, !.first = first, !.count = @ + Len(c.samples),
                               !.pending = all]
             rest == SubSeq(all, emit + 1, Len(all))
             left == [kept EXCEPT !.first = @ + emit, !.count = @ - emit, !.pending = rest]
  <1>1. /\ p.pending \in Seq(Int) /\ c.samples \in Seq(Int) /\ c.first \in Int /\ p.first \in Int
        /\ p.count \in Int /\ p.options \in Options /\ p.options.fade \in Nat
    BY DEF Processor, ChunkType, Options
  <1>2. all \in Seq(Int)
    BY <1>1, ConcatProperties
  <1>9. Len(c.samples) \in Nat
    BY <1>1, LenProperties
  <1> HIDE DEF all
  <1>8. Len(all) \in Nat
    BY <1>2, LenProperties
  <1>3. first \in Int
    BY <1>1
  <1>4. emit \in Int
    BY <1>1, <1>8
  <1> HIDE DEF first, emit
  <1>5. kept \in Processor
    <2>1. p.count + Len(c.samples) \in Int
      BY <1>1, <1>9
    <2> QED BY <1>2, <1>3, <2>1, ProcessorUpdate
  <1>6. ASSUME ~(emit <= 0)
        PROVE  left \in Processor /\ ChunkOf(first, SubSeq(all, 1, emit)) \in Seq(ChunkType)
    <2>1. emit \in Nat /\ emit <= Len(all)
      BY <1>1, <1>8, <1>4, <1>6 DEF emit
    <2>2. rest \in Seq(Int) /\ SubSeq(all, 1, emit) \in Seq(Int)
      <3>1. \A i \in 1..Len(all) : all[i] \in Int
        BY <1>2, ElementOfSeq
      <3> QED BY <1>2, <2>1, <3>1, SubSeqProperties
    <2> HIDE DEF kept, rest
    <2>3. left \in Processor
      <3>1. kept.first \in Int /\ kept.count \in Int
        BY <1>5 DEF Processor
      <3>2. kept.first + emit \in Int /\ kept.count - emit \in Int
        BY <1>4, <3>1
      <3> QED BY <1>5, <2>2, <3>2, ProcessorUpdate
    <2> QED BY <1>3, <2>2, <2>3, ChunkOfType
  <1> HIDE DEF kept, left, rest
  <1>7. \/ FadeProcess(p, c) \in {Out(TRUE, p, <<>>), Out(FALSE, p, <<>>), Out(TRUE, kept, <<>>)}
        \/ ~(emit <= 0) /\ FadeProcess(p, c) = Out(TRUE, left, ChunkOf(first, SubSeq(all, 1, emit)))
    BY DEF FadeProcess, kept, left, rest, first, emit, all
  <1>10. /\ Out(TRUE, p, <<>>) \in Results(Processor) /\ Out(FALSE, p, <<>>) \in Results(Processor)
         /\ Out(TRUE, kept, <<>>) \in Results(Processor)
    BY <1>5, OutType, NoChunks, Zenon
  <1>11. ASSUME ~(emit <= 0)
         PROVE  Out(TRUE, left, ChunkOf(first, SubSeq(all, 1, emit))) \in Results(Processor)
    BY <1>6, <1>11, OutType, Zenon
  <1> QED BY <1>7, <1>10, <1>11, Zenon

LEMMA LroundType ==
  ASSUME NEW s \in Int, NEW num \in Nat, NEW den \in Nat \ {0}
  PROVE  lround(s, num, den) \in Int
  BY DEF lround

LEMMA ApplyFadeType ==
  ASSUME NEW samples \in Seq(Int), NEW fade
  PROVE  apply_fade(samples, fade) \in Seq(Int)
  <1>1. Len(samples) \in Nat /\ DOMAIN samples = 1..Len(samples)
        /\ \A i \in 1..Len(samples) : samples[i] \in Int
    BY LenProperties, ElementOfSeq
  <1> DEFINE n == Len(samples)
             v(i) == IF n = 1 THEN 0 ELSE lround(samples[i], n - i, n - 1)
             t == [i \in 1..n |-> v(i)]
  <1>2. ASSUME NEW i \in 1..n PROVE v(i) \in Int
    <2>1. CASE n = 1
      BY <2>1
    <2>2. CASE n # 1
      <3>1. n - i \in Nat /\ n - 1 \in Nat \ {0} /\ samples[i] \in Int
        BY <1>1, <2>2
      <3>2. lround(samples[i], n - i, n - 1) \in Int
        BY <3>1, LroundType
      <3> QED BY <2>2, <3>2
    <2> QED BY <2>1, <2>2
  <1>3. t \in Seq(Int)
    <2> HIDE DEF v
    <2>1. t \in [1..n -> Int] /\ n \in Nat
      BY <1>1, <1>2
    <2> QED BY <2>1, IsASeq
  <1>4. apply_fade(samples, fade) \in {samples, t}
    BY <1>1 DEF apply_fade
  <1> QED BY <1>3, <1>4

LEMMA FadeFinishType ==
  ASSUME NEW p \in Processor, NEW reason
  PROVE  FadeFinish(p, reason) \in Results(Processor)
  <1> DEFINE o == p.options
             silence == IF reason = "completed" THEN o.silence ELSE o.cancelled
             tail == IF reason = "error" THEN p.pending
                     ELSE apply_fade(p.pending, o.fade) \o Silence(silence)
             done == [p EXCEPT !.finished = TRUE, !.pending = <<>>]
  <1>1. p.pending \in Seq(Int) /\ p.first \in Int /\ silence \in Nat
    BY DEF Processor, Options
  <1> HIDE DEF silence
  <1>2. Silence(silence) \in Seq(Int)
    <2>1. Silence(silence) \in [1..silence -> Int]
      BY DEF Silence
    <2> QED BY <1>1, <2>1, IsASeq
  <1>3. apply_fade(p.pending, o.fade) \in Seq(Int)
    BY <1>1, ApplyFadeType
  <1>4. tail \in Seq(Int)
    BY <1>1, <1>2, <1>3, ConcatProperties
  <1>5. done \in Processor
    <2>1. <<>> \in Seq(Int)
      OBVIOUS
    <2> QED BY <2>1 DEF Processor
  <1>6. FadeFinish(p, reason) \in {Out(TRUE, p, <<>>), Out(TRUE, done, <<>>),
                                   Out(TRUE, done, ChunkOf(p.first, tail))}
    BY DEF FadeFinish, silence
  <1> HIDE DEF tail, done
  <1>7. ChunkOf(p.first, tail) \in Seq(ChunkType)
    BY <1>1, <1>4, ChunkOfType
  <1>8. /\ Out(TRUE, p, <<>>) \in Results(Processor) /\ Out(TRUE, done, <<>>) \in Results(Processor)
        /\ Out(TRUE, done, ChunkOf(p.first, tail)) \in Results(Processor)
    BY <1>5, <1>7, OutType, NoChunks, Zenon
  <1> QED BY <1>6, <1>8, Zenon
\* One chunk into one processor.
LEMMA ProcessChunkType ==
  ASSUME NEW a \in Results(Processor), NEW c \in ChunkType
  PROVE  ProcessChunk(a, c) \in Results(Processor)
  <1> DEFINE r == FadeProcess(a.p, c)
  <1>1. a.ok \in BOOLEAN /\ a.p \in Processor /\ a.chunks \in Seq(ChunkType)
    BY DEF Results
  <1>2. r \in Results(Processor)
    BY <1>1, FadeProcessType
  <1> HIDE DEF r
  <1>3. r.ok \in BOOLEAN /\ r.p \in Processor /\ r.chunks \in Seq(ChunkType)
    BY <1>2 DEF Results
  <1>4. a.chunks \o r.chunks \in Seq(ChunkType)
    BY <1>1, <1>3, ConcatProperties
  <1>5. Out(r.ok, r.p, a.chunks \o r.chunks) \in Results(Processor)
    BY <1>3, <1>4, OutType, Zenon
  <1>6. ProcessChunk(a, c) \in {a, Out(r.ok, r.p, a.chunks \o r.chunks)}
    BY Zenon DEF ProcessChunk, r
  <1> QED BY <1>5, <1>6

\* All chunks into one processor.
LEMMA FoldChunksType ==
  ASSUME NEW base \in Results(Processor), NEW seq \in Seq(ChunkType)
  PROVE  FoldLeft(ProcessChunk, base, seq) \in Results(Processor)
  <1> DEFINE n == Len(seq)
             D == DOMAIN seq
             A == Results(Processor)
             H == [i \in 1..n |-> [a \in A |-> ProcessChunk(a, seq[i])]]
             Iterates(h) == h = [s \in SUBSET D |->
                                   IF s = {} THEN base
                                   ELSE LET x == Max(s) IN ProcessChunk(h[s \ {x}], seq[x])]
  <1>1. n \in Nat /\ D = 1..n /\ \A i \in 1..n : seq[i] \in ChunkType
    BY LenProperties, ElementOfSeq
  <1>2. \A a \in A, i \in 1..n : ProcessChunk(a, seq[i]) \in A
    BY <1>1, ProcessChunkType DEF A
  <1> HIDE DEF A, n, D
  <1>3. H \in [1..n -> [A -> A]]
    BY <1>2
  <1>4. \A i \in 1..n, a \in A : H[i][a] = ProcessChunk(a, seq[i])
    OBVIOUS
  <1> HIDE DEF H
  <1>5. base \in A
    BY DEF A
  <1>6. PICK g \in [SUBSET (1..n) -> A] : FoldsBy(g, base, n, H)
    BY <1>1, <1>3, <1>5, FoldExists, Zenon
  <1>7. Iterates(g)
    <2>1. ASSUME NEW s \in SUBSET (1..n), s # {}
          PROVE  g[s] = ProcessChunk(g[s \ {Max(s)}], seq[Max(s)])
      <3>1. Max(s) \in 1..n /\ s \ {Max(s)} \in SUBSET (1..n)
        BY <1>1, <2>1, LastPosition
      <3>2. g[s \ {Max(s)}] \in A
        BY <3>1
      <3>3. g[s] = H[Max(s)][g[s \ {Max(s)}]]
        BY <1>6, <2>1 DEF FoldsBy
      <3> QED BY <1>4, <3>1, <3>2, <3>3
    <2>2. g[{}] = base
      BY <1>6 DEF FoldsBy
    <2>3. \A s \in SUBSET (1..n) :
            g[s] = IF s = {} THEN base
                   ELSE LET x == Max(s) IN ProcessChunk(g[s \ {x}], seq[x])
      BY <2>1, <2>2, Zenon
    <2> QED BY <1>1, <2>3
  <1>8. ASSUME NEW h, Iterates(h) PROVE h[D] \in A
    <2>1. \A s \in SUBSET (1..n) :
            h[s] = IF s = {} THEN base
                   ELSE LET x == Max(s) IN ProcessChunk(h[s \ {x}], seq[x])
      BY <1>1, <1>8, Zenon
    <2>2. {} \in SUBSET (1..n)
      OBVIOUS
    <2>3. h[{}] \in A
      BY <1>5, <2>1, <2>2, Zenon
    <2>4. ASSUME NEW s \in SUBSET (1..n), s # {}, h[s \ {Max(s)}] \in A PROVE h[s] \in A
      <3>1. Max(s) \in 1..n
        BY <1>1, <2>4, LastPosition
      <3>2. h[s] = ProcessChunk(h[s \ {Max(s)}], seq[Max(s)])
        BY <2>1, <2>4, Zenon
      <3> QED BY <1>2, <2>4, <3>1, <3>2, Z3
    <2>5. h[1..n] \in A
      BY <1>1, <2>3, <2>4, FoldTyped
    <2> QED BY <1>1, <2>5
  <1>9. FoldLeft(ProcessChunk, base, seq) \in A
    BY <1>7, <1>8, Zenon DEF FoldLeft, MapThenFoldSet, D
  <1> QED BY <1>9 DEF A

\* The processors of a chain of n.
Chain(n) == [1..n -> Processor]

\* All chunks into the j-th processor.
LEMMA ProcessStageType ==
  ASSUME NEW n \in Nat, NEW a \in Results(Chain(n)), NEW j \in 1..n
  PROVE  ProcessStage(a, j) \in Results(Chain(n))
  <1> DEFINE b == Out(TRUE, a.p[j], <<>>)
             r == FoldLeft(ProcessChunk, b, a.chunks)
             ps == [a.p EXCEPT ![j] = r.p]
  <1>1. a.ok \in BOOLEAN /\ a.p \in Chain(n) /\ a.chunks \in Seq(ChunkType) /\ a.p[j] \in Processor
    BY DEF Results, Chain
  <1>2. b \in Results(Processor)
    BY <1>1, OutType, NoChunks, Zenon
  <1> HIDE DEF b
  <1>3. r \in Results(Processor)
    BY <1>1, <1>2, FoldChunksType
  <1> HIDE DEF r
  <1>4. r.ok \in BOOLEAN /\ r.p \in Processor /\ r.chunks \in Seq(ChunkType)
    BY <1>3 DEF Results
  <1>5. ps \in Chain(n)
    BY <1>1, <1>4 DEF Chain
  <1>6. ProcessStage(a, j) \in {a, Out(r.ok, ps, r.chunks)}
    BY Zenon DEF ProcessStage, r, b
  <1> HIDE DEF ps
  <1>7. Out(r.ok, ps, r.chunks) \in Results(Chain(n))
    BY <1>4, <1>5, OutType, Zenon
  <1> QED BY <1>6, <1>7

\* All chunks through some of the processors, one after the other.
LEMMA FoldStagesType ==
  ASSUME NEW k \in Nat, NEW base \in Results(Chain(k)), NEW seq \in Seq((1..k))
  PROVE  FoldLeft(ProcessStage, base, seq) \in Results(Chain(k))
  <1> DEFINE n == Len(seq)
             D == DOMAIN seq
             A == Results(Chain(k))
             H == [i \in 1..n |-> [a \in A |-> ProcessStage(a, seq[i])]]
             Iterates(h) == h = [s \in SUBSET D |->
                                   IF s = {} THEN base
                                   ELSE LET x == Max(s) IN ProcessStage(h[s \ {x}], seq[x])]
  <1>1. n \in Nat /\ D = 1..n /\ \A i \in 1..n : seq[i] \in (1..k)
    BY LenProperties, ElementOfSeq
  <1>2. \A a \in A, i \in 1..n : ProcessStage(a, seq[i]) \in A
    BY <1>1, ProcessStageType DEF A
  <1> HIDE DEF A, n, D
  <1>3. H \in [1..n -> [A -> A]]
    BY <1>2
  <1>4. \A i \in 1..n, a \in A : H[i][a] = ProcessStage(a, seq[i])
    OBVIOUS
  <1> HIDE DEF H
  <1>5. base \in A
    BY DEF A
  <1>6. PICK g \in [SUBSET (1..n) -> A] : FoldsBy(g, base, n, H)
    BY <1>1, <1>3, <1>5, FoldExists, Zenon
  <1>7. Iterates(g)
    <2>1. ASSUME NEW s \in SUBSET (1..n), s # {}
          PROVE  g[s] = ProcessStage(g[s \ {Max(s)}], seq[Max(s)])
      <3>1. Max(s) \in 1..n /\ s \ {Max(s)} \in SUBSET (1..n)
        BY <1>1, <2>1, LastPosition
      <3>2. g[s \ {Max(s)}] \in A
        BY <3>1
      <3>3. g[s] = H[Max(s)][g[s \ {Max(s)}]]
        BY <1>6, <2>1 DEF FoldsBy
      <3> QED BY <1>4, <3>1, <3>2, <3>3
    <2>2. g[{}] = base
      BY <1>6 DEF FoldsBy
    <2>3. \A s \in SUBSET (1..n) :
            g[s] = IF s = {} THEN base
                   ELSE LET x == Max(s) IN ProcessStage(g[s \ {x}], seq[x])
      BY <2>1, <2>2, Zenon
    <2> QED BY <1>1, <2>3
  <1>8. ASSUME NEW h, Iterates(h) PROVE h[D] \in A
    <2>1. \A s \in SUBSET (1..n) :
            h[s] = IF s = {} THEN base
                   ELSE LET x == Max(s) IN ProcessStage(h[s \ {x}], seq[x])
      BY <1>1, <1>8, Zenon
    <2>2. {} \in SUBSET (1..n)
      OBVIOUS
    <2>3. h[{}] \in A
      BY <1>5, <2>1, <2>2, Zenon
    <2>4. ASSUME NEW s \in SUBSET (1..n), s # {}, h[s \ {Max(s)}] \in A PROVE h[s] \in A
      <3>1. Max(s) \in 1..n
        BY <1>1, <2>4, LastPosition
      <3>2. h[s] = ProcessStage(h[s \ {Max(s)}], seq[Max(s)])
        BY <2>1, <2>4, Zenon
      <3> QED BY <1>2, <2>4, <3>1, <3>2, Z3
    <2>5. h[1..n] \in A
      BY <1>1, <2>3, <2>4, FoldTyped
    <2> QED BY <1>1, <2>5
  <1>9. FoldLeft(ProcessStage, base, seq) \in A
    BY <1>7, <1>8, Zenon DEF FoldLeft, MapThenFoldSet, D
  <1> QED BY <1>9 DEF A

LEMMA ProcessRangeType ==
  ASSUME NEW n \in Nat, NEW ps \in Chain(n), NEW from \in 1..(n + 1),
         NEW chunks \in Seq(ChunkType)
  PROVE  process_range(ps, from, chunks) \in Results(Chain(n))
  <1>1. Len(ps) = n
    <2>1. ps \in Seq(Processor) /\ DOMAIN ps = 1..n
      BY IsASeq DEF Chain
    <2> QED BY <2>1, LenProperties
  <1> DEFINE js == [k \in 1..(n - from + 1) |-> from + k - 1]
             b == Out(TRUE, ps, chunks)
  <1>2. js \in Seq(1..n)
    <2>1. n - from + 1 \in Nat
      OBVIOUS
    <2>2. js \in [1..(n - from + 1) -> 1..n]
      OBVIOUS
    <2> QED BY <2>1, <2>2, IsASeq
  <1>3. b \in Results(Chain(n))
    BY OutType, Zenon
  <1>4. process_range(ps, from, chunks) = FoldLeft(ProcessStage, b, js)
    BY <1>1, Zenon DEF process_range
  <1> HIDE DEF js, b
  <1> QED BY <1>2, <1>3, <1>4, FoldStagesType

\* The j-th processor finishes, and what it held goes through the ones after it.
LEMMA FinishStageType ==
  ASSUME NEW n \in Nat, NEW reason, NEW a \in Results(Chain(n)), NEW j \in 1..n
  PROVE  FinishStage(a, j, reason) \in Results(Chain(n))
  <1> DEFINE f == FadeFinish(a.p[j], reason)
             ps == [a.p EXCEPT ![j] = f.p]
             r == process_range(ps, j + 1, f.chunks)
  <1>1. a.ok \in BOOLEAN /\ a.p \in Chain(n) /\ a.chunks \in Seq(ChunkType) /\ a.p[j] \in Processor
    BY DEF Results, Chain
  <1>2. f \in Results(Processor)
    BY <1>1, FadeFinishType
  <1> HIDE DEF f
  <1>3. f.p \in Processor /\ f.chunks \in Seq(ChunkType)
    BY <1>2 DEF Results
  <1>4. ps \in Chain(n)
    BY <1>1, <1>3 DEF Chain
  <1> HIDE DEF ps
  <1>5. r \in Results(Chain(n))
    <2>1. j + 1 \in 1..(n + 1)
      OBVIOUS
    <2> QED BY <1>3, <1>4, <2>1, ProcessRangeType
  <1> HIDE DEF r
  <1>6. r.ok \in BOOLEAN /\ r.p \in Chain(n) /\ r.chunks \in Seq(ChunkType)
    BY <1>5 DEF Results
  <1>7. a.chunks \o r.chunks \in Seq(ChunkType)
    BY <1>1, <1>6, ConcatProperties
  <1>8. Out(r.ok, r.p, a.chunks \o r.chunks) \in Results(Chain(n))
    BY <1>6, <1>7, OutType, Zenon
  <1>9. FinishStage(a, j, reason) \in {a, Out(r.ok, r.p, a.chunks \o r.chunks)}
    BY Zenon DEF FinishStage, r, ps, f
  <1> QED BY <1>8, <1>9

\* The loop of finish.
FoldFinish(base, seq, reason) ==
  FoldLeft(LAMBDA acc, j : FinishStage(acc, j, reason), base, seq)

\* The processors finish, one after the other.
LEMMA FoldFinishType ==
  ASSUME NEW k \in Nat, NEW reason, NEW base \in Results(Chain(k)), NEW seq \in Seq((1..k))
  PROVE  FoldFinish(base, seq, reason) \in Results(Chain(k))
  <1> DEFINE n == Len(seq)
             D == DOMAIN seq
             A == Results(Chain(k))
             H == [i \in 1..n |-> [a \in A |-> FinishStage(a, seq[i], reason)]]
             Iterates(h) == h = [s \in SUBSET D |->
                                   IF s = {} THEN base
                                   ELSE LET x == Max(s) IN FinishStage(h[s \ {x}], seq[x], reason)]
  <1>1. n \in Nat /\ D = 1..n /\ \A i \in 1..n : seq[i] \in (1..k)
    BY LenProperties, ElementOfSeq
  <1>2. \A a \in A, i \in 1..n : FinishStage(a, seq[i], reason) \in A
    BY <1>1, FinishStageType DEF A
  <1> HIDE DEF A, n, D
  <1>3. H \in [1..n -> [A -> A]]
    BY <1>2
  <1>4. \A i \in 1..n, a \in A : H[i][a] = FinishStage(a, seq[i], reason)
    OBVIOUS
  <1> HIDE DEF H
  <1>5. base \in A
    BY DEF A
  <1>6. PICK g \in [SUBSET (1..n) -> A] : FoldsBy(g, base, n, H)
    BY <1>1, <1>3, <1>5, FoldExists, Zenon
  <1>7. Iterates(g)
    <2>1. ASSUME NEW s \in SUBSET (1..n), s # {}
          PROVE  g[s] = FinishStage(g[s \ {Max(s)}], seq[Max(s)], reason)
      <3>1. Max(s) \in 1..n /\ s \ {Max(s)} \in SUBSET (1..n)
        BY <1>1, <2>1, LastPosition
      <3>2. g[s \ {Max(s)}] \in A
        BY <3>1
      <3>3. g[s] = H[Max(s)][g[s \ {Max(s)}]]
        BY <1>6, <2>1 DEF FoldsBy
      <3> QED BY <1>4, <3>1, <3>2, <3>3
    <2>2. g[{}] = base
      BY <1>6 DEF FoldsBy
    <2>3. \A s \in SUBSET (1..n) :
            g[s] = IF s = {} THEN base
                   ELSE LET x == Max(s) IN FinishStage(g[s \ {x}], seq[x], reason)
      BY <2>1, <2>2, Zenon
    <2> QED BY <1>1, <2>3
  <1>8. ASSUME NEW h, Iterates(h) PROVE h[D] \in A
    <2>1. \A s \in SUBSET (1..n) :
            h[s] = IF s = {} THEN base
                   ELSE LET x == Max(s) IN FinishStage(h[s \ {x}], seq[x], reason)
      BY <1>1, <1>8, Zenon
    <2>2. {} \in SUBSET (1..n)
      OBVIOUS
    <2>3. h[{}] \in A
      BY <1>5, <2>1, <2>2, Zenon
    <2>4. ASSUME NEW s \in SUBSET (1..n), s # {}, h[s \ {Max(s)}] \in A PROVE h[s] \in A
      <3>1. Max(s) \in 1..n
        BY <1>1, <2>4, LastPosition
      <3>2. h[s] = FinishStage(h[s \ {Max(s)}], seq[Max(s)], reason)
        BY <2>1, <2>4, Zenon
      <3> QED BY <1>2, <2>4, <3>1, <3>2, Z3
    <2>5. h[1..n] \in A
      BY <1>1, <2>3, <2>4, FoldTyped
    <2> QED BY <1>1, <2>5
  <1>9. FoldFinish(base, seq, reason) \in A
    BY <1>7, <1>8, Zenon DEF FoldFinish, FoldLeft, MapThenFoldSet, D
  <1> QED BY <1>9 DEF A
ChainType == [processors : Seq(Processor), finished : BOOLEAN]

LEMMA ChainLen ==
  ASSUME NEW ch \in ChainType
  PROVE  /\ Len(ch.processors) \in Nat /\ DOMAIN ch.processors = 1..Len(ch.processors)
         /\ ch.processors \in Chain(Len(ch.processors)) /\ ch.finished \in BOOLEAN
  <1>1. ch.processors \in Seq(Processor) /\ ch.finished \in BOOLEAN
    BY DEF ChainType
  <1>2. /\ Len(ch.processors) \in Nat /\ DOMAIN ch.processors = 1..Len(ch.processors)
        /\ ch.processors \in [1..Len(ch.processors) -> Processor]
    BY <1>1, LenProperties
  <1> QED BY <1>1, <1>2 DEF Chain

LEMMA ChainIsSeq ==
  ASSUME NEW n \in Nat, NEW ps \in Chain(n)
  PROVE  ps \in Seq(Processor)
  BY IsASeq DEF Chain

\* The chain returns chunks and stays a chain.
LEMMA ChainProcessType ==
  ASSUME NEW ch \in ChainType, NEW c \in ChunkType
  PROVE  ChainProcess(ch, c) \in Results(ChainType)
  <1> DEFINE n == Len(ch.processors)
             r == process_range(ch.processors, 1, <<c>>)
             after == [ch EXCEPT !.processors = r.p]
  <1>1. n \in Nat /\ ch.processors \in Chain(n)
    BY ChainLen
  <1>2. <<c>> \in Seq(ChunkType) /\ 1 \in 1..(n + 1)
    BY <1>1
  <1> HIDE DEF n
  <1>3. r \in Results(Chain(n))
    BY <1>1, <1>2, ProcessRangeType
  <1> HIDE DEF r
  <1>4. r.ok \in BOOLEAN /\ r.p \in Chain(n) /\ r.chunks \in Seq(ChunkType)
    BY <1>3 DEF Results
  <1>5. r.p \in Seq(Processor)
    BY <1>1, <1>4, ChainIsSeq
  <1>6. after \in ChainType
    BY <1>5 DEF ChainType
  <1>7. ChainProcess(ch, c) \in {Out(TRUE, ch, <<>>), Out(r.ok, after, r.chunks)}
    BY Zenon DEF ChainProcess, r
  <1> HIDE DEF after
  <1>8. Out(TRUE, ch, <<>>) \in Results(ChainType) /\ Out(r.ok, after, r.chunks) \in Results(ChainType)
    BY <1>4, <1>6, OutType, NoChunks, Zenon
  <1> QED BY <1>7, <1>8, Zenon

LEMMA ChainFinishType ==
  ASSUME NEW ch \in ChainType, NEW reason
  PROVE  ChainFinish(ch, reason) \in Results(ChainType)
  <1> DEFINE n == Len(ch.processors)
             js == [j \in DOMAIN ch.processors |-> j]
             b == Out(TRUE, ch.processors, <<>>)
             r == FoldFinish(b, js, reason)
             after == [processors |-> r.p, finished |-> TRUE]
  <1>1. n \in Nat /\ ch.processors \in Chain(n) /\ DOMAIN ch.processors = 1..n
    BY ChainLen
  <1> HIDE DEF n
  <1>2. js \in Seq(1..n)
    <2>1. js \in [1..n -> 1..n]
      BY <1>1
    <2> QED BY <1>1, <2>1, IsASeq
  <1>3. b \in Results(Chain(n))
    BY <1>1, OutType, NoChunks, Zenon
  <1> HIDE DEF js, b
  <1>4. r \in Results(Chain(n))
    BY <1>1, <1>2, <1>3, FoldFinishType, Zenon
  <1> HIDE DEF r
  <1>5. r.ok \in BOOLEAN /\ r.p \in Chain(n) /\ r.chunks \in Seq(ChunkType)
    BY <1>4 DEF Results
  <1>6. r.p \in Seq(Processor)
    BY <1>1, <1>5, ChainIsSeq
  <1>7. after \in ChainType
    BY <1>6 DEF ChainType
  <1>8. ChainFinish(ch, reason) \in {Out(TRUE, ch, <<>>), Out(r.ok, after, r.chunks)}
    BY Zenon DEF ChainFinish, FoldFinish, r, b, js
  <1> HIDE DEF after
  <1>9. Out(TRUE, ch, <<>>) \in Results(ChainType) /\ Out(r.ok, after, r.chunks) \in Results(ChainType)
    BY <1>5, <1>7, OutType, NoChunks, Zenon
  <1> QED BY <1>8, <1>9, Zenon

-----------------------------------------------------------------------------
(* The adapter                                                             *)

EventType == [type : Reasons \cup {"audio", "client_error"}, chunk : ChunkType]

LEMMA AddSamplesType ==
  ASSUME NEW n \in Int, NEW e \in EventType
  PROVE  AddSamples(n, e) \in Int
  <1>1. e.chunk.samples \in Seq(Int)
    BY DEF EventType, ChunkType
  <1>2. Len(e.chunk.samples) \in Nat
    BY <1>1, LenProperties
  <1> QED BY <1>2 DEF AddSamples

\* The position of a chunk on the sample timeline.
LEMMA SampleCountType ==
  ASSUME NEW base \in Int, NEW seq \in Seq(EventType)
  PROVE  FoldLeft(AddSamples, base, seq) \in Int
  <1> DEFINE n == Len(seq)
             D == DOMAIN seq
             A == Int
             H == [i \in 1..n |-> [a \in A |-> AddSamples(a, seq[i])]]
             Iterates(h) == h = [s \in SUBSET D |->
                                   IF s = {} THEN base
                                   ELSE LET x == Max(s) IN AddSamples(h[s \ {x}], seq[x])]
  <1>1. n \in Nat /\ D = 1..n /\ \A i \in 1..n : seq[i] \in EventType
    BY LenProperties, ElementOfSeq
  <1>2. \A a \in A, i \in 1..n : AddSamples(a, seq[i]) \in A
    BY <1>1, AddSamplesType DEF A
  <1> HIDE DEF A, n, D
  <1>3. H \in [1..n -> [A -> A]]
    BY <1>2
  <1>4. \A i \in 1..n, a \in A : H[i][a] = AddSamples(a, seq[i])
    OBVIOUS
  <1> HIDE DEF H
  <1>5. base \in A
    BY DEF A
  <1>6. PICK g \in [SUBSET (1..n) -> A] : FoldsBy(g, base, n, H)
    BY <1>1, <1>3, <1>5, FoldExists, Zenon
  <1>7. Iterates(g)
    <2>1. ASSUME NEW s \in SUBSET (1..n), s # {}
          PROVE  g[s] = AddSamples(g[s \ {Max(s)}], seq[Max(s)])
      <3>1. Max(s) \in 1..n /\ s \ {Max(s)} \in SUBSET (1..n)
        BY <1>1, <2>1, LastPosition
      <3>2. g[s \ {Max(s)}] \in A
        BY <3>1
      <3>3. g[s] = H[Max(s)][g[s \ {Max(s)}]]
        BY <1>6, <2>1 DEF FoldsBy
      <3> QED BY <1>4, <3>1, <3>2, <3>3
    <2>2. g[{}] = base
      BY <1>6 DEF FoldsBy
    <2>3. \A s \in SUBSET (1..n) :
            g[s] = IF s = {} THEN base
                   ELSE LET x == Max(s) IN AddSamples(g[s \ {x}], seq[x])
      BY <2>1, <2>2, Zenon
    <2> QED BY <1>1, <2>3
  <1>8. ASSUME NEW h, Iterates(h) PROVE h[D] \in A
    <2>1. \A s \in SUBSET (1..n) :
            h[s] = IF s = {} THEN base
                   ELSE LET x == Max(s) IN AddSamples(h[s \ {x}], seq[x])
      BY <1>1, <1>8, Zenon
    <2>2. {} \in SUBSET (1..n)
      OBVIOUS
    <2>3. h[{}] \in A
      BY <1>5, <2>1, <2>2, Zenon
    <2>4. ASSUME NEW s \in SUBSET (1..n), s # {}, h[s \ {Max(s)}] \in A PROVE h[s] \in A
      <3>1. Max(s) \in 1..n
        BY <1>1, <2>4, LastPosition
      <3>2. h[s] = AddSamples(h[s \ {Max(s)}], seq[Max(s)])
        BY <2>1, <2>4, Zenon
      <3> QED BY <1>2, <2>4, <3>1, <3>2, Z3
    <2>5. h[1..n] \in A
      BY <1>1, <2>3, <2>4, FoldTyped
    <2> QED BY <1>1, <2>5
  <1>9. FoldLeft(AddSamples, base, seq) \in A
    BY <1>7, <1>8, Zenon DEF FoldLeft, MapThenFoldSet, D
  <1> QED BY <1>9 DEF A
(***************************************************************************)
(* The strengthening.  Until the adapter has taken an end, everything the  *)
(* application heard and everything the running event still has to say is  *)
(* audio; afterwards the one end is either still to be said, last, or was  *)
(* the last thing said, or was lost to an exception of the application.    *)
(* And an end the client has delivered is not lost on the way there: it is *)
(* in the queue until it is taken, and nobody leaves a queue with events.  *)
(***************************************************************************)
AllAudio(s) == \A i \in 1..Len(s) : s[i].type = "audio"

EndsOnce(s) ==
  /\ Len(s) >= 1 /\ s[Len(s)].type # "audio"
  /\ \A i \in 1..(Len(s) - 1) : s[i].type = "audio"

HasEnd(s) == \E i \in 1..Len(s) : s[i].type # "audio"

AdapterTypes ==
  /\ chain \in ChainType
  /\ queue \in Seq(EventType) /\ calls \in Seq(EventType)
  /\ posted \in Seq(EventType) /\ delivered \in Seq(EventType)
  /\ terminal \in BOOLEAN /\ ended \in BOOLEAN /\ lost \in BOOLEAN

Said ==
  /\ ~terminal => AllAudio(delivered) /\ AllAudio(calls)
  /\ terminal => \/ AllAudio(delivered) /\ EndsOnce(calls)
                 \/ EndsOnce(delivered) /\ calls = <<>>
                 \/ AllAudio(delivered) /\ calls = <<>> /\ lost

Owed ==
  /\ ended /\ ~terminal => HasEnd(queue)
  /\ running = "none" => queue = <<>> /\ calls = <<>>

AdapterInv == AdapterTypes /\ Said /\ Owed

LEMMA NoEvents == <<>> \in Seq(EventType) /\ AllAudio(<<>>)
  <1>1. <<>> \in Seq(EventType)
    OBVIOUS
  <1> QED BY <1>1 DEF AllAudio

LEMMA EventTypes ==
  ASSUME NEW e \in EventType
  PROVE  e.chunk \in ChunkType /\ End(e.type) \in EventType /\ End(e.type).type = e.type
  <1>1. <<>> \in Seq(Int)
    OBVIOUS
  <1>2. Chunk(0, <<>>, TRUE) \in ChunkType
    BY <1>1 DEF Chunk, ChunkType
  <1>3. e.type \in Reasons \cup {"audio", "client_error"} /\ e.chunk \in ChunkType
    BY DEF EventType
  <1> DEFINE c == Chunk(0, <<>>, TRUE)
  <1> HIDE DEF c
  <1>4. c \in ChunkType
    BY <1>2 DEF c
  <1>5. End(e.type) = [type |-> e.type, chunk |-> c]
    BY Zenon DEF End, c
  <1> QED BY <1>3, <1>4, <1>5 DEF EventType

LEMMA EndTypes ==
  ASSUME NEW reason \in Reasons \cup {"client_error"}
  PROVE  End(reason) \in EventType /\ End(reason).type = reason /\ reason # "audio"
  <1>1. <<>> \in Seq(Int)
    OBVIOUS
  <1> DEFINE c == Chunk(0, <<>>, TRUE)
  <1>2. c \in ChunkType
    BY <1>1 DEF Chunk, ChunkType
  <1>3. End(reason) = [type |-> reason, chunk |-> c]
    BY Zenon DEF End
  <1> HIDE DEF c
  <1> QED BY <1>2, <1>3 DEF EventType, Reasons

\* Saying one more thing.
LEMMA SayOne ==
  ASSUME NEW s \in Seq(EventType), NEW e \in EventType, AllAudio(s)
  PROVE  /\ Append(s, e) \in Seq(EventType)
         /\ e.type = "audio" => AllAudio(Append(s, e))
         /\ e.type # "audio" => EndsOnce(Append(s, e))
  <1> DEFINE t == Append(s, e)
  <1>1. /\ t \in Seq(EventType) /\ Len(t) = Len(s) + 1 /\ Len(s) \in Nat
        /\ \A i \in 1..Len(s) : t[i] = s[i]
        /\ t[Len(s) + 1] = e
    BY AppendProperties, LenProperties
  <1> HIDE DEF t
  <1>2. e.type = "audio" => AllAudio(t)
    <2> SUFFICES ASSUME e.type = "audio", NEW i \in 1..Len(t) PROVE t[i].type = "audio"
      BY DEF AllAudio
    <2>1. i \in 1..Len(s) \/ i = Len(s) + 1
      BY <1>1
    <2> QED BY <1>1, <2>1 DEF AllAudio
  <1>3. e.type # "audio" => EndsOnce(t)
    BY <1>1 DEF AllAudio, EndsOnce
  <1> QED BY <1>1, <1>2, <1>3 DEF t

\* What is left when the first of several things has been said.
LEMMA SaidOne ==
  ASSUME NEW s \in Seq(EventType), s # <<>>
  PROVE  /\ Head(s) \in EventType /\ Tail(s) \in Seq(EventType) /\ Len(s) \in Nat
         /\ AllAudio(s) => Head(s).type = "audio" /\ AllAudio(Tail(s))
         /\ EndsOnce(s) /\ Len(s) = 1 => Head(s).type # "audio" /\ Tail(s) = <<>>
         /\ EndsOnce(s) /\ Len(s) # 1 => Head(s).type = "audio" /\ EndsOnce(Tail(s)) /\ Len(s) > 1
         /\ HasEnd(s) /\ Head(s).type = "audio" => HasEnd(Tail(s))
  <1> DEFINE t == Tail(s)
             h == Head(s)
  <1>1. /\ h \in EventType /\ t \in Seq(EventType) /\ h = s[1]
        /\ Len(s) \in Nat \ {0} /\ Len(t) = Len(s) - 1
        /\ \A i \in 1..(Len(s) - 1) : t[i] = s[i + 1]
    BY HeadTailProperties, LenProperties, EmptySeq
  <1> HIDE DEF t, h
  <1>2. AllAudio(s) => h.type = "audio" /\ AllAudio(t)
    BY <1>1 DEF AllAudio
  <1>3. EndsOnce(s) /\ Len(s) = 1 => h.type # "audio" /\ t = <<>>
    BY <1>1, EmptySeq DEF EndsOnce
  <1>4. EndsOnce(s) /\ Len(s) # 1 => h.type = "audio" /\ EndsOnce(t) /\ Len(s) > 1
    <2> SUFFICES ASSUME EndsOnce(s), Len(s) # 1
                 PROVE  h.type = "audio" /\ EndsOnce(t) /\ Len(s) > 1
      OBVIOUS
    <2>1. Len(s) > 1 /\ h.type = "audio"
      BY <1>1 DEF EndsOnce
    <2>2. t[Len(t)] = s[Len(s)] /\ Len(t) >= 1
      BY <1>1, <2>1
    <2>3. \A i \in 1..(Len(t) - 1) : t[i].type = "audio"
      BY <1>1 DEF EndsOnce
    <2> QED BY <2>1, <2>2, <2>3 DEF EndsOnce
  <1>5. HasEnd(s) /\ h.type = "audio" => HasEnd(t)
    <2> SUFFICES ASSUME HasEnd(s), h.type = "audio" PROVE HasEnd(t)
      OBVIOUS
    <2>1. PICK i \in 1..Len(s) : s[i].type # "audio"
      BY DEF HasEnd
    <2>2. i # 1 /\ i - 1 \in 1..Len(t) /\ t[i - 1] = s[i]
      BY <1>1, <2>1
    <2> QED BY <2>1, <2>2 DEF HasEnd
  <1> QED BY <1>1, <1>2, <1>3, <1>4, <1>5 DEF t, h

\* An event that is queued stays queued, and so does an end before it.
LEMMA QueueOne ==
  ASSUME NEW q \in Seq(EventType), NEW e \in EventType
  PROVE  /\ Append(q, e) \in Seq(EventType)
         /\ HasEnd(q) \/ e.type # "audio" => HasEnd(Append(q, e))
  <1> DEFINE t == Append(q, e)
  <1>1. /\ t \in Seq(EventType) /\ Len(t) = Len(q) + 1 /\ Len(q) \in Nat
        /\ \A i \in 1..Len(q) : t[i] = q[i]
        /\ t[Len(q) + 1] = e
    BY AppendProperties, LenProperties
  <1> HIDE DEF t
  <1>2. HasEnd(q) => HasEnd(t)
    BY <1>1 DEF HasEnd
  <1>3. e.type # "audio" => HasEnd(t)
    <2>1. Len(q) + 1 \in 1..Len(t)
      BY <1>1
    <2> QED BY <1>1, <2>1 DEF HasEnd
  <1> QED BY <1>1, <1>2, <1>3 DEF t
\* dispatch_event with an event.
LEMMA PostKeeps ==
  ASSUME AdapterInv, NEW t \in Threads, NEW e \in EventType, Post(t, e),
         UNCHANGED <<chain, calls, terminal, delivered, lost>>, ended' \in BOOLEAN,
         ended' => ended \/ e.type # "audio"
  PROVE  AdapterInv'
  <1>1. /\ queue' = Append(queue, e) /\ posted' = Append(posted, e)
        /\ running' = IF running = "none" THEN t ELSE running
    BY DEF Post
  <1>2. AdapterTypes'
    BY <1>1, QueueOne DEF AdapterInv, AdapterTypes
  <1>3. Said'
    BY DEF AdapterInv, Said
  <1>4. ended' /\ ~terminal' => HasEnd(queue')
    <2>1. queue \in Seq(EventType) /\ (ended /\ ~terminal => HasEnd(queue))
      BY DEF AdapterInv, AdapterTypes, Owed
    <2> QED BY <1>1, <2>1, QueueOne
  <1>5. running' # "none"
    BY <1>1 DEF Threads
  <1> QED BY <1>2, <1>3, <1>4, <1>5 DEF AdapterInv, Owed

LEMMA OnAudioKeeps ==
  ASSUME AdapterInv, NEW samples \in Chunks, NEW same \in BOOLEAN, OnAudio(samples, same)
  PROVE  AdapterInv'
  <1> DEFINE e == Audio(Chunk(SampleCount, samples, same))
  <1>1. SampleCount \in Int
    <2>1. posted \in Seq(EventType) /\ 0 \in Int
      BY DEF AdapterInv, AdapterTypes
    <2> QED BY <2>1, SampleCountType DEF SampleCount
  <1>2. samples \in Seq(Int)
    BY AudioAssumption
  <1>3. e \in EventType /\ e.type = "audio"
    BY <1>1, <1>2 DEF Audio, Chunk, EventType, ChunkType
  <1> HIDE DEF e
  <1>4. Post("dispatcher", e) /\ UNCHANGED <<chain, calls, terminal, delivered, lost, ended>>
    BY DEF OnAudio, e
  <1>5. ended \in BOOLEAN /\ "dispatcher" \in Threads
    BY DEF AdapterInv, AdapterTypes, Threads
  <1> QED BY <1>3, <1>4, <1>5, PostKeeps

LEMMA OnEndKeeps ==
  ASSUME AdapterInv, NEW t \in Threads, NEW reason \in Reasons, OnEnd(t, reason)
  PROVE  AdapterInv'
  <1>1. End(reason) \in EventType /\ End(reason).type # "audio"
    BY EndTypes
  <1>2. Post(t, End(reason)) /\ UNCHANGED <<chain, calls, terminal, delivered, lost>> /\ ended' = TRUE
    BY DEF OnEnd
  <1> QED BY <1>1, <1>2, PostKeeps

\* The callbacks that chunks become.
LEMMA EmitType ==
  ASSUME NEW chunks \in Seq(ChunkType)
  PROVE  LET emit == [i \in DOMAIN chunks |-> Audio(chunks[i])]
         IN  emit \in Seq(EventType) /\ AllAudio(emit)
  <1> DEFINE emit == [i \in DOMAIN chunks |-> Audio(chunks[i])]
  <1>1. Len(chunks) \in Nat /\ DOMAIN chunks = 1..Len(chunks)
        /\ \A i \in 1..Len(chunks) : chunks[i] \in ChunkType
    BY LenProperties, ElementOfSeq
  <1>2. ASSUME NEW i \in 1..Len(chunks)
        PROVE  Audio(chunks[i]) \in EventType /\ Audio(chunks[i]).type = "audio"
    BY <1>1 DEF Audio, EventType
  <1>3. emit \in [1..Len(chunks) -> EventType] /\ \A i \in 1..Len(chunks) : emit[i].type = "audio"
    BY <1>1, <1>2
  <1> HIDE DEF emit
  <1>4. emit \in Seq(EventType)
    BY <1>1, <1>3, IsASeq
  <1>5. Len(emit) = Len(chunks)
    <2>1. DOMAIN emit = 1..Len(chunks) /\ Len(emit) \in Nat /\ DOMAIN emit = 1..Len(emit)
      BY <1>3, <1>4, LenProperties
    <2> QED BY <1>1, <2>1
  <1>6. AllAudio(emit)
    BY <1>3, <1>5 DEF AllAudio
  <1> QED BY <1>4, <1>6 DEF emit

LEMMA TakeKeeps ==
  ASSUME AdapterInv, Take
  PROVE  AdapterInv'
  <1> DEFINE e == Head(queue)
             r == IF e.type = "audio" THEN ChainProcess(chain, e.chunk) ELSE ChainFinish(chain,
                 e.type)
             emit == [i \in DOMAIN r.chunks |-> Audio(r.chunks[i])]
             fail == <<End("client_error")>>
             all == Append(emit, End(e.type))
  <1>1. /\ running # "none" /\ calls = <<>> /\ queue # <<>> /\ queue' = Tail(queue)
        /\ UNCHANGED <<running, ended, posted, delivered, lost>>
    BY DEF Take
  <1>2. queue \in Seq(EventType) /\ chain \in ChainType
    BY DEF AdapterInv, AdapterTypes
  <1>3. /\ e \in EventType /\ queue' \in Seq(EventType)
        /\ HasEnd(queue) /\ e.type = "audio" => HasEnd(queue')
    BY <1>1, <1>2, SaidOne
  <1> HIDE DEF e
  <1>4. e.chunk \in ChunkType /\ End(e.type) \in EventType /\ End(e.type).type = e.type
    BY <1>3, EventTypes
  <1>5. r \in Results(ChainType)
    BY <1>2, <1>4, ChainProcessType, ChainFinishType
  <1>6. CASE terminal
    <2>1. UNCHANGED <<chain, calls, terminal>>
      BY <1>6, Zenon DEF Take
    <2> QED BY <1>1, <1>2, <1>3, <1>6, <2>1 DEF AdapterInv, AdapterTypes, Said, Owed
  <1>7. CASE ~terminal
    <2>1. /\ chain' = r.p
          /\ terminal' = (e.type # "audio" \/ ~r.ok)
          /\ calls' = IF ~r.ok THEN fail ELSE IF e.type = "audio" THEN emit ELSE all
      BY <1>7, Zenon DEF Take, e
    <2> HIDE DEF r
    <2>2. r.ok \in BOOLEAN /\ r.p \in ChainType /\ r.chunks \in Seq(ChunkType)
      BY <1>5 DEF Results
    <2>3. emit \in Seq(EventType) /\ AllAudio(emit)
      BY <2>2, EmitType
    <2> HIDE DEF emit
    <2>4. all \in Seq(EventType) /\ (e.type # "audio" => EndsOnce(all))
      BY <1>4, <2>3, SayOne
    <2>5. fail \in Seq(EventType) /\ EndsOnce(fail)
      <3>1. End("client_error") \in EventType /\ End("client_error").type # "audio"
        BY EndTypes
      <3> DEFINE c == End("client_error")
      <3> HIDE DEF c
      <3>2. c \in EventType /\ c.type # "audio"
        BY <3>1 DEF c
      <3>3. <<c>> \in Seq(EventType) /\ EndsOnce(<<c>>)
        BY <3>2 DEF EndsOnce
      <3> QED BY <3>3 DEF c
    <2> HIDE DEF all, fail
    <2>6. AllAudio(delivered)
      BY <1>7 DEF AdapterInv, Said
    <2>7. AdapterTypes'
      <3>1. calls' \in Seq(EventType)
        BY <2>1, <2>3, <2>4, <2>5
      <3>2. terminal' \in BOOLEAN
        BY <2>1
      <3> QED BY <1>1, <1>3, <2>1, <2>2, <3>1, <3>2 DEF AdapterInv, AdapterTypes
    <2>8. Said'
      <3>1. terminal' => EndsOnce(calls')
        BY <2>1, <2>2, <2>4, <2>5
      <3>2. ~terminal' => AllAudio(calls')
        BY <2>1, <2>2, <2>3
      <3> QED BY <1>1, <2>6, <3>1, <3>2 DEF Said
    <2>9. Owed'
      <3>1. ended /\ ~terminal' => HasEnd(queue')
        <4>1. ended => HasEnd(queue)
          BY <1>7 DEF AdapterInv, Owed
        <4> QED BY <1>3, <2>1, <4>1
      <3> QED BY <1>1, <3>1 DEF Owed
    <2> QED BY <2>7, <2>8, <2>9 DEF AdapterInv
  <1> QED BY <1>6, <1>7

LEMMA CallKeeps ==
  ASSUME AdapterInv, Call
  PROVE  AdapterInv'
  <1> DEFINE e == Head(calls)
             s == End("error")
  <1>1. calls # <<>> /\ delivered' = Append(delivered, e) /\ UNCHANGED <<chain, running, terminal>>
    BY DEF Call
  <1>2. /\ calls \in Seq(EventType) /\ delivered \in Seq(EventType) /\ queue \in Seq(EventType)
        /\ posted \in Seq(EventType) /\ terminal \in BOOLEAN /\ ended \in BOOLEAN /\ lost \in BOOLEAN
    BY DEF AdapterInv, AdapterTypes
  <1>3. /\ e \in EventType /\ Tail(calls) \in Seq(EventType) /\ Len(calls) \in Nat
        /\ AllAudio(calls) => e.type = "audio" /\ AllAudio(Tail(calls))
        /\ EndsOnce(calls) /\ Len(calls) = 1 => e.type # "audio" /\ Tail(calls) = <<>>
        /\ EndsOnce(calls) /\ Len(calls) # 1 =>
             e.type = "audio" /\ EndsOnce(Tail(calls)) /\ Len(calls) > 1
    BY <1>1, <1>2, SaidOne
  <1> HIDE DEF e
  <1>4. s \in EventType /\ s.type # "audio"
    BY EndTypes DEF Reasons
  <1>5. AllAudio(delivered) /\ (~terminal => AllAudio(calls)) /\ (terminal => EndsOnce(calls))
    BY <1>1 DEF AdapterInv, Said
  <1>6. /\ delivered' \in Seq(EventType)
        /\ e.type = "audio" => AllAudio(delivered')
        /\ e.type # "audio" => EndsOnce(delivered')
    BY <1>1, <1>2, <1>3, <1>5, SayOne
  <1>7. running # "none"
    BY <1>1 DEF AdapterInv, Owed
  <1> HIDE DEF s
  <1>8. CASE calls' = Tail(calls) /\ UNCHANGED <<queue, posted, ended, lost>>
    <2>1. AdapterTypes'
      BY <1>1, <1>3, <1>6, <1>8 DEF AdapterInv, AdapterTypes
    <2>2. Said'
      BY <1>1, <1>2, <1>3, <1>5, <1>6, <1>8 DEF Said
    <2> QED BY <1>1, <1>7, <1>8, <2>1, <2>2 DEF AdapterInv, Owed
  <1>9. CASE /\ ended' = TRUE /\ calls' = Tail(calls)
             /\ queue' = Append(queue, s) /\ posted' = Append(posted, s) /\ UNCHANGED lost
    <2>1. queue' \in Seq(EventType) /\ posted' \in Seq(EventType) /\ HasEnd(queue')
      BY <1>2, <1>4, <1>9, QueueOne
    <2>2. AdapterTypes'
      BY <1>1, <1>3, <1>6, <1>9, <2>1 DEF AdapterInv, AdapterTypes
    <2>3. Said'
      BY <1>1, <1>2, <1>3, <1>5, <1>6, <1>9 DEF Said
    <2> QED BY <1>1, <1>7, <2>1, <2>2, <2>3 DEF AdapterInv, Owed
  <1>10. CASE /\ calls' = <<>> /\ lost' = (lost \/ (terminal /\ Len(calls) > 1))
              /\ UNCHANGED <<queue, posted, ended>>
    <2>1. AdapterTypes'
      <3>1. lost' \in BOOLEAN
        BY <1>10
      <3> QED BY <1>1, <1>6, <1>10, <3>1, NoEvents DEF AdapterInv, AdapterTypes
    <2>2. Said'
      <3>1. ~terminal => AllAudio(delivered') /\ AllAudio(calls')
        BY <1>3, <1>5, <1>6, <1>10, NoEvents
      <3>2. ASSUME terminal PROVE EndsOnce(delivered') \/ (AllAudio(delivered') /\ lost')
        <4>1. CASE Len(calls) = 1
          BY <1>3, <1>5, <1>6, <3>2, <4>1
        <4>2. CASE Len(calls) # 1
          <5>1. Len(calls) > 1 /\ AllAudio(delivered')
            BY <1>3, <1>5, <1>6, <3>2, <4>2
          <5>2. lost'
            BY <1>10, <3>2, <5>1
          <5> QED BY <5>1, <5>2
        <4> QED BY <4>1, <4>2
      <3> QED BY <1>1, <1>10, <3>1, <3>2 DEF Said
    <2> QED BY <1>1, <1>7, <1>10, <2>1, <2>2 DEF AdapterInv, Owed
  <1> QED BY <1>8, <1>9, <1>10 DEF Call, s

\* The adapter's invariant: types, where the end is, and that an end the client delivered
\* is in the queue until it is taken.
THEOREM AdapterInvariant == AdapterSpec => []AdapterInv
  <1>1. AdapterInit => AdapterInv
    <2> SUFFICES ASSUME AdapterInit PROVE AdapterInv
      OBVIOUS
    <2>1. PICK os \in Chains :
            chain = [processors |-> [i \in DOMAIN os |-> NewProcessor(os[i])], finished |-> FALSE]
      BY DEF AdapterInit
    <2>2. Len(os) \in Nat /\ DOMAIN os = 1..Len(os) /\ \A i \in 1..Len(os) : os[i] \in Options
      <3>1. os \in Seq(Options)
        BY AudioAssumption
      <3> QED BY <3>1, LenProperties, ElementOfSeq
    <2>3. ASSUME NEW i \in 1..Len(os) PROVE NewProcessor(os[i]) \in Processor
      <3>1. <<>> \in Seq(Int)
        OBVIOUS
      <3> QED BY <2>2, <3>1 DEF NewProcessor, Processor
    <2> DEFINE ps == [i \in DOMAIN os |-> NewProcessor(os[i])]
    <2>4. ps \in [1..Len(os) -> Processor]
      BY <2>2, <2>3
    <2> HIDE DEF ps
    <2>5. ps \in Seq(Processor)
      BY <2>2, <2>4, IsASeq
    <2>6. chain \in ChainType
      BY <2>1, <2>5 DEF ChainType, ps
    <2> QED BY <2>6, NoEvents DEF AdapterInit, AdapterInv, AdapterTypes, Said, Owed
  <1>2. AdapterInv /\ [AdapterNext]_adapterVars => AdapterInv'
    <2> SUFFICES ASSUME AdapterInv, [AdapterNext]_adapterVars PROVE AdapterInv'
      OBVIOUS
    <2>1. CASE UNCHANGED adapterVars
      BY <2>1 DEF adapterVars, AdapterInv, AdapterTypes, Said, Owed
    <2>2. ASSUME LeaveDispatch PROVE AdapterInv'
      BY <2>2 DEF LeaveDispatch, AdapterInv, AdapterTypes, Said, Owed
    <2>3. CASE AdapterNext
      BY <2>2, <2>3, OnAudioKeeps, OnEndKeeps, TakeKeeps, CallKeeps DEF AdapterNext
    <2> QED BY <2>1, <2>3
  <1> QED BY <1>1, <1>2, PTL DEF AdapterSpec

\* Whatever the chain of processors, the worker's chunks and the threads the callbacks come
\* from, the application hears at most one end and nothing after it, and once the adapter
\* is idle after the client's terminal callback it has heard it, unless it threw out of
\* that event (dispatch_event and with_audio_post_processing, post_processor.cpp:43-79, 199-325).
THEOREM ApplicationHearsOneEnd == AdapterSpec => []OneEnd
  <1>1. AdapterInv => OneEnd
    <2> SUFFICES ASSUME AdapterInv PROVE OneEnd
      OBVIOUS
    <2>1. Len(delivered) \in Nat /\ DOMAIN delivered = 1..Len(delivered)
      BY LenProperties DEF AdapterInv, AdapterTypes
    <2>2. AllAudio(delivered) \/ EndsOnce(delivered)
      BY DEF AdapterInv, AdapterTypes, Said
    <2>3. \A i \in DOMAIN delivered : delivered[i].type # "audio" => i = Len(delivered)
      BY <2>1, <2>2 DEF AllAudio, EndsOnce
    <2>4. ASSUME running = "none", ended, ~lost
          PROVE  delivered # <<>> /\ delivered[Len(delivered)].type # "audio"
      <3>1. queue = <<>> /\ calls = <<>>
        BY <2>4 DEF AdapterInv, Owed
      <3>2. ~HasEnd(<<>>) /\ ~EndsOnce(<<>>)
        BY DEF HasEnd, EndsOnce
      <3>3. terminal
        BY <2>4, <3>1, <3>2 DEF AdapterInv, AdapterTypes, Owed
      <3>4. EndsOnce(delivered)
        BY <2>4, <3>1, <3>2, <3>3 DEF AdapterInv, Said
      <3> QED BY <3>2, <3>4 DEF EndsOnce
    <2> QED BY <2>3, <2>4 DEF OneEnd
  <1> QED BY <1>1, AdapterInvariant, PTL

-----------------------------------------------------------------------------
(* The session                                                             *)

\* The first event ever reported is the worker's ready.
ReadyFirst(rep) ==
  /\ Len(rep) >= 1 /\ rep[1].type = "control" /\ rep[1].value.type = "ready"

(***************************************************************************)
(* The strengthening.  The transport runs only after Launch, and only      *)
(* while the owner is on its way up or has not finished stop(); a session  *)
(* that is still starting has reported nothing, because whatever it        *)
(* reports also takes it out of that state; and it is ready only because   *)
(* the ready event went into the queue first.                              *)
(***************************************************************************)
Running ==
  /\ pc \in {"new", "launch"} => transport = "off"
  /\ pc = "stopped" => transport # "running"
  /\ result = "false" => pc = "returned" /\ transport # "running"

Reporting ==
  /\ reported \in Seq(Range(reported))
  /\ pc \in {"new", "launch"} \/ state = "starting" => reported = <<>>
  /\ pc = "new" => state = "stopped"
  /\ pc = "launch" => state = "starting"
  /\ state = "ready" \/ result = "true" => ReadyFirst(reported)

Quiet == pc \in {"new", "launch"} => callback = "idle"

SessionInv == Running /\ Reporting /\ Quiet

-----------------------------------------------------------------------------
\* A history stays a sequence when an event is appended, and its first event stays.
LEMMA Appended ==
  ASSUME NEW rep, rep \in Seq(Range(rep)), NEW e
  PROVE  /\ Append(rep, e) \in Seq(Range(Append(rep, e)))
         /\ rep = <<>> => Append(rep, e)[1] = e /\ Len(Append(rep, e)) = 1
         /\ ReadyFirst(rep) => ReadyFirst(Append(rep, e))
  <1> DEFINE S == Range(rep) \cup {e}
             t == Append(rep, e)
  <1>1. rep \in Seq(S)
    BY SeqMonotonic
  <1>2. e \in S
    OBVIOUS
  <1> HIDE DEF S
  <1>3. /\ t \in Seq(S) /\ Len(t) = Len(rep) + 1 /\ Len(rep) \in Nat
        /\ \A i \in 1..Len(rep) : t[i] = rep[i]
        /\ t[Len(rep) + 1] = e
    BY <1>1, <1>2, AppendProperties, LenProperties
  <1> HIDE DEF t
  <1>4. DOMAIN t = 1..Len(t) /\ Len(t) \in Nat /\ t \in [1..Len(t) -> S]
    BY <1>3, LenProperties
  <1>5. t \in [1..Len(t) -> Range(t)]
    BY <1>4 DEF Range
  <1>6. t \in Seq(Range(t))
    BY <1>4, <1>5, IsASeq
  <1>7. rep = <<>> => t[1] = e /\ Len(t) = 1
    BY <1>3
  <1>8. ReadyFirst(rep) => ReadyFirst(t)
    <2> SUFFICES ASSUME ReadyFirst(rep) PROVE ReadyFirst(t)
      OBVIOUS
    <2>1. Len(t) >= 1 /\ t[1] = rep[1]
      BY <1>3 DEF ReadyFirst
    <2> QED BY <2>1 DEF ReadyFirst
  <1> QED BY <1>6, <1>7, <1>8 DEF t

\* What enqueue_event_locked does to the state and the history: the event goes in and the
\* session gets the state that comes with it; or the queue is full and the session has
\* failed; or nothing changes.
LEMMA EnqueueEffect ==
  ASSUME NEW e, NEW exempt, NEW after, Enqueue(e, exempt, after)
  PROVE  \/ reported' = Append(reported, e) /\ state' = after
         \/ reported' = Append(reported, Local("overflow")) /\ state' = Failed
         \/ reported' = reported /\ state' = state
  BY DEF Enqueue
-----------------------------------------------------------------------------
(* Reporting an event                                                      *)

\* A session that fails is neither starting nor ready.
LEMMA FailedEnds == Failed # "starting" /\ Failed # "ready"
  BY DEF Failed

\* An event reported after Launch keeps the history in order if the state that comes with
\* it is not "starting", and is "ready" only for a session that is so already or with the
\* worker's ready as its first event.
LEMMA ReportKeeps ==
  ASSUME Reporting, NEW e, NEW exempt, NEW after, Enqueue(e, exempt, after),
         pc \notin {"new", "launch"}, pc' \notin {"new", "launch"},
         result' = "true" => result = "true",
         after # "starting",
         after = "ready" => \/ state = "ready"
                            \/ reported = <<>> /\ e.type = "control" /\ e.value.type = "ready"
  PROVE  Reporting'
  <1>1. reported \in Seq(Range(reported))
    BY DEF Reporting
  <1>2. CASE reported' = Append(reported, e) /\ state' = after
    <2>1. reported' \in Seq(Range(reported'))
      BY <1>1, <1>2, Appended
    <2>2. state' = "ready" \/ result' = "true" => ReadyFirst(reported')
      <3>1. state = "ready" \/ result = "true" => ReadyFirst(reported')
        BY <1>1, <1>2, Appended DEF Reporting
      <3>2. ASSUME reported = <<>>, e.type = "control", e.value.type = "ready"
            PROVE  ReadyFirst(reported')
        <4>1. reported'[1] = e /\ Len(reported') = 1
          BY <1>1, <1>2, <3>2, Appended
        <4> QED BY <3>2, <4>1 DEF ReadyFirst
      <3> QED BY <1>2, <3>1, <3>2
    <2> QED BY <1>2, <2>1, <2>2 DEF Reporting, ReadyFirst
  <1>3. CASE reported' = Append(reported, Local("overflow")) /\ state' = Failed
    <2>1. reported' \in Seq(Range(reported'))
      BY <1>1, <1>3, Appended
    <2>2. state = "ready" \/ result = "true" => ReadyFirst(reported')
      BY <1>1, <1>3, Appended DEF Reporting
    <2> QED BY <1>3, <2>1, <2>2, FailedEnds DEF Reporting, ReadyFirst
  <1>4. CASE reported' = reported /\ state' = state
    BY <1>4 DEF Reporting, ReadyFirst
  <1> QED BY <1>2, <1>3, <1>4, EnqueueEffect

\* A frame of the worker.
LEMMA HandleFrameKeeps ==
  ASSUME Reporting, NEW f, HandleFrame(f), pc \notin {"new", "launch"},
         pc' = pc, result' = result
  PROVE  Reporting'
  <1> DEFINE control == decode_message(JsonOf(f), WorkerToClient)
             error == decode_error(JsonOf(f))
             bad == Enqueue(Local("protocol"), TRUE, Failed)
             next == IF control[2].type = "ready" THEN "ready" ELSE state
             after == IF state = "starting" THEN "failed" ELSE state
  <1>1. \/ bad
        \/ /\ Allowed(f.id, control[2].type)
           /\ Enqueue(Event("control", control[2]), FALSE, next)
        \/ state = "ready" /\ Enqueue(Event("audio", Len(f.payload)), FALSE, state)
        \/ Enqueue(Event("error", error[2]), FALSE, after)
    BY DEF HandleFrame
  <1>2. ASSUME bad PROVE Reporting'
    BY <1>2, FailedEnds, ReportKeeps
  <1>3. ASSUME Allowed(f.id, control[2].type), Enqueue(Event("control",
      control[2]), FALSE, next)
        PROVE  Reporting'
    <2> DEFINE e == Event("control", control[2])
    <2>1. e.type = "control" /\ e.value = control[2]
      BY DEF Event
    <2> HIDE DEF e, control
    <2>2. CASE control[2].type = "ready"
      <3>1. state = "starting" /\ reported = <<>>
        BY <1>3, <2>2 DEF Allowed, Reporting
      <3>2. next = "ready"
        BY <2>2
      <3> QED BY <1>3, <2>1, <2>2, <3>1, <3>2, ReportKeeps DEF e
    <2>3. CASE control[2].type # "ready"
      <3>1. state = "ready" /\ next = "ready"
        BY <1>3, <2>3 DEF Allowed
      <3> QED BY <1>3, <3>1, ReportKeeps DEF e
    <2> QED BY <2>2, <2>3
  <1>4. ASSUME state = "ready", Enqueue(Event("audio", Len(f.payload)), FALSE,
      state)
        PROVE  Reporting'
    BY <1>4, ReportKeeps
  <1>5. ASSUME Enqueue(Event("error", error[2]), FALSE, after) PROVE Reporting'
    <2>1. after # "starting" /\ (after = "ready" => state = "ready")
      OBVIOUS
    <2> QED BY <1>5, <2>1, ReportKeeps
  <1> QED BY <1>1, <1>2, <1>3, <1>4, <1>5

\* A frame the owner sends, or fails to send.
LEMMA SendKeeps ==
  ASSUME Reporting, NEW m, NEW next, NEW failed, Send(m, next, failed),
         pc \notin {"new", "launch"}, {next, failed} \cap {"new", "launch"} = {},
         result' = "true" => result = "true"
  PROVE  /\ Reporting' /\ pc' \in {next, failed}
         /\ UNCHANGED <<transport, callback>>
  <1>1. pc' \in {next, failed} /\ pc' \notin {"new", "launch"}
    BY DEF Send
  <1>2. UNCHANGED <<transport, callback>>
    BY DEF Send
  <1> DEFINE after == IF state = "starting" THEN "failed" ELSE state
  <1>3. \/ Enqueue(Local("session"), TRUE, after)
        \/ Enqueue(Local("transport"), TRUE, Failed)
        \/ UNCHANGED <<state, reported>>
    BY DEF Send
  <1>4. ASSUME Enqueue(Local("session"), TRUE, after) PROVE Reporting'
    <2>1. after # "starting" /\ (after = "ready" => state = "ready")
      OBVIOUS
    <2> QED BY <1>1, <1>4, <2>1, ReportKeeps
  <1>5. ASSUME Enqueue(Local("transport"), TRUE, Failed) PROVE Reporting'
    BY <1>1, <1>5, FailedEnds, ReportKeeps
  <1>6. ASSUME UNCHANGED <<state, reported>> PROVE Reporting'
    BY <1>1, <1>6 DEF Reporting, ReadyFirst
  <1> QED BY <1>1, <1>2, <1>3, <1>4, <1>5, <1>6
-----------------------------------------------------------------------------
(* The steps                                                               *)

\* What neither the owner's position, the state, the transport nor the history notices.
LEMMA QuietSteps ==
  ASSUME SessionInv, UNCHANGED <<pc, result, state, transport, reported>>,
         callback' = callback \/ (transport # "off" /\ callback = "idle")
  PROVE  SessionInv'
  BY DEF SessionInv, Running, Reporting, Quiet, ReadyFirst

LEMMA CallbackKeeps ==
  ASSUME SessionInv
  PROVE  /\ \A k : HandleBytes(k) => SessionInv'
         /\ ParseOne => SessionInv'
         /\ CallbackStop => SessionInv'
         /\ HandleExit => SessionInv'
  <1>1. ASSUME NEW k, HandleBytes(k) PROVE SessionInv'
    <2>1. UNCHANGED <<pc, result, state, transport, reported>> /\ callback = "idle"
          /\ transport # "off"
      BY <1>1 DEF HandleBytes, ownerVars, histVars
    <2> QED BY <2>1, QuietSteps
  <1>2. ASSUME ParseOne PROVE SessionInv'
    <2>1. UNCHANGED <<pc, result, transport>> /\ pc \notin {"new", "launch"}
      BY <1>2 DEF ParseOne, ownerVars, wireVars, SessionInv, Quiet
    <2> DEFINE r == parse_next(parser)
    <2>2. \/ UNCHANGED <<state, reported>>
          \/ Enqueue(Local("broken"), TRUE, Failed)
          \/ HandleFrame(r.frame)
      BY <1>2 DEF ParseOne
    <2> HIDE DEF r
    <2>3. Reporting'
      <3>1. ASSUME UNCHANGED <<state, reported>> PROVE Reporting'
        BY <2>1, <3>1 DEF SessionInv, Reporting, ReadyFirst
      <3>2. ASSUME Enqueue(Local("broken"), TRUE, Failed) PROVE Reporting'
        BY <2>1, <3>2, FailedEnds, ReportKeeps DEF SessionInv
      <3>3. ASSUME HandleFrame(r.frame) PROVE Reporting'
        BY <2>1, <3>3, HandleFrameKeeps DEF SessionInv
      <3> QED BY <2>2, <3>1, <3>2, <3>3
    <2> QED BY <2>1, <2>3 DEF SessionInv, Running, Quiet
  <1>3. ASSUME CallbackStop PROVE SessionInv'
    BY <1>3 DEF CallbackStop, ownerVars, histVars, SessionInv, Running,
                Reporting, Quiet, ReadyFirst
  <1>4. ASSUME HandleExit PROVE SessionInv'
    <2>1. /\ UNCHANGED <<pc, result, callback>> /\ pc \notin {"new", "launch"}
          /\ transport' = "exited" /\ Enqueue(Local("exit"), TRUE, "exited")
      BY <1>4 DEF HandleExit, ownerVars, SessionInv, Running
    <2>2. Reporting'
      BY <2>1, ReportKeeps DEF SessionInv
    <2> QED BY <2>1, <2>2 DEF SessionInv, Running, Quiet
  <1> QED BY <1>1, <1>2, <1>3, <1>4

LEMMA StartKeeps ==
  ASSUME SessionInv
  PROVE  /\ Start => SessionInv'
         /\ Launch => SessionInv'
         /\ CheckLaunched => SessionInv'
         /\ SendHello => SessionInv'
         /\ WaitReady => SessionInv'
  <1>1. ASSUME Start PROVE SessionInv'
    BY <1>1 DEF Start, wireVars, histVars, SessionInv, Running,
                Reporting, Quiet, ReadyFirst
  <1>2. ASSUME Launch PROVE SessionInv'
    BY <1>2 DEF Launch, histVars, SessionInv, Running, Reporting, Quiet, ReadyFirst
  <1>3. ASSUME CheckLaunched PROVE SessionInv'
    BY <1>3 DEF CheckLaunched, sessionVars, wireVars, histVars,
                SessionInv, Running, Reporting,
                Quiet, ReadyFirst
  <1>4. ASSUME SendHello PROVE SessionInv'
    <2>1. /\ pc = "hello" /\ Send(Hello, "wait", "stop")
          /\ result' = IF pc' = "stop" THEN "failing" ELSE result
      BY <1>4 DEF SendHello
    <2>2. /\ Reporting' /\ pc' \in {"wait", "stop"} /\ UNCHANGED <<transport, callback>>
      BY <2>1, SendKeeps DEF SessionInv
    <2> QED BY <2>1, <2>2 DEF SessionInv, Running, Quiet
  <1>5. ASSUME WaitReady PROVE SessionInv'
    BY <1>5 DEF WaitReady, sessionVars, wireVars, histVars,
                SessionInv, Running, Reporting,
                Quiet, ReadyFirst
  <1> QED BY <1>1, <1>2, <1>3, <1>4, <1>5

LEMMA OwnerKeeps ==
  ASSUME SessionInv
  PROVE  /\ \A m : OwnerSend(m) => SessionInv'
         /\ OwnerStop => SessionInv'
         /\ StopBegin => SessionInv'
         /\ StopCheck => SessionInv'
         /\ StopSend => SessionInv'
         /\ StopTransport => SessionInv'
         /\ StopJoin => SessionInv'
         /\ StopEnd => SessionInv'
  <1> USE DEF SessionInv, Running, Quiet
  <1>1. ASSUME NEW m, OwnerSend(m) PROVE SessionInv'
    <2>1. pc = "up" /\ Send(m, "up", "up") /\ result' = result
      BY <1>1 DEF OwnerSend
    <2>2. Reporting' /\ pc' = "up" /\ UNCHANGED <<transport, callback>>
      BY <2>1, SendKeeps
    <2> QED BY <2>1, <2>2
  <1>2. ASSUME OwnerStop PROVE SessionInv'
    BY <1>2 DEF OwnerStop, sessionVars, wireVars, histVars,
                Reporting, ReadyFirst
  <1>3. ASSUME StopBegin PROVE SessionInv'
    BY <1>3 DEF StopBegin, wireVars, histVars, Reporting, ReadyFirst
  <1>4. ASSUME StopCheck PROVE SessionInv'
    BY <1>4 DEF StopCheck, sessionVars, wireVars, histVars,
                Reporting, ReadyFirst
  <1>5. ASSUME StopSend PROVE SessionInv'
    <2> DEFINE m == Message("shutdown", [mode |-> "cancel"])
    <2>1. pc = "farewell" /\ Send(m, "close", "close") /\ result' = result
      BY <1>5 DEF StopSend
    <2> HIDE DEF m
    <2>2. Reporting' /\ pc' = "close" /\ UNCHANGED <<transport, callback>>
      BY <2>1, SendKeeps
    <2> QED BY <2>1, <2>2
  <1>6. ASSUME StopTransport PROVE SessionInv'
    BY <1>6 DEF StopTransport, sessionVars, histVars, Reporting, ReadyFirst
  <1>7. ASSUME StopJoin PROVE SessionInv'
    BY <1>7 DEF StopJoin, sessionVars, wireVars, histVars,
                Reporting, ReadyFirst
  <1>8. ASSUME StopEnd PROVE SessionInv'
    BY <1>8 DEF StopEnd, wireVars, histVars, Reporting, ReadyFirst
  <1> QED BY <1>1, <1>2, <1>3, <1>4, <1>5, <1>6, <1>7, <1>8

\* The thread that takes events, and the worker.
LEMMA OthersKeep ==
  ASSUME SessionInv
  PROVE  /\ TakeEvent => SessionInv'
         /\ \A k : WorkerRead(k) => SessionInv'
         /\ WorkerFrame => SessionInv'
         /\ \A m : WorkerWrite(m) => SessionInv'
         /\ \A id, n : WorkerAudio(id, n) => SessionInv'
         /\ \A s : WorkerStray(s) => SessionInv'
  <1> DEFINE Same == UNCHANGED <<pc, result, state, transport, reported, callback>>
  <1>1. Same => SessionInv'
    BY QuietSteps
  <1>2. ASSUME NEW data, NEW what, Writes(data, what) PROVE Same
    BY <1>2 DEF Writes, sessionVars, ownerVars
  <1>3. TakeEvent => Same
    BY DEF TakeEvent, ownerVars, wireVars, histVars
  <1>4. ASSUME NEW k, WorkerRead(k) PROVE Same
    BY <1>4 DEF WorkerRead, sessionVars, ownerVars, histVars
  <1>5. WorkerFrame => Same
    BY DEF WorkerFrame, sessionVars, ownerVars, wireVars
  <1>6. ASSUME NEW m, WorkerWrite(m) PROVE Same
    BY <1>2, <1>6 DEF WorkerWrite
  <1>7. ASSUME NEW id, NEW n, WorkerAudio(id, n) PROVE Same
    BY <1>2, <1>7 DEF WorkerAudio
  <1>8. ASSUME NEW s, WorkerStray(s) PROVE Same
    BY <1>2, <1>8 DEF WorkerStray
  <1> HIDE DEF Same
  <1> QED BY <1>1, <1>3, <1>4, <1>5, <1>6, <1>7, <1>8

-----------------------------------------------------------------------------
\* The session's invariant: the transport runs only between Launch and stop(), a session
\* that is starting has reported nothing, and one that is or was ready has reported the
\* worker's ready before anything else.
THEOREM SessionInvariant == Spec => []SessionInv
  <1>1. Init => SessionInv
    <2> SUFFICES ASSUME Init PROVE SessionInv
      OBVIOUS
    <2>1. <<>> \in Seq(Range(<<>>))
      OBVIOUS
    <2> QED BY <2>1 DEF Init, SessionInv, Running, Reporting, Quiet
  <1>2. SessionInv /\ [Next]_vars => SessionInv'
    <2> SUFFICES ASSUME SessionInv, [Next]_vars PROVE SessionInv'
      OBVIOUS
    <2>1. CASE UNCHANGED vars
      BY <2>1, QuietSteps DEF vars, sessionVars, ownerVars,
                              wireVars, histVars
    <2>2. CASE Next
      BY <2>2, CallbackKeeps, StartKeeps, OwnerKeeps, OthersKeep DEF Next
    <2> QED BY <2>1, <2>2
  <1> QED BY <1>1, <1>2, PTL DEF Spec

\* start() that failed leaves no transport running, and start() that succeeded has put the
\* worker's ready event first into the queue, whatever the worker writes and however the
\* failures and the callbacks interleave with the handshake (worker_session.cpp:80-159).
THEOREM StartLeavesNothing == Spec => []StartOutcome
  <1>1. SessionInv => StartOutcome
    BY DEF SessionInv, Running, Reporting, ReadyFirst, StartOutcome
  <1> QED BY <1>1, SessionInvariant, PTL
=============================================================================
