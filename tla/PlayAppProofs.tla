--------------------------- MODULE PlayAppProofs ---------------------------
(***************************************************************************)
(* Proofs about the player program and its PCM sink, for every number of   *)
(* clients, texts, chunks and driver failures, every queue limit and every *)
(* prebuffer.                                                              *)
(***************************************************************************)
EXTENDS PlayApp, Integers, SequenceTheorems, TLAPS

(***************************************************************************)
(* The player, as a record P.                                              *)
(***************************************************************************)
Chunks == [req : Nat, n : Nat, ep : Nat]

PlayerType(P) ==
  /\ P \in [sink : Sinks, prebuffer : Nat, epoch : Nat, open : BOOLEAN,
            started : BOOLEAN, buffers : Seq(Chunks), returned : Nat,
            pending : Seq(Chunks), orphaned : SUBSET Chunks, driver : SUBSET Chunks,
            leaked : SUBSET Chunks, unhealthy : BOOLEAN, faults : Int]
  /\ P.returned <= Len(P.buffers)

\* What the driver may touch is queued, orphaned or leaked; a buffer is orphaned
\* only by a failure that leaves the player unhealthy; a disabled sink holds no
\* audio, and a device that is not open none of the driver's.
PlayerInv(P) ==
  /\ P.driver \subseteq Range(P.buffers) \cup P.orphaned \cup P.leaked
  /\ P.orphaned # {} => P.unhealthy
  /\ P.sink = "Disabled" => P.buffers = <<>> /\ P.pending = <<>>
  /\ P.sink = "WaveOut" /\ ~P.open => P.buffers = <<>>
  /\ P.sink # "WaveOut" => P.driver = {}

PlayerOK(P) == PlayerType(P) /\ PlayerInv(P)

\* The audio the player holds.
Audio(P) == Range(P.buffers) \cup Range(P.pending)

\* A step of the player from P to Q within an epoch that brings in nothing but C.
Within(P, Q, C) ==
  /\ Q.sink = P.sink /\ Q.epoch = P.epoch
  /\ P.unhealthy => Q.unhealthy
  /\ Audio(Q) \subseteq Audio(P) \cup C

LEMMA WithinTrans ==
  ASSUME NEW P, NEW Q, NEW R, NEW C, NEW D, Within(P, Q, C), Within(Q, R, D)
  PROVE  Within(P, R, C \cup D)
  BY DEF Within

-----------------------------------------------------------------------------
(* Sequences.                                                              *)

\* A sequence cut in two.
LEMMA CutSequence ==
  ASSUME NEW S, NEW s \in Seq(S), NEW k \in 0..Len(s)
  PROVE  /\ SubSeq(s, k + 1, Len(s)) \in Seq(S)
         /\ Len(SubSeq(s, k + 1, Len(s))) = Len(s) - k
         /\ \A i \in 1..(Len(s) - k) : SubSeq(s, k + 1, Len(s))[i] = s[k + i]
         /\ SubSeq(s, 1, k) \in Seq(S)
         /\ Len(SubSeq(s, 1, k)) = k
         /\ \A i \in 1..k : SubSeq(s, 1, k)[i] = s[i]
         /\ Range(SubSeq(s, k + 1, Len(s))) \subseteq Range(s)
         /\ Range(SubSeq(s, 1, k)) = {s[i] : i \in 1..k}
         /\ Range(s) = {s[i] : i \in 1..k} \cup Range(SubSeq(s, k + 1, Len(s)))
  <1> DEFINE a == SubSeq(s, 1, k)
             b == SubSeq(s, k + 1, Len(s))
             n == Len(s)
  <1>1. n \in Nat /\ k \in Nat /\ k <= n /\ DOMAIN s = 1..n
        /\ \A i \in 1..n : s[i] \in S
    BY LenProperties
  <1>2. b \in Seq(S) /\ Len(b) = n - k /\ \A i \in 1..(n - k) : b[i] = s[k + i]
    <2>1. k + 1 \in Int /\ n \in Int /\ \A i \in (k + 1)..n : s[i] \in S
      BY <1>1
    <2>2. /\ b \in Seq(S)
          /\ Len(b) = IF k + 1 <= n THEN n - (k + 1) + 1 ELSE 0
          /\ \A i \in 1..(n - (k + 1) + 1) : b[i] = s[(k + 1) + i - 1]
      BY <2>1, SubSeqProperties
    <2>3. n - (k + 1) + 1 = n - k /\ \A i \in 1..(n - k) : (k + 1) + i - 1 = k + i
      BY <1>1
    <2> HIDE DEF b, n
    <2> QED BY <1>1, <2>2, <2>3
  <1>3. a \in Seq(S) /\ Len(a) = k /\ \A i \in 1..k : a[i] = s[i]
    BY <1>1
  <1>4. DOMAIN a = 1..k /\ DOMAIN b = 1..(n - k)
    BY <1>2, <1>3, LenProperties
  <1> HIDE DEF a, b, n
  <1>5. Range(a) = {s[i] : i \in 1..k}
    BY <1>3, <1>4 DEF Range
  <1>6. \A x \in Range(b) : x \in Range(s)
    <2> SUFFICES ASSUME NEW i \in 1..(n - k) PROVE b[i] \in Range(s)
      BY <1>4 DEF Range
    <2>1. k + i \in 1..n
      BY <1>1
    <2> QED BY <2>1, <1>1, <1>2 DEF Range
  <1>7. \A x \in Range(s) : x \in {s[i] : i \in 1..k} \cup Range(b)
    <2> SUFFICES ASSUME NEW i \in 1..n PROVE s[i] \in {s[j] : j \in 1..k} \cup Range(b)
      BY <1>1 DEF Range
    <2>1. CASE i <= k
      BY <2>1, <1>1
    <2>2. CASE i > k
      <3>1. i - k \in 1..(n - k) /\ k + (i - k) = i
        BY <1>1, <2>2
      <3>2. b[i - k] = s[i]
        BY <3>1, <1>2
      <3> QED BY <3>1, <3>2, <1>4 DEF Range
    <2> QED BY <2>1, <2>2, <1>1
  <1>8. {s[i] : i \in 1..k} \subseteq Range(s)
    BY <1>1 DEF Range
  <1> QED BY <1>2, <1>3, <1>5, <1>6, <1>7, <1>8 DEF a, b, n

LEMMA JoinSequences ==
  ASSUME NEW S, NEW s \in Seq(S), NEW t \in Seq(S)
  PROVE  /\ s \o t \in Seq(S) /\ Len(s \o t) = Len(s) + Len(t)
         /\ \A i \in 1..Len(s) : (s \o t)[i] = s[i]
         /\ \A i \in 1..Len(t) : (s \o t)[Len(s) + i] = t[i]
         /\ Range(s \o t) = Range(s) \cup Range(t)
  <1> DEFINE u == s \o t
  <1>1. /\ u \in Seq(S) /\ Len(u) = Len(s) + Len(t) /\ Len(s) \in Nat /\ Len(t) \in Nat
        /\ \A i \in 1..Len(u) : u[i] = IF i <= Len(s) THEN s[i] ELSE t[i - Len(s)]
    BY ConcatProperties, LenProperties
  <1>2. DOMAIN s = 1..Len(s) /\ DOMAIN t = 1..Len(t) /\ DOMAIN u = 1..Len(u)
    BY <1>1, LenProperties
  <1> HIDE DEF u
  <1>3. \A i \in 1..Len(s) : u[i] = s[i] /\ i \in 1..Len(u)
    BY <1>1
  <1>4. \A i \in 1..Len(t) : u[Len(s) + i] = t[i] /\ Len(s) + i \in 1..Len(u)
    BY <1>1
  <1>5. \A i \in 1..Len(u) : u[i] \in Range(s) \cup Range(t)
    <2> SUFFICES ASSUME NEW i \in 1..Len(u) PROVE u[i] \in Range(s) \cup Range(t)
      OBVIOUS
    <2>1. CASE i <= Len(s)
      BY <2>1, <1>1, <1>2 DEF Range
    <2>2. CASE i > Len(s)
      <3>1. i - Len(s) \in 1..Len(t)
        BY <2>2, <1>1
      <3> QED BY <3>1, <2>2, <1>1, <1>2 DEF Range
    <2> QED BY <2>1, <2>2, <1>1
  <1>6. Range(u) = Range(s) \cup Range(t)
    BY <1>2, <1>3, <1>4, <1>5 DEF Range
  <1> QED BY <1>1, <1>3, <1>4, <1>6 DEF u

LEMMA RangeOfEmpty == Range(<<>>) = {} /\ Len(<<>>) = 0 /\ \A S : <<>> \in Seq(S)
  BY DEF Range

LEMMA RangeOfAppend ==
  ASSUME NEW S, NEW s \in Seq(S), NEW c \in S
  PROVE  /\ Append(s, c) \in Seq(S) /\ Len(Append(s, c)) = Len(s) + 1
         /\ \A i \in 1..Len(s) : Append(s, c)[i] = s[i]
         /\ Append(s, c)[Len(s) + 1] = c
         /\ Range(Append(s, c)) = Range(s) \cup {c}
  <1> DEFINE u == Append(s, c)
  <1>1. /\ u \in Seq(S) /\ Len(u) = Len(s) + 1 /\ Len(s) \in Nat
        /\ DOMAIN s = 1..Len(s) /\ DOMAIN u = 1..(Len(s) + 1)
        /\ \A i \in 1..Len(s) : u[i] = s[i]
        /\ u[Len(s) + 1] = c
    BY AppendProperties, LenProperties
  <1> HIDE DEF u
  <1>2. 1..(Len(s) + 1) = 1..Len(s) \cup {Len(s) + 1}
    BY <1>1
  <1>3. Range(u) = Range(s) \cup {c}
    BY <1>1, <1>2 DEF Range
  <1> QED BY <1>1, <1>3 DEF u

LEMMA EntriesAreChunks ==
  ASSUME NEW S, NEW s \in Seq(S)
  PROVE  Range(s) \subseteq S
  BY LenProperties DEF Range

LEMMA HeadAndTail ==
  ASSUME NEW S, NEW s \in Seq(S), s # <<>>
  PROVE  /\ Head(s) \in S /\ Head(s) = s[1] /\ Tail(s) \in Seq(S)
         /\ Len(s) >= 1 /\ Len(Tail(s)) = Len(s) - 1
         /\ \A i \in 1..Len(Tail(s)) : Tail(s)[i] = s[i + 1]
         /\ Range(Tail(s)) \subseteq Range(s) /\ Head(s) \in Range(s)
  <1> DEFINE t == Tail(s)
  <1>1. /\ t \in Seq(S) /\ Len(t) = Len(s) - 1 /\ Len(s) \in Nat \ {0}
        /\ DOMAIN s = 1..Len(s) /\ DOMAIN t = 1..(Len(s) - 1)
        /\ Head(s) = s[1] /\ Head(s) \in S
        /\ \A i \in 1..(Len(s) - 1) : t[i] = s[i + 1]
    BY HeadTailProperties, LenProperties, EmptySeq
  <1> HIDE DEF t
  <1>2. \A i \in 1..(Len(s) - 1) : i + 1 \in 1..Len(s)
    BY <1>1
  <1>3. Range(t) \subseteq Range(s)
    BY <1>1, <1>2 DEF Range
  <1>4. 1 \in 1..Len(s)
    BY <1>1
  <1>5. Head(s) \in Range(s)
    BY <1>1, <1>4 DEF Range
  <1> QED BY <1>1, <1>3, <1>5 DEF t

-----------------------------------------------------------------------------
(* The steps of the player.                                                *)

\* The fields of the record type, for one field changed at a time.
LEMMA ReapedOK ==
  ASSUME NEW P, PlayerOK(P), NEW k \in 0..P.returned
  PROVE  /\ PlayerOK(Reaped(P, k)) /\ Within(P, Reaped(P, k), {})
         /\ Reaped(P, k).unhealthy = P.unhealthy
         /\ Reaped(P, k).faults = P.faults
         /\ Reaped(P, k).pending = P.pending
  <1> DEFINE Q == Reaped(P, k)
  <1>1. P.buffers \in Seq(Chunks) /\ P.returned \in Nat /\ k \in 0..Len(P.buffers)
        /\ Len(P.buffers) \in Nat
    BY LenProperties DEF PlayerOK, PlayerType
  <1>2. /\ Q.buffers = SubSeq(P.buffers, k + 1, Len(P.buffers))
        /\ Q.returned = P.returned - k
        /\ Q.driver = P.driver \ {P.buffers[i] : i \in 1..k}
        /\ Q.sink = P.sink /\ Q.epoch = P.epoch /\ Q.unhealthy = P.unhealthy
        /\ Q.open = P.open /\ Q.pending = P.pending /\ Q.orphaned = P.orphaned
        /\ Q.leaked = P.leaked /\ Q.faults = P.faults
    BY DEF Reaped, PlayerOK, PlayerType
  <1>3. /\ Q.buffers \in Seq(Chunks) /\ Len(Q.buffers) = Len(P.buffers) - k
        /\ Range(Q.buffers) \subseteq Range(P.buffers)
        /\ Range(P.buffers) = {P.buffers[i] : i \in 1..k} \cup Range(Q.buffers)
    <2> HIDE DEF Q
    <2> QED BY <1>1, <1>2, CutSequence
  <1>4. PlayerType(Q)
    <2>1. Q.returned \in Nat /\ Q.returned <= Len(Q.buffers)
      <3> HIDE DEF Q
      <3> QED BY <1>1, <1>2, <1>3 DEF PlayerOK, PlayerType
    <2> QED BY <1>2, <1>3, <2>1 DEF Reaped, PlayerOK, PlayerType
  <1> HIDE DEF Q
  <1>5. P.buffers = <<>> => Q.buffers = <<>>
    <2> SUFFICES ASSUME P.buffers = <<>> PROVE Q.buffers = <<>>
      OBVIOUS
    <2>1. k = 0 /\ Len(Q.buffers) = 0
      BY <1>1, <1>3
    <2> QED BY <2>1, <1>3, EmptySeq
  <1>6. PlayerInv(Q)
    BY <1>2, <1>3, <1>5 DEF PlayerOK, PlayerInv
  <1>7. Within(P, Q, {})
    BY <1>2, <1>3 DEF Within, Audio
  <1> QED BY <1>2, <1>4, <1>6, <1>7 DEF Q, PlayerOK

LEMMA FailedOK ==
  ASSUME NEW P, PlayerOK(P)
  PROVE  /\ PlayerOK(Failed(P)) /\ Within(P, Failed(P), {})
         /\ PlayerOK(FailedUnhealthy(P)) /\ Within(P, FailedUnhealthy(P), {})
         /\ FailedUnhealthy(P).unhealthy
  <1> DEFINE Q == Failed(P)
             R == FailedUnhealthy(P)
  <1>1. /\ Q.buffers = P.buffers /\ Q.driver = P.driver
        /\ Q.sink = P.sink /\ Q.epoch = P.epoch /\ Q.unhealthy = P.unhealthy
        /\ Q.open = P.open /\ Q.pending = P.pending /\ Q.orphaned = P.orphaned
        /\ Q.leaked = P.leaked /\ Q.returned = P.returned
    BY DEF Failed, PlayerOK, PlayerType
  <1>2. /\ R.buffers = P.buffers /\ R.driver = P.driver
        /\ R.sink = P.sink /\ R.epoch = P.epoch /\ R.unhealthy = TRUE
        /\ R.open = P.open /\ R.pending = P.pending /\ R.orphaned = P.orphaned
        /\ R.leaked = P.leaked /\ R.returned = P.returned
    BY DEF FailedUnhealthy, PlayerOK, PlayerType
  <1>3. PlayerType(Q) /\ PlayerType(R)
    <2>1. P.faults - 1 \in Int
      BY DEF PlayerOK, PlayerType
    <2>2. PlayerType(Q)
      BY <2>1 DEF Failed, PlayerOK, PlayerType
    <2>3. PlayerType(R)
      BY <2>1 DEF FailedUnhealthy, PlayerOK, PlayerType
    <2> QED BY <2>2, <2>3
  <1> HIDE DEF Q, R
  <1>4. PlayerInv(Q) /\ PlayerInv(R)
    BY <1>1, <1>2 DEF PlayerOK, PlayerInv
  <1>5. Within(P, Q, {}) /\ Within(P, R, {})
    BY <1>1, <1>2 DEF Within, Audio
  <1> QED BY <1>2, <1>3, <1>4, <1>5 DEF Q, R, PlayerOK

\* reap_finished_locked.
LEMMA ReapOK ==
  ASSUME NEW P, PlayerOK(P), NEW x \in Reap(P)
  PROVE  /\ PlayerOK(x.p) /\ Within(P, x.p, {}) /\ x.out \in {"done", "threw"}
         /\ x.out = "threw" => x.p.unhealthy
         /\ x.out = "done" => x.p = Reaped(P, P.returned)
  <1>1. P.returned \in Nat
    BY DEF PlayerOK, PlayerType
  <1>2. CASE x = Outcome(Reaped(P, P.returned), "done")
    <2>1. x.p = Reaped(P, P.returned) /\ x.out = "done"
      BY <1>2 DEF Outcome
    <2>2. P.returned \in 0..P.returned
      BY <1>1
    <2> QED BY <2>1, <2>2, ReapedOK
  <1>3. ASSUME NEW k \in 0..(P.returned - 1),
               x = Outcome(FailedUnhealthy(Reaped(P, k)), "threw")
        PROVE  PlayerOK(x.p) /\ Within(P, x.p, {}) /\ x.out = "threw" /\ x.p.unhealthy
    <2>1. x.p = FailedUnhealthy(Reaped(P, k)) /\ x.out = "threw"
      BY <1>3 DEF Outcome
    <2>2. k \in 0..P.returned
      BY <1>1
    <2>3. PlayerOK(Reaped(P, k)) /\ Within(P, Reaped(P, k), {})
      BY <2>2, ReapedOK
    <2>4. PlayerOK(x.p) /\ Within(Reaped(P, k), x.p, {}) /\ x.p.unhealthy
      BY <2>1, <2>3, FailedOK
    <2>5. Within(P, x.p, {} \cup {})
      BY <2>3, <2>4, WithinTrans
    <2> QED BY <2>1, <2>4, <2>5 DEF Within
  <1>4. \/ x = Outcome(Reaped(P, P.returned), "done")
        \/ \E k \in 0..(P.returned - 1) : x = Outcome(FailedUnhealthy(Reaped(P, k)), "threw")
    BY DEF Reap
  <1> QED BY <1>2, <1>3, <1>4
LEMMA SubmittedOK ==
  ASSUME NEW P, PlayerOK(P), P.sink # "Disabled", NEW k \in 0..Len(P.pending)
  PROVE  /\ PlayerOK(Submitted(P, k)) /\ Within(P, Submitted(P, k), {})
         /\ Submitted(P, k).pending = SubSeq(P.pending, k + 1, Len(P.pending))
  <1> DEFINE Q == Submitted(P, k)
             D == {P.pending[i] : i \in 1..k}
             a == SubSeq(P.pending, 1, k)
             b == SubSeq(P.pending, k + 1, Len(P.pending))
  <1>1. /\ P.buffers \in Seq(Chunks) /\ P.pending \in Seq(Chunks)
        /\ Len(P.buffers) \in Nat /\ Len(P.pending) \in Nat /\ P.returned \in Nat
        /\ P.returned <= Len(P.buffers)
    BY LenProperties DEF PlayerOK, PlayerType
  <1>2. /\ a \in Seq(Chunks) /\ b \in Seq(Chunks) /\ Len(a) = k
        /\ Range(a) = D /\ Range(b) \subseteq Range(P.pending)
        /\ Range(P.pending) = D \cup Range(b)
    <2>1. PICK s \in Seq(Chunks) : s = P.pending
      BY <1>1
    <2>2. k \in 0..Len(s)
      BY <2>1
    <2>3. /\ SubSeq(s, 1, k) \in Seq(Chunks) /\ SubSeq(s, k + 1, Len(s)) \in Seq(Chunks)
          /\ Len(SubSeq(s, 1, k)) = k
      BY <2>2, CutSequence
    <2>4. /\ Range(SubSeq(s, 1, k)) = {s[i] : i \in 1..k}
          /\ Range(SubSeq(s, k + 1, Len(s))) \subseteq Range(s)
          /\ Range(s) = {s[i] : i \in 1..k} \cup Range(SubSeq(s, k + 1, Len(s)))
      BY <2>2, CutSequence
    <2> QED BY <2>1, <2>3, <2>4, Zenon
  <1>3. /\ P.buffers \o a \in Seq(Chunks)
        /\ Len(P.buffers \o a) = Len(P.buffers) + Len(a)
        /\ Range(P.buffers \o a) = Range(P.buffers) \cup Range(a)
    <2> HIDE DEF a
    <2>1. PICK s \in Seq(Chunks) : s = P.buffers
      BY <1>1
    <2>2. PICK t \in Seq(Chunks) : t = a
      BY <1>2
    <2>3. s \o t \in Seq(Chunks) /\ Len(s \o t) = Len(s) + Len(t)
          /\ Range(s \o t) = Range(s) \cup Range(t)
      BY JoinSequences
    <2> QED BY <2>1, <2>2, <2>3, Zenon
  <1>4. /\ Q.buffers = P.buffers \o a /\ Q.pending = b
        /\ Q.returned = P.returned
        /\ Q.sink = P.sink /\ Q.epoch = P.epoch /\ Q.unhealthy = P.unhealthy
        /\ Q.orphaned = P.orphaned /\ Q.leaked = P.leaked
    BY DEF Submitted, PlayerOK, PlayerType
  <1>5. /\ P.sink = "WaveOut" => Q.driver = P.driver \cup D
        /\ P.sink # "WaveOut" => Q.driver = P.driver
    BY DEF Submitted, PlayerOK, PlayerType
  <1>6. P.sink = "WaveOut" => Q.open
    BY DEF Submitted, PlayerOK, PlayerType
  <1>7. D \subseteq Chunks
    BY <1>1, <1>2, EntriesAreChunks
  <1>8. PlayerType(Q)
    <2>1. Q.returned <= Len(Q.buffers)
      <3> HIDE DEF Q, a, b
      <3> QED BY <1>1, <1>2, <1>3, <1>4
    <2>2. Q \in [sink : Sinks, prebuffer : Nat, epoch : Nat, open : BOOLEAN,
            started : BOOLEAN, buffers : Seq(Chunks), returned : Nat,
            pending : Seq(Chunks), orphaned : SUBSET Chunks, driver : SUBSET Chunks,
            leaked : SUBSET Chunks, unhealthy : BOOLEAN, faults : Int]
      <3>1. (P.driver \cup D) \in SUBSET Chunks
        BY <1>7 DEF PlayerOK, PlayerType
      <3> HIDE DEF D, a, b
      <3>2. Q = [P EXCEPT !.buffers = P.buffers \o a, !.pending = b,
                          !.driver = IF P.sink = "WaveOut" THEN P.driver \cup D ELSE P.driver,
                          !.open = (P.open \/ P.sink = "WaveOut"),
                          !.started = (P.started \/ k > 0)]
        BY Zenon DEF Q, Submitted, a, b, D
      <3> HIDE DEF Q
      <3> QED BY <3>1, <3>2, <1>2, <1>3 DEF PlayerOK, PlayerType
    <2> QED BY <2>1, <2>2 DEF PlayerType
  <1> HIDE DEF Q, a, b, D
  <1>9. PlayerInv(Q)
    <2>1. Q.driver \subseteq Range(Q.buffers) \cup Q.orphaned \cup Q.leaked
      BY <1>2, <1>3, <1>4, <1>5 DEF PlayerOK, PlayerInv
    <2> QED BY <2>1, <1>4, <1>5, <1>6 DEF PlayerOK, PlayerInv
  <1>10. Within(P, Q, {})
    BY <1>2, <1>3, <1>4 DEF Within, Audio
  <1> QED BY <1>4, <1>8, <1>9, <1>10 DEF PlayerOK, Q, b
LEMMA OrphanedOK ==
  ASSUME NEW P, PlayerOK(P), P.sink = "WaveOut", NEW k \in 0..(Len(P.pending) - 1)
  PROVE  PlayerOK(Orphaned(P, k)) /\ Within(P, Orphaned(P, k), {})
         /\ Orphaned(P, k).unhealthy
  <1> DEFINE q == Submitted(P, k)
             b == Head(q.pending)
             Q == Orphaned(P, k)
  <1>1. P.pending \in Seq(Chunks) /\ Len(P.pending) \in Nat /\ k \in 0..Len(P.pending)
    BY LenProperties DEF PlayerOK, PlayerType
  <1>2. PlayerOK(q) /\ Within(P, q, {}) /\ q.sink = "WaveOut"
        /\ q.pending = SubSeq(P.pending, k + 1, Len(P.pending))
    <2> HIDE DEF q
    <2>1. PlayerOK(q) /\ Within(P, q, {})
          /\ q.pending = SubSeq(P.pending, k + 1, Len(P.pending))
      BY <1>1, SubmittedOK DEF q
    <2> QED BY <2>1 DEF Within
  <1>3. q.pending \in Seq(Chunks) /\ q.pending # <<>>
    <2>1. PICK s \in Seq(Chunks) : s = P.pending
      BY <1>1
    <2>2. Len(SubSeq(s, k + 1, Len(s))) = Len(s) - k
      BY <1>1, <2>1, CutSequence
    <2> HIDE DEF q
    <2>3. Len(q.pending) = Len(P.pending) - k
      BY <1>2, <2>1, <2>2, Zenon
    <2>4. q.pending \in Seq(Chunks) /\ Len(q.pending) # 0
      BY <1>1, <1>2, <2>3 DEF PlayerOK, PlayerType
    <2> QED BY <2>4, RangeOfEmpty
  <1>4. /\ b \in Chunks /\ Tail(q.pending) \in Seq(Chunks)
        /\ Range(Tail(q.pending)) \subseteq Range(q.pending)
    <2>1. PICK s \in Seq(Chunks) : s = q.pending
      BY <1>3
    <2>2. /\ Head(s) \in Chunks /\ Tail(s) \in Seq(Chunks)
          /\ Range(Tail(s)) \subseteq Range(s)
      BY <1>3, <2>1, HeadAndTail
    <2> HIDE DEF q
    <2> QED BY <2>1, <2>2, Zenon
  <1>5. Q = [[q EXCEPT !.pending = Tail(q.pending), !.orphaned = q.orphaned \cup {b},
                       !.driver = q.driver \cup {b}]
               EXCEPT !.faults = q.faults - 1, !.unhealthy = TRUE]
    <2>1. Q = FailedUnhealthy([q EXCEPT !.pending = Tail(q.pending),
                                 !.orphaned = q.orphaned \cup {b},
                                 !.driver = q.driver \cup {b}])
      BY Zenon DEF Orphaned
    <2> HIDE DEF q, b, Q
    <2> QED BY <2>1, <1>2 DEF FailedUnhealthy, PlayerOK, PlayerType
  <1> HIDE DEF q, b, Q
  <1>6. /\ Q.buffers = q.buffers /\ Q.pending = Tail(q.pending)
        /\ Q.orphaned = q.orphaned \cup {b} /\ Q.driver = q.driver \cup {b}
        /\ Q.sink = q.sink /\ Q.epoch = q.epoch /\ Q.leaked = q.leaked
        /\ Q.open = q.open /\ Q.returned = q.returned /\ Q.unhealthy = TRUE
    BY <1>2, <1>5 DEF PlayerOK, PlayerType
  <1>7. PlayerType(Q)
    <2>1. /\ q.faults - 1 \in Int /\ (q.orphaned \cup {b}) \in SUBSET Chunks
          /\ (q.driver \cup {b}) \in SUBSET Chunks
      BY <1>2, <1>4 DEF PlayerOK, PlayerType
    <2>2. Q.returned <= Len(Q.buffers)
      BY <1>2, <1>6 DEF PlayerOK, PlayerType
    <2> QED BY <2>1, <2>2, <1>2, <1>4, <1>5 DEF PlayerOK, PlayerType
  <1>8. PlayerInv(Q)
    BY <1>2, <1>6 DEF PlayerOK, PlayerInv
  <1>9. Within(P, Q, {})
    BY <1>2, <1>4, <1>6 DEF Within, Audio
  <1> QED BY <1>6, <1>7, <1>8, <1>9 DEF Q, PlayerOK

\* flush_pending_locked.
LEMMA FlushOK ==
  ASSUME NEW P, PlayerOK(P), NEW x \in Flush(P)
  PROVE  /\ PlayerOK(x.p) /\ Within(P, x.p, {}) /\ x.out \in {"done", "threw"}
         /\ x.out = "done" => x.p.pending = <<>>
  <1>0. P.pending \in Seq(Chunks) /\ Len(P.pending) \in Nat
    BY LenProperties DEF PlayerOK, PlayerType
  <1>1. CASE P.pending = <<>>
    <2>1. x.p = P /\ x.out = "done"
      BY <1>1 DEF Flush, Outcome
    <2> QED BY <1>1, <2>1 DEF Within
  <1>2. CASE P.pending # <<>> /\ x = Outcome(Submitted(P, Len(P.pending)), "done")
    <2>1. x.p = Submitted(P, Len(P.pending)) /\ x.out = "done"
      BY <1>2 DEF Outcome
    <2>2. P.sink # "Disabled" /\ Len(P.pending) \in 0..Len(P.pending)
      BY <1>0, <1>2 DEF PlayerOK, PlayerInv
    <2>3. PlayerOK(x.p) /\ Within(P, x.p, {})
          /\ x.p.pending = SubSeq(P.pending, Len(P.pending) + 1, Len(P.pending))
      BY <2>1, <2>2, SubmittedOK
    <2>4. x.p.pending = <<>>
      <3>1. PICK s \in Seq(Chunks) : s = P.pending
        BY <1>0
      <3>2. Len(s) \in 0..Len(s)
        BY <1>0, <3>1
      <3>3. Len(SubSeq(s, Len(s) + 1, Len(s))) = Len(s) - Len(s)
        BY <3>2, CutSequence
      <3>4. Len(x.p.pending) = 0 /\ x.p.pending \in Seq(Chunks)
        BY <1>0, <2>3, <3>1, <3>3 DEF PlayerOK, PlayerType
      <3> QED BY <3>4, EmptySeq
    <2> QED BY <2>1, <2>3, <2>4
  <1>3. ASSUME P.pending # <<>>, x \in FlushFailures(P)
        PROVE  PlayerOK(x.p) /\ Within(P, x.p, {}) /\ x.out = "threw"
    <2>1. CASE \E k \in 0..(Len(P.pending) - 1) : x = Outcome(Failed(Submitted(P, k)), "threw")
      <3>1. PICK k \in 0..(Len(P.pending) - 1) : x = Outcome(Failed(Submitted(P, k)), "threw")
        BY <2>1
      <3>2. x.p = Failed(Submitted(P, k)) /\ x.out = "threw"
        BY <3>1 DEF Outcome
      <3>3. P.sink # "Disabled" /\ k \in 0..Len(P.pending)
        BY <1>0, <1>3 DEF PlayerOK, PlayerInv
      <3>4. PlayerOK(Submitted(P, k)) /\ Within(P, Submitted(P, k), {})
        BY <3>3, SubmittedOK
      <3>5. PlayerOK(x.p) /\ Within(Submitted(P, k), x.p, {})
        BY <3>2, <3>4, FailedOK
      <3>6. Within(P, x.p, {} \cup {})
        BY <3>4, <3>5, WithinTrans
      <3> QED BY <3>2, <3>5, <3>6 DEF Within
    <2>2. CASE P.sink = "WaveOut" /\ \E k \in 0..(Len(P.pending) - 1) :
                                       x = Outcome(Orphaned(P, k), "threw")
      <3>1. PICK k \in 0..(Len(P.pending) - 1) : x = Outcome(Orphaned(P, k), "threw")
        BY <2>2
      <3>2. x.p = Orphaned(P, k) /\ x.out = "threw"
        BY <3>1 DEF Outcome
      <3> QED BY <2>2, <3>2, OrphanedOK
    <2>3. CASE x = Outcome(Failed(P), "threw")
      <3>1. x.p = Failed(P) /\ x.out = "threw"
        BY <2>3 DEF Outcome
      <3> QED BY <3>1, FailedOK
    <2> QED BY <1>3, <2>1, <2>2, <2>3 DEF FlushFailures
  <1> QED BY <1>1, <1>2, <1>3 DEF Flush

\* The admission of a chunk.
LEMMA PushOK ==
  ASSUME NEW P, PlayerOK(P), P.sink # "Disabled", NEW c \in Chunks, NEW x \in Push(P, c)
  PROVE  PlayerOK(x.p) /\ Within(P, x.p, {c}) /\ x.out \in {"done", "threw"}
  <1> DEFINE Q == [P EXCEPT !.pending = Append(P.pending, c)]
  <1>1. P.pending \in Seq(Chunks) /\ Append(P.pending, c) \in Seq(Chunks)
        /\ Range(Append(P.pending, c)) = Range(P.pending) \cup {c}
    <2>1. PICK s \in Seq(Chunks) : s = P.pending
      BY DEF PlayerOK, PlayerType
    <2>2. Append(s, c) \in Seq(Chunks) /\ Range(Append(s, c)) = Range(s) \cup {c}
      BY RangeOfAppend
    <2> QED BY <2>1, <2>2, Zenon
  <1>2. /\ Q.buffers = P.buffers /\ Q.driver = P.driver
        /\ Q.sink = P.sink /\ Q.epoch = P.epoch /\ Q.unhealthy = P.unhealthy
        /\ Q.open = P.open /\ Q.pending = Append(P.pending, c) /\ Q.orphaned = P.orphaned
        /\ Q.leaked = P.leaked /\ Q.returned = P.returned
    BY DEF PlayerOK, PlayerType
  <1>3. PlayerType(Q)
    BY <1>1, <1>2 DEF PlayerOK, PlayerType
  <1>4. x \in Flush(Q) \/ x = Outcome(Q, "done")
    BY DEF Push
  <1> HIDE DEF Q
  <1>5. PlayerOK(Q)
    BY <1>2, <1>3 DEF PlayerOK, PlayerInv
  <1>6. Within(P, Q, {c})
    BY <1>1, <1>2 DEF Within, Audio
  <1>7. CASE x \in Flush(Q)
    <2>1. PlayerOK(x.p) /\ Within(Q, x.p, {}) /\ x.out \in {"done", "threw"}
      BY <1>5, <1>7, FlushOK
    <2>2. Within(P, x.p, {c} \cup {})
      BY <1>6, <2>1, WithinTrans
    <2> QED BY <2>1, <2>2 DEF Within
  <1>8. CASE x = Outcome(Q, "done")
    BY <1>5, <1>6, <1>8 DEF Outcome
  <1> QED BY <1>4, <1>7, <1>8

\* One turn of the loop of enqueue.
LEMMA AdmitOK ==
  ASSUME NEW P, PlayerOK(P), P.sink # "Disabled", NEW c \in Chunks, NEW x \in Admit(P, c)
  PROVE  PlayerOK(x.p) /\ Within(P, x.p, {c}) /\ x.out \in {"done", "wait", "threw"}
  <1>1. PICK r \in Reap(P) :
          \/ r.out = "threw" /\ x = r
          \/ r.out # "threw" /\ x = Outcome(r.p, "wait")
          \/ r.out # "threw" /\ x \in Push(r.p, c)
    BY DEF Admit
  <1>2. PlayerOK(r.p) /\ Within(P, r.p, {}) /\ r.out \in {"done", "threw"}
    BY ReapOK
  <1>3. CASE x = r
    BY <1>2, <1>3 DEF Within
  <1>4. CASE x = Outcome(r.p, "wait")
    <2>1. x.p = r.p /\ x.out = "wait"
      BY <1>4 DEF Outcome
    <2> QED BY <1>2, <2>1 DEF Within
  <1>5. CASE x \in Push(r.p, c)
    <2>1. r.p.sink # "Disabled"
      BY <1>2 DEF Within
    <2>2. PlayerOK(x.p) /\ Within(r.p, x.p, {c}) /\ x.out \in {"done", "threw"}
      BY <1>2, <1>5, <2>1, PushOK
    <2>3. Within(P, x.p, {} \cup {c})
      BY <1>2, <2>2, WithinTrans
    <2> QED BY <2>2, <2>3 DEF Within
  <1> QED BY <1>1, <1>3, <1>4, <1>5

\* enqueue: a chunk that gets in is of the current epoch.
LEMMA EnqueueOK ==
  ASSUME NEW P, PlayerOK(P), NEW c \in Chunks, NEW resumed, NEW x \in Enqueue(P, c, resumed)
  PROVE  /\ PlayerOK(x.p) /\ x.out \in {"done", "late", "wait", "threw"}
         /\ Within(P, x.p, {}) \/ (Within(P, x.p, {c}) /\ c.ep = P.epoch)
  <1>1. \/ x = Outcome(P, "done") \/ x = Outcome(P, "threw") \/ x = Outcome(P, "late")
        \/ P.sink # "Disabled" /\ c.ep = P.epoch /\ x \in Admit(P, c)
    BY Zenon DEF Enqueue
  <1>2. CASE x = Outcome(P, "done") \/ x = Outcome(P, "threw") \/ x = Outcome(P, "late")
    <2>1. x.p = P /\ x.out \in {"done", "late", "threw"}
      BY <1>2 DEF Outcome
    <2>2. Within(P, P, {})
      BY DEF Within
    <2> QED BY <2>1, <2>2
  <1>3. CASE P.sink # "Disabled" /\ c.ep = P.epoch /\ x \in Admit(P, c)
    BY <1>3, AdmitOK
  <1> QED BY <1>1, <1>2, <1>3
LEMMA ClearedOK ==
  ASSUME NEW P, PlayerOK(P)
  PROVE  /\ PlayerOK(Cleared(P)) /\ Within(P, Cleared(P), {})
         /\ Cleared(P).buffers = P.buffers /\ Cleared(P).pending = <<>>
  <1> DEFINE Q == Cleared(P)
  <1>1. /\ Q.buffers = P.buffers /\ Q.driver = P.driver
        /\ Q.sink = P.sink /\ Q.epoch = P.epoch /\ Q.unhealthy = P.unhealthy
        /\ Q.open = P.open /\ Q.pending = <<>> /\ Q.orphaned = P.orphaned
        /\ Q.leaked = P.leaked /\ Q.returned = P.returned
    BY DEF Cleared, PlayerOK, PlayerType
  <1>2. PlayerType(Q)
    BY RangeOfEmpty DEF Cleared, PlayerOK, PlayerType
  <1> HIDE DEF Q
  <1>3. PlayerInv(Q)
    BY <1>1 DEF PlayerOK, PlayerInv
  <1>4. Within(P, Q, {})
    BY <1>1, RangeOfEmpty DEF Within, Audio
  <1> QED BY <1>1, <1>2, <1>3, <1>4 DEF Q, PlayerOK

\* A turn of the waiting loop of reset_locked.
LEMMA DrainTurnOK ==
  ASSUME NEW P, PlayerOK(P), NEW x \in DrainTurn(P)
  PROVE  /\ PlayerOK(x.p) /\ Within(P, x.p, {}) /\ x.out \in {"done", "wait", "threw"}
         /\ x.out = "threw" => x.p.unhealthy
         /\ x.out = "done" => x.p.buffers = <<>> /\ x.p.pending = <<>>
  <1>1. PICK r \in Reap(P) :
          x \in IF r.out = "threw" THEN {r}
                ELSE IF r.p.buffers = <<>> THEN {Outcome(Cleared(r.p), "done")}
                ELSE {Outcome(r.p, "wait")}
    BY Zenon DEF DrainTurn
  <1>2. \/ r.out = "threw" /\ x = r
        \/ r.p.buffers = <<>> /\ x = Outcome(Cleared(r.p), "done")
        \/ x = Outcome(r.p, "wait")
    BY <1>1, Zenon
  <1>3. PlayerOK(r.p) /\ Within(P, r.p, {}) /\ (r.out = "threw" => r.p.unhealthy)
    BY ReapOK
  <1>4. CASE r.out = "threw" /\ x = r
    BY <1>3, <1>4
  <1>5. CASE r.p.buffers = <<>> /\ x = Outcome(Cleared(r.p), "done")
    <2>1. x.p = Cleared(r.p) /\ x.out = "done"
      BY <1>5 DEF Outcome
    <2>2. PlayerOK(x.p) /\ Within(r.p, x.p, {}) /\ x.p.buffers = <<>> /\ x.p.pending = <<>>
      BY <1>3, <1>5, <2>1, ClearedOK
    <2>3. Within(P, x.p, {} \cup {})
      BY <1>3, <2>2, WithinTrans
    <2> QED BY <2>1, <2>2, <2>3 DEF Within
  <1>6. CASE x = Outcome(r.p, "wait")
    <2>1. x.p = r.p /\ x.out = "wait"
      BY <1>6 DEF Outcome
    <2> QED BY <1>3, <2>1
  <1> QED BY <1>2, <1>4, <1>5, <1>6
\* What a reset that has run from P with outcome x leaves behind: nothing when it
\* is done, an unhealthy player when it threw.
ResetResult(P, x) ==
  /\ PlayerOK(x.p) /\ x.out \in {"done", "wait", "threw"}
  /\ x.p.sink = P.sink
  /\ P.unhealthy => x.p.unhealthy
  /\ x.out = "threw" => x.p.unhealthy
  /\ x.out = "done" => x.p.buffers = <<>> /\ x.p.pending = <<>>
  /\ Audio(x.p) \subseteq Audio(P)

LEMMA ResetDeviceOK ==
  ASSUME NEW P, PlayerOK(P), NEW x \in ResetDevice(P)
  PROVE  ResetResult(P, x) /\ x.p.epoch = P.epoch
  <1>1. CASE P.buffers = <<>> /\ x = Outcome(Cleared(P), "done")
    <2>1. x.p = Cleared(P) /\ x.out = "done"
      BY <1>1 DEF Outcome
    <2> QED BY <1>1, <2>1, ClearedOK DEF ResetResult, Within
  <1>2. CASE x \in DrainTurn(P)
    BY <1>2, DrainTurnOK DEF ResetResult, Within
  <1>3. CASE x = Outcome(FailedUnhealthy(P), "threw")
    <2>1. x.p = FailedUnhealthy(P) /\ x.out = "threw"
      BY <1>3 DEF Outcome
    <2> QED BY <2>1, FailedOK DEF ResetResult, Within
  <1> QED BY <1>1, <1>2, <1>3 DEF ResetDevice

LEMMA ResetMockOK ==
  ASSUME NEW P, PlayerOK(P), P.sink = "Mock", NEW x \in ResetMock(P)
  PROVE  ResetResult(P, x) /\ x.p.epoch = P.epoch
  <1>1. CASE x = Outcome([Cleared(P) EXCEPT !.buffers = <<>>, !.returned = 0], "done")
    <2> DEFINE c == Cleared(P)
               Q == [c EXCEPT !.buffers = <<>>, !.returned = 0]
    <2>1. x.p = Q /\ x.out = "done"
      BY <1>1 DEF Outcome
    <2> HIDE DEF c
    <2>2. PlayerOK(c) /\ Within(P, c, {}) /\ c.pending = <<>>
      BY ClearedOK DEF c
    <2>3. /\ Q.buffers = <<>> /\ Q.driver = c.driver /\ Q.returned = 0
          /\ Q.sink = c.sink /\ Q.epoch = c.epoch /\ Q.unhealthy = c.unhealthy
          /\ Q.open = c.open /\ Q.pending = <<>> /\ Q.orphaned = c.orphaned
          /\ Q.leaked = c.leaked
      BY <2>2 DEF PlayerOK, PlayerType
    <2>4. PlayerType(Q)
      <3>1. <<>> \in Seq(Chunks) /\ 0 <= Len(<<>>)
        OBVIOUS
      <3>2. Q.returned <= Len(Q.buffers)
        BY <2>3, <3>1
      <3> QED BY <2>2, <3>1, <3>2 DEF PlayerOK, PlayerType
    <2> HIDE DEF Q
    <2>5. Q.sink = "Mock" /\ c.driver = {}
      BY <2>2, <2>3 DEF Within, PlayerOK, PlayerInv
    <2>6. PlayerInv(Q)
      BY <2>2, <2>3, <2>5 DEF PlayerOK, PlayerInv
    <2>7. Audio(Q) = {}
      BY <2>3, RangeOfEmpty DEF Audio
    <2> QED BY <2>1, <2>2, <2>3, <2>4, <2>6, <2>7 DEF ResetResult, Within, PlayerOK
  <1>2. CASE x = Outcome(FailedUnhealthy(P), "threw")
    <2>1. x.p = FailedUnhealthy(P) /\ x.out = "threw"
      BY <1>2 DEF Outcome
    <2> QED BY <2>1, FailedOK DEF ResetResult, Within
  <1> QED BY <1>1, <1>2 DEF ResetMock

\* reset: a new epoch.
LEMMA ResetBeginOK ==
  ASSUME NEW P, PlayerOK(P), NEW x \in ResetBegin(P)
  PROVE  ResetResult(P, x) /\ x.p.epoch = P.epoch + 1
  <1> DEFINE Q == [P EXCEPT !.epoch = P.epoch + 1]
  <1>1. /\ Q.buffers = P.buffers /\ Q.driver = P.driver
        /\ Q.sink = P.sink /\ Q.epoch = P.epoch + 1 /\ Q.unhealthy = P.unhealthy
        /\ Q.open = P.open /\ Q.pending = P.pending /\ Q.orphaned = P.orphaned
        /\ Q.leaked = P.leaked /\ Q.returned = P.returned
    BY DEF PlayerOK, PlayerType
  <1>2. PlayerType(Q)
    <2>1. P.epoch + 1 \in Nat
      BY DEF PlayerOK, PlayerType
    <2> QED BY <2>1 DEF PlayerOK, PlayerType
  <1>3. x \in IF Q.unhealthy THEN {Outcome(Q, "threw")}
              ELSE IF Q.sink = "Disabled" THEN {Outcome(Q, "done")}
              ELSE IF Q.sink = "Mock" THEN ResetMock(Q)
              ELSE IF ~Q.open THEN {Outcome(Cleared(Q), "done")}
              ELSE ResetDevice(Q)
    BY Zenon DEF ResetBegin
  <1> HIDE DEF Q
  <1>4. PlayerOK(Q)
    BY <1>1, <1>2 DEF PlayerOK, PlayerInv
  <1>5. ASSUME ResetResult(Q, x), x.p.epoch = Q.epoch
        PROVE  ResetResult(P, x) /\ x.p.epoch = P.epoch + 1
    BY <1>1, <1>5 DEF ResetResult, Audio
  <1>6. CASE Q.unhealthy /\ x = Outcome(Q, "threw")
    <2>1. x.p = Q /\ x.out = "threw"
      BY <1>6 DEF Outcome
    <2> QED BY <2>1, <1>4, <1>5, <1>6 DEF ResetResult
  <1>7. CASE Q.sink = "Disabled" /\ x = Outcome(Q, "done")
    <2>1. x.p = Q /\ x.out = "done" /\ Q.buffers = <<>> /\ Q.pending = <<>>
      BY <1>4, <1>7 DEF Outcome, PlayerOK, PlayerInv
    <2> QED BY <2>1, <1>4, <1>5 DEF ResetResult
  <1>8. CASE Q.sink = "Mock" /\ x \in ResetMock(Q)
    BY <1>4, <1>5, <1>8, ResetMockOK
  <1>9. CASE Q.sink # "Disabled" /\ Q.sink # "Mock" /\ ~Q.open /\ x = Outcome(Cleared(Q), "done")
    <2>1. x.p = Cleared(Q) /\ x.out = "done"
      BY <1>9 DEF Outcome
    <2>2. Q.buffers = <<>>
      BY <1>4, <1>9 DEF PlayerOK, PlayerInv, PlayerType, Sinks
    <2>3. ResetResult(Q, x) /\ x.p.epoch = Q.epoch
      BY <1>4, <2>1, <2>2, ClearedOK DEF ResetResult, Within
    <2> QED BY <1>5, <2>3
  <1>10. CASE x \in ResetDevice(Q)
    BY <1>4, <1>5, <1>10, ResetDeviceOK
  <1> QED BY <1>3, <1>6, <1>7, <1>8, <1>9, <1>10

\* The loop of reset_locked after a sleep.
LEMMA ResetResumeOK ==
  ASSUME NEW P, PlayerOK(P), NEW e, NEW x \in ResetResume(P, e)
  PROVE  \/ P.epoch # e /\ x.p = P /\ x.out = "done"
         \/ P.epoch = e /\ ResetResult(P, x) /\ x.p.epoch = P.epoch
  <1>1. CASE P.epoch # e
    BY <1>1 DEF ResetResume, Outcome
  <1>2. CASE P.epoch = e /\ P.buffers = <<>>
    <2>1. x.p = Cleared(P) /\ x.out = "done"
      BY <1>2 DEF ResetResume, Outcome
    <2> QED BY <1>2, <2>1, ClearedOK DEF ResetResult, Within
  <1>3. CASE P.epoch = e /\ x \in DrainTurn(P)
    BY <1>3, DrainTurnOK DEF ResetResult, Within
  <1>4. ASSUME P.epoch = e, NEW r \in DrainTurn(P),
               x = Outcome([r.p EXCEPT !.unhealthy = TRUE], "threw")
        PROVE  ResetResult(P, x) /\ x.p.epoch = P.epoch
    <2> DEFINE Q == [r.p EXCEPT !.unhealthy = TRUE]
    <2>1. PlayerOK(r.p) /\ Within(P, r.p, {})
      BY DrainTurnOK
    <2>2. /\ Q.buffers = r.p.buffers /\ Q.driver = r.p.driver
          /\ Q.sink = r.p.sink /\ Q.epoch = r.p.epoch /\ Q.unhealthy = TRUE
          /\ Q.open = r.p.open /\ Q.pending = r.p.pending /\ Q.orphaned = r.p.orphaned
          /\ Q.leaked = r.p.leaked /\ Q.returned = r.p.returned
      BY <2>1 DEF PlayerOK, PlayerType
    <2>3. PlayerType(Q)
      BY <2>1 DEF PlayerOK, PlayerType
    <2>4. x.p = Q /\ x.out = "threw"
      BY <1>4 DEF Outcome
    <2> HIDE DEF Q
    <2>5. PlayerInv(Q)
      BY <2>1, <2>2 DEF PlayerOK, PlayerInv
    <2> QED BY <2>1, <2>2, <2>3, <2>4, <2>5 DEF ResetResult, Within, Audio, PlayerOK
  <1> QED BY <1>1, <1>2, <1>3, <1>4 DEF ResetResume

LEMMA ResetIfEpochOK ==
  ASSUME NEW P, PlayerOK(P), NEW e, NEW x \in ResetIfEpoch(P, e)
  PROVE  \/ P.epoch # e /\ x.p = P /\ x.out = "done"
         \/ P.epoch = e /\ ResetResult(P, x)
  <1>1. CASE P.epoch # e
    BY <1>1 DEF ResetIfEpoch, Outcome
  <1>2. CASE P.epoch = e /\ x \in ResetBegin(P)
    BY <1>2, ResetBeginOK
  <1> QED BY <1>1, <1>2 DEF ResetIfEpoch

\* interrupt_with_fade: the tail is of a request that was at the playout cursor.
LEMMA InterruptOK ==
  ASSUME NEW P, PlayerOK(P), NEW fade, NEW x \in Interrupt(P, fade)
  PROVE  /\ ResetResult(P, x) /\ x.tail \in Nat
         /\ P.buffers = <<>> => x.tail = NoTail
  <1>1. PICK r \in (IF P.sink = "Disabled" THEN {Outcome(P, "done")} ELSE Reap(P)) :
          \/ r.out = "threw" /\ x = [p |-> r.p, out |-> "threw", tail |-> NoTail]
          \/ /\ r.out # "threw"
             /\ \E y \in ResetBegin(r.p), tail \in Tails(r.p, fade) :
                  x = [p |-> y.p, out |-> y.out, tail |-> tail]
    BY DEF Interrupt
  <1>2. /\ PlayerOK(r.p) /\ Within(P, r.p, {})
        /\ r.out = "threw" => r.p.unhealthy
    <2>1. CASE P.sink = "Disabled"
      <3>1. r.p = P /\ r.out = "done"
        BY <1>1, <2>1 DEF Outcome
      <3> QED BY <3>1 DEF Within
    <2>2. CASE P.sink # "Disabled"
      BY <1>1, <2>2, ReapOK
    <2> QED BY <2>1, <2>2
  <1>3. CASE r.out = "threw"
    <2>1. x.p = r.p /\ x.out = "threw" /\ x.tail = NoTail
      BY <1>1, <1>3
    <2> QED BY <1>2, <1>3, <2>1 DEF ResetResult, Within, NoTail
  <1>4. CASE r.out # "threw"
    <2>1. PICK y \in ResetBegin(r.p), tail \in Tails(r.p, fade) :
            x = [p |-> y.p, out |-> y.out, tail |-> tail]
      BY <1>1, <1>4
    <2>2. x.p = y.p /\ x.out = y.out /\ x.tail = tail
      BY <2>1
    <2>3. ResetResult(r.p, y)
      BY <1>2, ResetBeginOK
    <2>4. ResetResult(P, x)
      BY <1>2, <2>2, <2>3 DEF ResetResult, Within
    <2>5. tail = NoTail \/ (r.p.buffers # <<>> /\ tail = Head(r.p.buffers).req)
      BY DEF Tails
    <2>6. r.p.buffers # <<>> => Head(r.p.buffers) \in Chunks
      BY <1>2, HeadAndTail DEF PlayerOK, PlayerType
    <2>7. tail \in Nat
      BY <2>5, <2>6 DEF Chunks, NoTail
    <2>8. P.buffers = <<>> => r.p.buffers = <<>>
      <3> SUFFICES ASSUME P.buffers = <<>> PROVE r.p.buffers = <<>>
        OBVIOUS
      <3>1. CASE P.sink = "Disabled"
        BY <1>1, <3>1 DEF Outcome
      <3>2. CASE P.sink # "Disabled"
        <4>1. r.out = "done" /\ r.p = Reaped(P, P.returned)
          BY <1>1, <1>4, <3>2, ReapOK
        <4>2. r.p.returned \in Nat /\ r.p.buffers \in Seq(Chunks) /\ P.returned = 0
          BY <1>2, RangeOfEmpty DEF PlayerOK, PlayerType
        <4>3. r.p.buffers = SubSeq(P.buffers, 0 + 1, Len(P.buffers))
          BY <4>1, <4>2 DEF Reaped, PlayerOK, PlayerType
        <4> QED BY <4>3, RangeOfEmpty
      <3> QED BY <3>1, <3>2
    <2> QED BY <2>2, <2>4, <2>5, <2>7, <2>8
  <1> QED BY <1>3, <1>4

LEMMA InterruptIfEpochOK ==
  ASSUME NEW P, PlayerOK(P), NEW e, NEW fade, NEW x \in InterruptIfEpoch(P, e, fade)
  PROVE  /\ x.tail \in Nat
         /\ \/ P.epoch # e /\ x.p = P /\ x.out = "done"
            \/ P.epoch = e /\ ResetResult(P, x)
  <1>1. CASE P.epoch # e
    BY <1>1 DEF InterruptIfEpoch, NoTail
  <1>2. CASE P.epoch = e /\ x \in Interrupt(P, fade)
    BY <1>2, InterruptOK
  <1> QED BY <1>1, <1>2 DEF InterruptIfEpoch
\* wait_until_idle: when it is done, nothing is queued.
LEMMA IdleTurnOK ==
  ASSUME NEW P, PlayerOK(P), NEW x \in IdleTurn(P)
  PROVE  /\ PlayerOK(x.p) /\ Within(P, x.p, {}) /\ x.out \in {"done", "wait", "threw"}
         /\ x.out = "done" => x.p = Reaped(P, P.returned) /\ x.p.buffers = <<>>
         /\ x.out = "wait" => x.p = Reaped(P, P.returned)
  <1>1. PICK r \in Reap(P) :
          \/ r.out = "threw" /\ x = r
          \/ r.p.buffers = <<>> /\ x = r
          \/ r.out # "threw" /\ x = Outcome(r.p, "wait")
          \/ r.out # "threw" /\ x = Outcome(r.p, "threw")
    BY DEF IdleTurn
  <1>2. /\ PlayerOK(r.p) /\ Within(P, r.p, {}) /\ r.out \in {"done", "threw"}
        /\ r.out = "done" => r.p = Reaped(P, P.returned)
    BY ReapOK
  <1>3. CASE x = r /\ (r.out = "threw" \/ r.p.buffers = <<>>)
    BY <1>2, <1>3
  <1>4. CASE r.out # "threw" /\ (x = Outcome(r.p, "wait") \/ x = Outcome(r.p, "threw"))
    <2>1. x.p = r.p /\ x.out \in {"wait", "threw"}
      BY <1>4 DEF Outcome
    <2> QED BY <1>2, <1>4, <2>1
  <1> QED BY <1>1, <1>3, <1>4

LEMMA WaitUntilIdleOK ==
  ASSUME NEW P, PlayerOK(P), NEW resumed, NEW x \in WaitUntilIdle(P, resumed)
  PROVE  PlayerOK(x.p) /\ Within(P, x.p, {}) /\ x.out \in {"done", "wait", "threw"}
  <1>1. \/ x = Outcome(P, "done") \/ x = Outcome(P, "threw")
        \/ x \in IdleTurn(P)
        \/ \E r \in Flush(P) : x = r \/ x \in IdleTurn(r.p)
    BY DEF WaitUntilIdle
  <1>2. CASE x = Outcome(P, "done") \/ x = Outcome(P, "threw")
    <2>1. x.p = P /\ x.out \in {"done", "threw"}
      BY <1>2 DEF Outcome
    <2>2. Within(P, P, {})
      BY DEF Within
    <2> QED BY <2>1, <2>2
  <1>3. CASE x \in IdleTurn(P)
    BY <1>3, IdleTurnOK
  <1>4. ASSUME NEW r \in Flush(P), x = r \/ x \in IdleTurn(r.p)
        PROVE  PlayerOK(x.p) /\ Within(P, x.p, {}) /\ x.out \in {"done", "wait", "threw"}
    <2>1. PlayerOK(r.p) /\ Within(P, r.p, {}) /\ r.out \in {"done", "threw"}
      BY FlushOK
    <2>2. CASE x = r
      BY <2>1, <2>2
    <2>3. CASE x \in IdleTurn(r.p)
      <3>1. PlayerOK(x.p) /\ Within(r.p, x.p, {}) /\ x.out \in {"done", "wait", "threw"}
        BY <2>1, <2>3, IdleTurnOK
      <3>2. Within(P, x.p, {} \cup {})
        BY <2>1, <3>1, WithinTrans
      <3> QED BY <3>1, <3>2 DEF Within
    <2> QED BY <1>4, <2>2, <2>3
  <1> QED BY <1>1, <1>2, <1>3, <1>4

\* Nothing of the driver's is freed by the destruction of a player whose storage
\* has been leaked or handed back.
LEMMA DestroyedOK ==
  ASSUME NEW P, PlayerType(P), P.driver \subseteq P.leaked, P.sink # "WaveOut" => P.driver = {}
  PROVE  PlayerOK(Destroyed(P)) /\ Audio(Destroyed(P)) = {}
         /\ Destroyed(P).epoch = P.epoch /\ Destroyed(P).sink = P.sink
  <1> DEFINE Q == Destroyed(P)
  <1>1. /\ Q.buffers = <<>> /\ Q.driver = P.driver /\ Q.returned = 0
        /\ Q.sink = P.sink /\ Q.epoch = P.epoch /\ Q.unhealthy = P.unhealthy
        /\ Q.pending = <<>> /\ Q.orphaned = {} /\ Q.leaked = P.leaked
    BY DEF Destroyed, PlayerType
  <1>2. PlayerType(Q)
    <2>1. <<>> \in Seq(Chunks) /\ 0 <= Len(<<>>) /\ {} \in SUBSET Chunks
      OBVIOUS
    <2>2. Q.returned <= Len(Q.buffers)
      BY <1>1, <2>1
    <2> QED BY <2>1, <2>2 DEF Destroyed, PlayerType
  <1> HIDE DEF Q
  <1>3. PlayerInv(Q)
    BY <1>1 DEF PlayerInv
  <1>4. Audio(Q) = {}
    BY <1>1, RangeOfEmpty DEF Audio
  <1> QED BY <1>1, <1>2, <1>3, <1>4 DEF Q, PlayerOK

LEMMA AbandonOK ==
  ASSUME NEW P, PlayerOK(P)
  PROVE  /\ PlayerType(Abandon(P)) /\ Abandon(P).driver \subseteq Abandon(P).leaked
         /\ Abandon(P).driver = P.driver /\ Abandon(P).sink = P.sink
         /\ Abandon(P).epoch = P.epoch
  <1> DEFINE Q == Abandon(P)
             L == P.leaked \cup Range(P.buffers) \cup Range(P.pending) \cup P.orphaned
  <1>1. Q.driver = P.driver /\ Q.leaked = L /\ Q.sink = P.sink /\ Q.epoch = P.epoch
        /\ Q.returned = 0 /\ Q.buffers = <<>>
    BY DEF Abandon, PlayerOK, PlayerType
  <1>2. L \in SUBSET Chunks
    BY EntriesAreChunks DEF PlayerOK, PlayerType
  <1>3. PlayerType(Q)
    <2>1. <<>> \in Seq(Chunks) /\ 0 <= Len(<<>>) /\ {} \in SUBSET Chunks
      OBVIOUS
    <2>2. Q.returned <= Len(Q.buffers)
      BY <1>1, <2>1
    <2>3. Q = [P EXCEPT !.leaked = L, !.buffers = <<>>, !.returned = 0, !.pending = <<>>,
                        !.orphaned = {}, !.open = FALSE]
      BY DEF Abandon, PlayerOK, PlayerType
    <2> HIDE DEF Q, L
    <2> QED BY <2>1, <2>2, <2>3, <1>2 DEF PlayerOK, PlayerType
  <1> HIDE DEF Q
  <1> QED BY <1>1, <1>3 DEF Q, PlayerOK, PlayerInv

\* close_noexcept and the destructor.
LEMMA CloseOK ==
  ASSUME NEW P, PlayerOK(P), NEW resetOk, NEW Q \in Close(P, resetOk),
         resetOk => P.unhealthy \/ P.buffers = <<>>
  PROVE  PlayerOK(Q) /\ Audio(Q) = {} /\ Q.sink = P.sink /\ Q.epoch = P.epoch
  <1>1. ASSUME NEW R, PlayerOK(R), R.sink = P.sink, R.epoch = P.epoch,
               Q = Destroyed(Abandon(R))
        PROVE  PlayerOK(Q) /\ Audio(Q) = {} /\ Q.sink = P.sink /\ Q.epoch = P.epoch
    <2> DEFINE A == Abandon(R)
    <2>1. /\ PlayerType(A) /\ A.driver \subseteq A.leaked /\ A.driver = R.driver
          /\ A.sink = R.sink /\ A.epoch = R.epoch
      BY <1>1, AbandonOK
    <2> HIDE DEF A
    <2>2. A.sink # "WaveOut" => A.driver = {}
      BY <1>1, <2>1 DEF PlayerOK, PlayerInv
    <2>3. Q = Destroyed(A)
      BY <1>1 DEF A
    <2> QED BY <1>1, <2>1, <2>2, <2>3, DestroyedOK
  <1>2. CASE Q = Destroyed(Abandon([P EXCEPT !.unhealthy = TRUE]))
    <2> DEFINE R == [P EXCEPT !.unhealthy = TRUE]
    <2>1. /\ R.buffers = P.buffers /\ R.driver = P.driver
          /\ R.sink = P.sink /\ R.epoch = P.epoch /\ R.unhealthy = TRUE
          /\ R.open = P.open /\ R.pending = P.pending /\ R.orphaned = P.orphaned
          /\ R.leaked = P.leaked /\ R.returned = P.returned
      BY DEF PlayerOK, PlayerType
    <2>2. PlayerType(R)
      BY DEF PlayerOK, PlayerType
    <2> HIDE DEF R
    <2>3. PlayerOK(R)
      BY <2>1, <2>2 DEF PlayerOK, PlayerInv
    <2>4. Q = Destroyed(Abandon(R))
      BY <1>2 DEF R
    <2> QED BY <1>1, <2>1, <2>3, <2>4
  <1>3. CASE Q = Destroyed(Abandon(FailedUnhealthy(P)))
    BY <1>1, <1>3, FailedOK DEF Within
  <1>4. CASE resetOk /\ ~P.unhealthy /\ Q = Destroyed(P)
    <2>1. P.buffers = <<>> /\ P.orphaned = {}
      BY <1>4 DEF PlayerOK, PlayerInv
    <2>2. P.driver \subseteq P.leaked /\ (P.sink # "WaveOut" => P.driver = {})
      BY <2>1, RangeOfEmpty DEF PlayerOK, PlayerInv
    <2> QED BY <1>4, <2>2, DestroyedOK DEF PlayerOK
  <1> QED BY <1>2, <1>3, <1>4 DEF Close

LEMMA ReturnedOK ==
  ASSUME NEW P, PlayerOK(P), CanReturn(P)
  PROVE  /\ PlayerOK(Returned(P)) /\ Within(P, Returned(P), {})
         /\ Returned(P).buffers = P.buffers /\ Returned(P).pending = P.pending
         /\ Returned(P).returned = P.returned + 1
  <1> DEFINE Q == Returned(P)
  <1>1. /\ Q.buffers = P.buffers /\ Q.driver = P.driver
        /\ Q.sink = P.sink /\ Q.epoch = P.epoch /\ Q.unhealthy = P.unhealthy
        /\ Q.open = P.open /\ Q.pending = P.pending /\ Q.orphaned = P.orphaned
        /\ Q.leaked = P.leaked /\ Q.returned = P.returned + 1
    BY DEF Returned, PlayerOK, PlayerType
  <1>2. PlayerType(Q)
    <2>1. P.returned + 1 \in Nat /\ P.returned + 1 <= Len(P.buffers)
      BY LenProperties DEF CanReturn, PlayerOK, PlayerType
    <2>2. Q.returned <= Len(Q.buffers)
      BY <2>1, <1>1
    <2> QED BY <2>1, <2>2 DEF Returned, PlayerOK, PlayerType
  <1> HIDE DEF Q
  <1>3. PlayerInv(Q)
    BY <1>1 DEF PlayerOK, PlayerInv
  <1>4. Within(P, Q, {})
    BY <1>1 DEF Within, Audio
  <1> QED BY <1>1, <1>2, <1>3, <1>4 DEF Q, PlayerOK
-----------------------------------------------------------------------------
(***************************************************************************)
(* The program.  Main inside cancel_active_request or the destructor has   *)
(* one of CallKinds; what it does once the player is being destroyed, all  *)
(* callbacks have ended, so that the destructor's reset is the last one.   *)
(***************************************************************************)
CallKinds == {"prompt", "text", "submit", "oneshot", "quit", "timeout", "closing"}
CallLabels == {"claim", "chain", "interrupt", "drain", "enqueue", "cancelled"}
MainLabels == CallLabels \cup
  {"prompt", "prepare", "submit", "send", "await", "flush", "stop", "unwind", "destroy",
   "close", "abandon", "gone"}
CallbackLabels ==
  {"idle", "enter", "process", "enqueue", "complete", "fail", "chain", "reset", "drain",
   "note"}
Labels == MainLabels \cup CallbackLabels
Kinds == CallKinds \cup
  {"none", "success", "failure", "audio", "completed", "cancelled", "error", "failed"}
Locals == [r : Nat, kind : Kinds, out : Seq(Chunks), drain : Nat, resumed : BOOLEAN,
           keep : Nat]

DataType ==
  /\ opts \in [mode : Modes, fade : BOOLEAN]
  /\ active \in Nat /\ next \in Nat
  /\ chain \in [Requests -> [held : Nat, finished : BOOLEAN]]
  /\ ep \in [Requests -> Nat] /\ sent \in [Requests -> Nat]
  /\ owner \in [Requests -> Clients \cup {"none"}]
  /\ req \in [Requests -> {"new", "live", "ended"}]
  /\ shot \in {"open", "success", "failure"}
  /\ lines \in Nat /\ heard \in Seq(Nat)

ThreadType == pc \in [Threads -> Labels] /\ loc \in [Threads -> Locals]

CallbackPlace ==
  \A d \in Clients :
    pc[d] \in CallbackLabels /\ (pc[d] = "idle" \/ loc[d].r \in Requests)

MainPlace ==
  /\ pc["main"] \in MainLabels
  /\ pc["main"] \in CallLabels => loc["main"].kind \in CallKinds

MainClosing ==
  /\ loc["main"].kind = "closing" =>
       /\ pc["main"] \in {"destroy", "drain", "enqueue", "cancelled", "close", "abandon"}
       /\ loc["main"].out = <<>>
       /\ Quiet
       /\ pc["main"] = "drain" => loc["main"].drain = p.epoch
       /\ pc["main"] \in {"enqueue", "cancelled", "close"} => p.unhealthy \/ p.buffers = <<>>
  /\ pc["main"] \in {"destroy", "close"} => loc["main"].kind = "closing"

PlayInv ==
  /\ DataType /\ ThreadType /\ PlayerOK(p)
  /\ CallbackPlace /\ MainPlace /\ MainClosing

LEMMA Constants ==
  /\ "main" \notin Clients /\ Modes \subseteq {"interactive", "oneshot"}
  /\ MaxRequests \in Nat /\ MaxLines \in Nat /\ MaxFaults \in Nat
  /\ Requests \subseteq Nat /\ \A d \in Clients : d \in Threads /\ d # "main"
  /\ "main" \in Threads
  BY PlayAppAssumption DEF Requests, Threads

LEMMA NoLocals == NoLoc \in Locals /\ NoLoc.kind = "none" /\ NoLoc.out = <<>>
                  /\ NoLoc.r = 0 /\ NoLoc.resumed = FALSE /\ NoLoc.drain = 0
  <1>1. <<>> \in Seq(Chunks)
    OBVIOUS
  <1> QED BY <1>1 DEF NoLoc, Locals, Kinds, None

\* One thread moves.
LEMMA ThreadMoves ==
  ASSUME ThreadType, NEW t \in Threads, NEW label \in Labels, NEW l \in Locals,
         Resume(t, label, l)
  PROVE  /\ ThreadType' /\ pc'[t] = label
         /\ label \in {"idle", "prompt", "gone"} => loc'[t] = NoLoc
         /\ label \notin {"idle", "prompt", "gone"} => loc'[t] = l
         /\ \A u \in Threads : u # t => pc'[u] = pc[u] /\ loc'[u] = loc[u]
  <1>1. \/ label \in {"idle", "prompt", "gone"} /\ loc' = [loc EXCEPT ![t] = NoLoc]
        \/ label \notin {"idle", "prompt", "gone"} /\ loc' = [loc EXCEPT ![t] = l]
    BY DEF Resume
  <1>2. pc' = [pc EXCEPT ![t] = label]
    BY DEF Resume
  <1>3. pc'[t] = label /\ \A u \in Threads : u # t => pc'[u] = pc[u]
    BY <1>2 DEF ThreadType
  <1>4. pc' \in [Threads -> Labels]
    BY <1>2 DEF ThreadType
  <1>5. /\ loc' \in [Threads -> Locals]
        /\ label \in {"idle", "prompt", "gone"} => loc'[t] = NoLoc
        /\ label \notin {"idle", "prompt", "gone"} => loc'[t] = l
        /\ \A u \in Threads : u # t => loc'[u] = loc[u]
    BY <1>1, NoLocals DEF ThreadType
  <1> QED BY <1>3, <1>4, <1>5 DEF ThreadType

\* A callback moves: not while the player is being destroyed.
LEMMA CallbackMoves ==
  ASSUME PlayInv, NEW d \in Clients, NEW label \in CallbackLabels, NEW l \in Locals,
         Resume(d, label, l), label = "idle" \/ l.r \in Requests,
         loc["main"].kind # "closing"
  PROVE  ThreadType' /\ CallbackPlace' /\ MainPlace' /\ MainClosing'
  <1>1. d \in Threads /\ "main" \in Threads /\ d # "main" /\ label \in Labels
    BY Constants DEF Labels
  <1>2. /\ ThreadType' /\ pc'[d] = label
        /\ label \in {"idle", "prompt", "gone"} => loc'[d] = NoLoc
        /\ label \notin {"idle", "prompt", "gone"} => loc'[d] = l
        /\ \A u \in Threads : u # d => pc'[u] = pc[u] /\ loc'[u] = loc[u]
    BY <1>1, ThreadMoves DEF PlayInv
  <1>3. pc'["main"] = pc["main"] /\ loc'["main"] = loc["main"]
    BY <1>1, <1>2
  <1>4. CallbackPlace'
    <2> SUFFICES ASSUME NEW e \in Clients
                 PROVE  /\ pc'[e] \in CallbackLabels
                        /\ pc'[e] = "idle" \/ loc'[e].r \in Requests
      BY DEF CallbackPlace, Requests
    <2>1. CASE e = d
      BY <1>2, <2>1 DEF CallbackLabels
    <2>2. CASE e # d
      BY <1>2, <2>2, Constants DEF PlayInv, CallbackPlace
    <2> QED BY <2>1, <2>2
  <1>5. MainPlace'
    BY <1>3 DEF PlayInv, MainPlace
  <1>6. MainClosing'
    BY <1>3 DEF PlayInv, MainClosing
  <1> QED BY <1>2, <1>4, <1>5, <1>6

\* The main thread moves, not within the destructor.
LEMMA MainMoves ==
  ASSUME PlayInv, NEW label \in MainLabels, NEW l \in Locals, Resume("main", label, l),
         label \in CallLabels => l.kind \in CallKinds,
         l.kind # "closing" \/ label \in {"prompt", "gone"}, label \notin {"destroy", "close"}
  PROVE  ThreadType' /\ CallbackPlace' /\ MainPlace' /\ MainClosing'
         /\ \A d \in Clients : pc'[d] = pc[d] /\ loc'[d] = loc[d]
  <1>1. "main" \in Threads /\ label \in Labels
    BY Constants DEF Labels
  <1>2. /\ ThreadType' /\ pc'["main"] = label
        /\ label \in {"idle", "prompt", "gone"} => loc'["main"] = NoLoc
        /\ label \notin {"idle", "prompt", "gone"} => loc'["main"] = l
        /\ \A u \in Threads : u # "main" => pc'[u] = pc[u] /\ loc'[u] = loc[u]
    BY <1>1, ThreadMoves DEF PlayInv
  <1>3. \A d \in Clients : pc'[d] = pc[d] /\ loc'[d] = loc[d]
    BY <1>2, Constants
  <1>4. CallbackPlace'
    BY <1>3 DEF PlayInv, CallbackPlace, Requests
  <1>5. MainPlace'
    BY <1>2 DEF MainPlace, CallLabels
  <1>6. loc'["main"].kind # "closing"
    BY <1>2, NoLocals
  <1>7. MainClosing'
    BY <1>2, <1>6 DEF MainClosing
  <1> QED BY <1>2, <1>3, <1>4, <1>5, <1>7

\* No callback runs, and none is delivered, once the destructor does.
LEMMA CallbacksGone ==
  ASSUME PlayInv, NEW d \in Clients, pc[d] # "idle" \/ \E r \in Requests : req[r] = "live"
  PROVE  loc["main"].kind # "closing"
  BY DEF PlayInv, MainClosing, Quiet
\* A step that leaves all but the threads, and perhaps the player, as it was.
LEMMA DataKept ==
  ASSUME DataType, AppUnchanged
  PROVE  DataType'
  BY DEF DataType, AppUnchanged, Requests

LEMMA DeliverInv ==
  ASSUME PlayInv, NEW d \in Clients, Deliver(d)
  PROVE  PlayInv'
  <1>1. PICK r \in Requests, kind \in {"audio", "completed", "cancelled", "error"} :
          /\ req[r] = "live" /\ owner[r] = d
          /\ sent' = IF kind = "audio" THEN [sent EXCEPT ![r] = @ + 1] ELSE sent
          /\ req' = IF kind = "audio" THEN req ELSE [req EXCEPT ![r] = "ended"]
          /\ Resume(d, "enter", [NoLoc EXCEPT !.r = r, !.kind = kind])
    BY DEF Deliver
  <1> DEFINE l == [NoLoc EXCEPT !.r = r, !.kind = kind]
  <1>2. l \in Locals /\ l.r = r
    BY NoLocals, Constants DEF Locals, Kinds
  <1>3. Resume(d, "enter", l)
    BY <1>1
  <1> HIDE DEF l
  <1>4. ThreadType' /\ CallbackPlace' /\ MainPlace' /\ MainClosing'
    BY <1>1, <1>2, <1>3, CallbackMoves, CallbacksGone DEF CallbackLabels
  <1>5. sent' \in [Requests -> Nat]
    <2>1. sent \in [Requests -> Nat] /\ sent[r] + 1 \in Nat
      BY DEF PlayInv, DataType
    <2>2. sent' = sent \/ sent' = [sent EXCEPT ![r] = sent[r] + 1]
      BY <1>1
    <2> QED BY <2>1, <2>2
  <1>6. req' \in [Requests -> {"new", "live", "ended"}]
    BY <1>1 DEF PlayInv, DataType
  <1>7. UNCHANGED <<opts, p, active, next, chain, ep, owner, shot, lines, heard>>
    BY DEF Deliver
  <1>8. DataType'
    BY <1>5, <1>6, <1>7 DEF PlayInv, DataType, Requests
  <1> QED BY <1>4, <1>7, <1>8 DEF PlayInv

\* A callback step that only moves its thread.
LEMMA CallbackGoes ==
  ASSUME PlayInv, NEW d \in Clients, NEW label \in CallbackLabels, pc[d] # "idle",
         Goto(d, label)
  PROVE  ThreadType' /\ CallbackPlace' /\ MainPlace' /\ MainClosing'
  <1>1. loc[d] \in Locals /\ loc[d].r \in Requests
    BY Constants DEF PlayInv, ThreadType, CallbackPlace
  <1> QED BY <1>1, CallbackMoves, CallbacksGone DEF Goto

LEMMA EnterActiveInv ==
  ASSUME PlayInv, NEW d \in Clients, EnterActive(d)
  PROVE  PlayInv'
  <1>1. pc[d] # "idle" /\ p' = p /\ AppUnchanged
        /\ (Goto(d, "idle") \/ Goto(d, "process") \/ Goto(d, "fail"))
    BY DEF EnterActive
  <1>2. ThreadType' /\ CallbackPlace' /\ MainPlace' /\ MainClosing'
    BY <1>1, CallbackGoes DEF CallbackLabels
  <1> QED BY <1>1, <1>2, DataKept DEF PlayInv

LEMMA EnterTerminalInv ==
  ASSUME PlayInv, NEW d \in Clients, EnterTerminal(d)
  PROVE  PlayInv'
  <1>1. pc[d] # "idle" /\ (Goto(d, "chain") \/ Goto(d, "note"))
        /\ (active' = None \/ active' = active)
        /\ UNCHANGED <<opts, p, next, chain, ep, owner, req, sent, shot, lines, heard>>
    BY DEF EnterTerminal
  <1>2. ThreadType' /\ CallbackPlace' /\ MainPlace' /\ MainClosing'
    BY <1>1, CallbackGoes DEF CallbackLabels
  <1>3. DataType'
    BY <1>1 DEF PlayInv, DataType, Requests, None
  <1> QED BY <1>1, <1>2, <1>3 DEF PlayInv

\* What the chain of post-processors puts out.
LEMMA ChainTypes ==
  ASSUME NEW c \in [held : Nat, finished : BOOLEAN], NEW n \in Nat
  PROVE  /\ ProcessOut(c, n) \in Seq(Nat) /\ FinishOut(c) \in Seq(Nat)
         /\ ProcessNext(c, n) \in [held : Nat, finished : BOOLEAN]
         /\ FinishNext \in [held : Nat, finished : BOOLEAN]
         /\ FreshChain \in [held : Nat, finished : BOOLEAN]
  <1>1. <<>> \in Seq(Nat) /\ <<n>> \in Seq(Nat) /\ <<c.held>> \in Seq(Nat)
    OBVIOUS
  <1> QED BY <1>1 DEF ProcessOut, FinishOut, ProcessNext, FinishNext, FreshChain

LEMMA ChunksOfNumbers ==
  ASSUME NEW ns \in Seq(Nat), NEW r \in Nat, NEW e \in Nat
  PROVE  /\ [i \in 1..Len(ns) |-> Chunk(r, ns[i], e)] \in Seq(Chunks)
         /\ Len([i \in 1..Len(ns) |-> Chunk(r, ns[i], e)]) = Len(ns)
  <1>1. Len(ns) \in Nat /\ \A i \in 1..Len(ns) : ns[i] \in Nat
    BY LenProperties
  <1>2. \A i \in 1..Len(ns) : Chunk(r, ns[i], e) \in Chunks
    BY <1>1 DEF Chunk, Chunks
  <1> DEFINE s == [i \in 1..Len(ns) |-> Chunk(r, ns[i], e)]
  <1>3. s \in [1..Len(ns) -> Chunks]
    BY <1>2
  <1>4. s \in Seq(Chunks)
    BY <1>1, <1>3, SeqDef
  <1>5. DOMAIN s = 1..Len(ns) /\ DOMAIN s = 1..Len(s) /\ Len(s) \in Nat
    BY <1>4, LenProperties
  <1> HIDE DEF s
  <1>6. Len(s) = Len(ns)
    BY <1>1, <1>5
  <1> QED BY <1>4, <1>6 DEF s

LEMMA ProcessInv ==
  ASSUME PlayInv, NEW d \in Clients, Process(d)
  PROVE  PlayInv'
  <1> DEFINE r == loc[d].r
             ns == IF loc[d].kind = "audio" THEN ProcessOut(chain[r], sent[r])
                   ELSE FinishOut(chain[r])
             out == [i \in 1..Len(ns) |-> Chunk(r, ns[i], ep[r])]
             l == [loc[d] EXCEPT !.out = out]
  <1>1. /\ pc[d] = "process"
        /\ chain' = [chain EXCEPT ![r] = IF loc[d].kind = "audio"
                                         THEN ProcessNext(chain[r], sent[r]) ELSE FinishNext]
        /\ Resume(d, "enqueue", l)
        /\ UNCHANGED <<opts, p, active, next, ep, owner, req, sent, shot, lines, heard>>
    BY DEF Process
  <1>2. /\ r \in Requests /\ loc[d] \in Locals /\ r \in Nat /\ ep[r] \in Nat /\ sent[r] \in Nat
        /\ chain[r] \in [held : Nat, finished : BOOLEAN]
    BY <1>1, Constants DEF PlayInv, ThreadType, CallbackPlace, DataType
  <1>3. ns \in Seq(Nat)
    BY <1>2, ChainTypes
  <1>4. out \in Seq(Chunks)
    <2> HIDE DEF ns, r
    <2> QED BY <1>2, <1>3, ChunksOfNumbers
  <1> HIDE DEF ns, out
  <1>5. l \in Locals /\ l.r = r
    BY <1>2, <1>4 DEF Locals
  <1>6. ThreadType' /\ CallbackPlace' /\ MainPlace' /\ MainClosing'
    <2> HIDE DEF l, r
    <2> QED BY <1>1, <1>2, <1>5, CallbackMoves, CallbacksGone DEF CallbackLabels
  <1> HIDE DEF r
  <1>7. chain' \in [Requests -> [held : Nat, finished : BOOLEAN]]
    <2>1. PICK c \in [held : Nat, finished : BOOLEAN] : chain' = [chain EXCEPT ![r] = c]
      BY <1>1, <1>2, ChainTypes
    <2> QED BY <2>1 DEF PlayInv, DataType
  <1>8. DataType'
    BY <1>1, <1>7 DEF PlayInv, DataType, Requests
  <1> QED BY <1>1, <1>6, <1>8 DEF PlayInv

\* A call of enqueue with outcome x, after which the thread has locals l.
EnqueueTurn(t, handler, x, l) ==
  /\ loc[t].out # <<>> /\ Head(loc[t].out) \in Chunks
  /\ x \in Enqueue(p, Head(loc[t].out), loc[t].resumed)
  /\ p' = x.p
  /\ l \in Locals
  /\ l = [loc[t] EXCEPT !.resumed = (x.out = "wait"),
                        !.out = IF x.out \in {"done", "late"}
                                THEN Tail(loc[t].out) ELSE loc[t].out]
  /\ Resume(t, IF x.out = "threw" THEN handler ELSE "enqueue", l)

LEMMA EnqueueNextStep ==
  ASSUME PlayInv, NEW t \in Threads, NEW after, NEW handler, EnqueueNext(t, after, handler)
  PROVE  /\ pc[t] = "enqueue" /\ AppUnchanged
         /\ \/ loc[t].out = <<>> /\ Goto(t, after) /\ p' = p
            \/ \E x, l : EnqueueTurn(t, handler, x, l)
  <1>1. pc[t] = "enqueue" /\ AppUnchanged
    BY DEF EnqueueNext
  <1>2. loc[t] \in Locals
    BY DEF PlayInv, ThreadType
  <1>3. CASE loc[t].out = <<>>
    BY <1>1, <1>3 DEF EnqueueNext
  <1>4. CASE loc[t].out # <<>>
    <2>1. PICK x \in Enqueue(p, Head(loc[t].out), loc[t].resumed) :
            /\ p' = x.p
            /\ Resume(t, IF x.out = "threw" THEN handler ELSE "enqueue",
                      [loc[t] EXCEPT !.resumed = (x.out = "wait"),
                                     !.out = IF x.out \in {"done", "late"}
                                             THEN Tail(@) ELSE @])
      BY <1>4 DEF EnqueueNext
    <2>2. loc[t].out \in Seq(Chunks)
      BY <1>2 DEF Locals
    <2>3. Head(loc[t].out) \in Chunks /\ Tail(loc[t].out) \in Seq(Chunks)
      BY <1>4, <2>2, HeadAndTail
    <2> DEFINE out == IF x.out \in {"done", "late"} THEN Tail(loc[t].out) ELSE loc[t].out
               l == [loc[t] EXCEPT !.resumed = (x.out = "wait"), !.out = out]
    <2>4. out \in Seq(Chunks)
      BY <2>2, <2>3
    <2>5. Resume(t, IF x.out = "threw" THEN handler ELSE "enqueue", l)
      BY <2>1
    <2>6. l \in Locals
      <3> HIDE DEF out
      <3> QED BY <1>2, <2>4 DEF Locals
    <2> HIDE DEF l
    <2>7. EnqueueTurn(t, handler, x, l)
      BY <1>4, <2>1, <2>3, <2>5, <2>6 DEF l, EnqueueTurn
    <2> QED BY <1>1, <2>7
  <1> QED BY <1>3, <1>4
LEMMA CallbackEnqueueInv ==
  ASSUME PlayInv, NEW d \in Clients, CallbackEnqueue(d)
  PROVE  PlayInv'
  <1>1. PICK after \in {"idle", "complete", "note"}, handler \in {"fail", "note"} :
          EnqueueNext(d, after, handler)
    <2> DEFINE kind == loc[d].kind
               after == CASE kind = "audio" -> "idle" [] kind = "completed" -> "complete"
                          [] OTHER -> "note"
               handler == IF kind \in {"audio", "completed"} THEN "fail" ELSE "note"
    <2>1. EnqueueNext(d, after, handler)
      BY Zenon DEF CallbackEnqueue
    <2>2. after \in {"idle", "complete", "note"}
      <3>1. CASE kind = "audio"
        <4>1. after = "idle"
          BY <3>1, Zenon
        <4> QED BY <4>1
      <3>2. CASE kind = "completed"
        <4>1. after = "complete"
          BY <3>2, Zenon
        <4> QED BY <4>1
      <3>3. CASE kind # "audio" /\ kind # "completed"
        <4>1. after = "note"
          BY <3>3, Zenon
        <4> QED BY <4>1
      <3> QED BY <3>1, <3>2, <3>3
    <2>3. handler \in {"fail", "note"}
      OBVIOUS
    <2> HIDE DEF after, handler
    <2> QED BY <2>1, <2>2, <2>3
  <1>2. d \in Threads
    BY Constants
  <1>3. pc[d] = "enqueue" /\ AppUnchanged
    BY <1>1 DEF EnqueueNext
  <1>4. CASE loc[d].out = <<>> /\ Goto(d, after) /\ p' = p
    <2>1. ThreadType' /\ CallbackPlace' /\ MainPlace' /\ MainClosing'
      BY <1>3, <1>4, CallbackGoes DEF CallbackLabels
    <2> QED BY <1>3, <1>4, <2>1, DataKept DEF PlayInv
  <1>5. ASSUME NEW x, NEW l, EnqueueTurn(d, handler, x, l)
        PROVE  PlayInv'
    <2>1. PlayerOK(p')
      BY <1>5, EnqueueOK DEF PlayInv, EnqueueTurn
    <2>2. loc[d] \in Locals /\ loc[d].r \in Requests
      BY <1>2, <1>3 DEF PlayInv, ThreadType, CallbackPlace
    <2>3. l.r \in Requests
      BY <1>5, <2>2 DEF Locals, EnqueueTurn
    <2>4. PICK label \in {"fail", "note", "enqueue"} : Resume(d, label, l)
      BY <1>5 DEF EnqueueTurn
    <2>5. ThreadType' /\ CallbackPlace' /\ MainPlace' /\ MainClosing'
      BY <1>3, <1>5, <2>3, <2>4, CallbackMoves, CallbacksGone DEF CallbackLabels, EnqueueTurn
    <2> QED BY <1>3, <2>1, <2>5, DataKept DEF PlayInv
  <1> QED BY <1>1, <1>2, <1>4, <1>5, EnqueueNextStep

LEMMA CompleteInv ==
  ASSUME PlayInv, NEW d \in Clients, Complete(d)
  PROVE  PlayInv'
  <1>1. pc[d] # "idle" /\ Goto(d, "idle") /\ (active' = None \/ active' = active)
        /\ (shot' = "success" \/ shot' = shot)
        /\ UNCHANGED <<opts, p, next, chain, ep, owner, req, sent, lines, heard>>
    BY DEF Complete
  <1>2. ThreadType' /\ CallbackPlace' /\ MainPlace' /\ MainClosing'
    BY <1>1, CallbackGoes DEF CallbackLabels
  <1>3. DataType'
    BY <1>1 DEF PlayInv, DataType, Requests, None
  <1> QED BY <1>1, <1>2, <1>3 DEF PlayInv

LEMMA FailInv ==
  ASSUME PlayInv, NEW d \in Clients, Fail(d)
  PROVE  PlayInv'
  <1> DEFINE l == [loc[d] EXCEPT !.kind = "failed"]
  <1>1. pc[d] = "fail" /\ (active' = None \/ active' = active)
        /\ (Resume(d, "reset", l) \/ Goto(d, "idle"))
        /\ UNCHANGED <<opts, p, next, chain, ep, owner, req, sent, shot, lines, heard>>
    BY DEF Fail
  <1>2. loc[d] \in Locals /\ loc[d].r \in Requests
    BY <1>1, Constants DEF PlayInv, ThreadType, CallbackPlace
  <1>3. l \in Locals /\ l.r \in Requests
    BY <1>2 DEF Locals, Kinds
  <1> HIDE DEF l
  <1>4. ThreadType' /\ CallbackPlace' /\ MainPlace' /\ MainClosing'
    <2>1. CASE Resume(d, "reset", l)
      BY <1>1, <1>3, <2>1, CallbackMoves, CallbacksGone DEF CallbackLabels
    <2>2. CASE Goto(d, "idle")
      BY <1>1, <2>2, CallbackGoes DEF CallbackLabels
    <2> QED BY <1>1, <2>1, <2>2
  <1>5. DataType'
    BY <1>1 DEF PlayInv, DataType, Requests, None
  <1> QED BY <1>1, <1>4, <1>5 DEF PlayInv

LEMMA FreshChains ==
  ASSUME DataType, NEW r, chain' = [chain EXCEPT ![r] = FreshChain]
  PROVE  chain' \in [Requests -> [held : Nat, finished : BOOLEAN]]
  BY DEF DataType, FreshChain

LEMMA CallbackChainResetInv ==
  ASSUME PlayInv, NEW d \in Clients, CallbackChainReset(d)
  PROVE  PlayInv'
  <1>1. pc[d] # "idle" /\ Goto(d, "reset")
        /\ chain' = [chain EXCEPT ![loc[d].r] = FreshChain]
        /\ UNCHANGED <<opts, p, active, next, ep, owner, req, sent, shot, lines, heard>>
    BY DEF CallbackChainReset
  <1>2. ThreadType' /\ CallbackPlace' /\ MainPlace' /\ MainClosing'
    BY <1>1, CallbackGoes DEF CallbackLabels
  <1>3. chain' \in [Requests -> [held : Nat, finished : BOOLEAN]]
    BY <1>1, FreshChains DEF PlayInv
  <1>4. DataType'
    BY <1>1, <1>3 DEF PlayInv, DataType, Requests
  <1> QED BY <1>1, <1>2, <1>4 DEF PlayInv

LEMMA NoteInv ==
  ASSUME PlayInv, NEW d \in Clients, Note(d)
  PROVE  PlayInv'
  <1>1. pc[d] # "idle" /\ Goto(d, "idle") /\ (shot' = "failure" \/ shot' = shot)
        /\ UNCHANGED <<opts, p, active, next, chain, ep, owner, req, sent, lines, heard>>
    BY DEF Note
  <1>2. ThreadType' /\ CallbackPlace' /\ MainPlace' /\ MainClosing'
    BY <1>1, CallbackGoes DEF CallbackLabels
  <1>3. DataType'
    BY <1>1 DEF PlayInv, DataType, Requests
  <1> QED BY <1>1, <1>2, <1>3 DEF PlayInv

\* Where a reset goes on.
LEMMA AfterResets ==
  ASSUME NEW out, NEW handler
  PROVE  /\ out = "wait" => AfterReset(out, handler) = "drain"
         /\ out = "done" => AfterReset(out, handler) = "enqueue"
         /\ out = "threw" => AfterReset(out, handler) = handler
  <1>1. CASE out = "wait"
    <2>1. out # "done" /\ out # "threw"
      BY <1>1
    <2> QED BY <1>1, <2>1, Zenon DEF AfterReset
  <1>2. CASE out = "done"
    <2>1. out # "wait" /\ out # "threw"
      BY <1>2
    <2> QED BY <1>2, <2>1, Zenon DEF AfterReset
  <1>3. CASE out = "threw"
    <2>1. out # "wait" /\ out # "done"
      BY <1>3
    <2> QED BY <1>3, <2>1, Zenon DEF AfterReset
  <1> QED BY <1>1, <1>2, <1>3

LEMMA BeginResetStep ==
  ASSUME PlayInv, NEW t \in Threads, NEW x, NEW tail \in Nat, NEW handler,
         x.p.epoch \in Nat, BeginReset(t, x, tail, handler)
  PROVE  /\ p' = x.p
         /\ \E l \in Locals :
              /\ l.r = loc[t].r /\ l.kind = loc[t].kind /\ l.keep = loc[t].keep
              /\ l.resumed = loc[t].resumed /\ l.drain = x.p.epoch
              /\ tail = NoTail => l.out = <<>>
              /\ Resume(t, AfterReset(x.out, handler), l)
  <1> DEFINE out == IF tail = NoTail THEN <<>> ELSE <<Chunk(tail, 0, x.p.epoch)>>
             l == [loc[t] EXCEPT !.drain = x.p.epoch, !.out = out]
  <1>1. p' = x.p /\ Resume(t, AfterReset(x.out, handler), l)
    BY DEF BeginReset
  <1>2. out \in Seq(Chunks)
    <2>1. Chunk(tail, 0, x.p.epoch) \in Chunks
      BY DEF Chunk, Chunks
    <2>2. PICK c \in Chunks : c = Chunk(tail, 0, x.p.epoch)
      BY <2>1
    <2>3. <<c>> \in Seq(Chunks) /\ <<>> \in Seq(Chunks)
      OBVIOUS
    <2> QED BY <2>2, <2>3
  <1>3. tail = NoTail => out = <<>>
    OBVIOUS
  <1> HIDE DEF out
  <1>4. loc[t] \in Locals
    BY DEF PlayInv, ThreadType
  <1>5. /\ l \in Locals /\ l.r = loc[t].r /\ l.kind = loc[t].kind /\ l.keep = loc[t].keep
        /\ l.resumed = loc[t].resumed /\ l.drain = x.p.epoch /\ l.out = out
    BY <1>2, <1>4 DEF Locals
  <1> HIDE DEF l
  <1> QED BY <1>1, <1>3, <1>5

LEMMA CallbackResetStep ==
  ASSUME PlayInv, NEW d \in Clients, CallbackReset(d)
  PROVE  /\ pc[d] = "reset" /\ AppUnchanged
         /\ \E x, tail, e :
              /\ BeginReset(d, x, tail, "note") /\ tail \in Nat
              /\ x.out \in {"done", "wait", "threw"} /\ PlayerOK(x.p)
              /\ \/ p.epoch # e /\ x.p = p /\ x.out = "done"
                 \/ p.epoch = e /\ ResetResult(p, x)
              /\ e = ep[loc[d].r]
  <1>1. pc[d] = "reset" /\ AppUnchanged
    BY DEF CallbackReset
  <1> DEFINE e == ep[loc[d].r]
  <1>2. \/ \E x \in InterruptIfEpoch(p, e, opts.fade) : BeginReset(d, x, x.tail, "note")
        \/ \E x \in ResetIfEpoch(p, e) : BeginReset(d, x, NoTail, "note")
    BY DEF CallbackReset
  <1> HIDE DEF e
  <1>3. ASSUME NEW x \in InterruptIfEpoch(p, e, opts.fade), BeginReset(d, x, x.tail, "note")
        PROVE  /\ BeginReset(d, x, x.tail, "note") /\ x.tail \in Nat
               /\ x.out \in {"done", "wait", "threw"} /\ PlayerOK(x.p)
               /\ \/ p.epoch # e /\ x.p = p /\ x.out = "done"
                  \/ p.epoch = e /\ ResetResult(p, x)
    BY <1>3, InterruptIfEpochOK DEF PlayInv, ResetResult
  <1>4. ASSUME NEW x \in ResetIfEpoch(p, e), BeginReset(d, x, NoTail, "note")
        PROVE  /\ BeginReset(d, x, NoTail, "note") /\ NoTail \in Nat
               /\ x.out \in {"done", "wait", "threw"} /\ PlayerOK(x.p)
               /\ \/ p.epoch # e /\ x.p = p /\ x.out = "done"
                  \/ p.epoch = e /\ ResetResult(p, x)
    BY <1>4, ResetIfEpochOK DEF PlayInv, ResetResult, NoTail
  <1> QED BY <1>1, <1>2, <1>3, <1>4 DEF e

LEMMA CallbackResetInv ==
  ASSUME PlayInv, NEW d \in Clients, CallbackReset(d)
  PROVE  PlayInv'
  <1>1. PICK x, tail :
          /\ pc[d] = "reset" /\ AppUnchanged
          /\ BeginReset(d, x, tail, "note") /\ tail \in Nat
          /\ x.out \in {"done", "wait", "threw"} /\ PlayerOK(x.p)
    BY CallbackResetStep
  <1>2. x.p.epoch \in Nat /\ d \in Threads
    BY <1>1, Constants DEF PlayerOK, PlayerType
  <1>3. PICK l \in Locals :
          /\ p' = x.p /\ l.r = loc[d].r /\ Resume(d, AfterReset(x.out, "note"), l)
    BY <1>1, <1>2, BeginResetStep
  <1>4. AfterReset(x.out, "note") \in {"drain", "enqueue", "note"}
    BY <1>1, AfterResets
  <1>5. l.r \in Requests
    BY <1>1, <1>3 DEF PlayInv, CallbackPlace
  <1>6. ThreadType' /\ CallbackPlace' /\ MainPlace' /\ MainClosing'
    BY <1>1, <1>3, <1>4, <1>5, CallbackMoves, CallbacksGone DEF CallbackLabels
  <1> QED BY <1>1, <1>3, <1>6, DataKept DEF PlayInv

\* A turn of the loop in reset_locked, of any thread.
LEMMA DrainStep ==
  ASSUME PlayInv, NEW t \in Threads, NEW handler, Drain(t, handler)
  PROVE  /\ pc[t] = "drain" /\ AppUnchanged
         /\ \E x : /\ p' = x.p /\ x.out \in {"done", "wait", "threw"} /\ PlayerOK(x.p)
                   /\ Goto(t, AfterReset(x.out, handler))
                   /\ \/ p.epoch # loc[t].drain /\ x.p = p /\ x.out = "done"
                      \/ /\ p.epoch = loc[t].drain /\ ResetResult(p, x)
                         /\ x.p.epoch = p.epoch
  <1>1. pc[t] = "drain" /\ AppUnchanged
    BY DEF Drain
  <1>2. PICK x \in ResetResume(p, loc[t].drain) :
          p' = x.p /\ Goto(t, AfterReset(x.out, handler))
    BY DEF Drain
  <1>3. \/ p.epoch # loc[t].drain /\ x.p = p /\ x.out = "done"
        \/ p.epoch = loc[t].drain /\ ResetResult(p, x) /\ x.p.epoch = p.epoch
    BY ResetResumeOK DEF PlayInv
  <1> QED BY <1>1, <1>2, <1>3 DEF PlayInv, ResetResult

LEMMA CallbackDrainInv ==
  ASSUME PlayInv, NEW d \in Clients, CallbackDrain(d)
  PROVE  PlayInv'
  <1>1. d \in Threads /\ Drain(d, "note")
    BY Constants DEF CallbackDrain
  <1>2. PICK x : /\ pc[d] = "drain" /\ AppUnchanged
                 /\ p' = x.p /\ x.out \in {"done", "wait", "threw"} /\ PlayerOK(x.p)
                 /\ Goto(d, AfterReset(x.out, "note"))
    BY <1>1, DrainStep
  <1>3. AfterReset(x.out, "note") \in {"drain", "enqueue", "note"}
    BY <1>2, AfterResets
  <1>4. ThreadType' /\ CallbackPlace' /\ MainPlace' /\ MainClosing'
    BY <1>2, <1>3, CallbackGoes DEF CallbackLabels
  <1> QED BY <1>2, <1>4, DataKept DEF PlayInv
\* The main thread moves within the destructor.
LEMMA ClosingMoves ==
  ASSUME PlayInv, Quiet, req' = req, NEW l \in Locals, l.kind = "closing", l.out = <<>>,
         NEW label \in {"destroy", "drain", "enqueue", "cancelled", "close", "abandon"},
         Resume("main", label, l), label = "drain" => l.drain = p'.epoch,
         label \in {"enqueue", "cancelled", "close"} => p'.unhealthy \/ p'.buffers = <<>>
  PROVE  ThreadType' /\ CallbackPlace' /\ MainPlace' /\ MainClosing'
  <1>1. "main" \in Threads /\ label \in Labels /\ label \in MainLabels
    BY Constants DEF Labels, MainLabels, CallLabels
  <1>2. /\ ThreadType' /\ pc'["main"] = label
        /\ label \notin {"idle", "prompt", "gone"} => loc'["main"] = l
        /\ \A u \in Threads : u # "main" => pc'[u] = pc[u] /\ loc'[u] = loc[u]
    BY <1>1, ThreadMoves DEF PlayInv
  <1>3. loc'["main"] = l /\ \A d \in Clients : pc'[d] = pc[d] /\ loc'[d] = loc[d]
    BY <1>2, Constants
  <1>4. CallbackPlace'
    BY <1>3 DEF PlayInv, CallbackPlace, Requests
  <1>5. MainPlace'
    BY <1>1, <1>2, <1>3 DEF MainPlace, CallKinds
  <1>6. Quiet'
    BY <1>3 DEF Quiet, Requests
  <1>7. MainClosing'
    BY <1>2, <1>3, <1>6 DEF MainClosing
  <1> QED BY <1>2, <1>4, <1>5, <1>7

LEMMA MainLocals ==
  ASSUME PlayInv
  PROVE  loc["main"] \in Locals
  BY Constants DEF PlayInv, ThreadType

\* cancel_active_request is called.
LEMMA CallCancelMoves ==
  ASSUME PlayInv, NEW kind \in CallKinds \ {"closing"}, CallCancel(kind)
  PROVE  ThreadType' /\ CallbackPlace' /\ MainPlace' /\ MainClosing'
         /\ \A d \in Clients : pc'[d] = pc[d] /\ loc'[d] = loc[d]
  <1> DEFINE l == [loc["main"] EXCEPT !.kind = kind]
  <1>1. l \in Locals /\ l.kind = kind
    BY MainLocals DEF Locals, Kinds
  <1>2. Resume("main", "claim", l)
    BY DEF CallCancel
  <1> HIDE DEF l
  <1> QED BY <1>1, <1>2, MainMoves DEF MainLabels, CallLabels

LEMMA PromptInv ==
  ASSUME PlayInv, Prompt
  PROVE  PlayInv'
  <1>1. /\ lines' = lines \/ lines' = lines + 1
        /\ CallCancel("prompt") \/ CallCancel("text") \/ CallCancel("quit")
        /\ UNCHANGED <<opts, p, active, next, chain, ep, owner, req, sent, shot, heard>>
    BY DEF Prompt
  <1>2. ThreadType' /\ CallbackPlace' /\ MainPlace' /\ MainClosing'
    BY <1>1, CallCancelMoves DEF CallKinds
  <1>3. DataType'
    BY <1>1 DEF PlayInv, DataType, Requests
  <1> QED BY <1>1, <1>2, <1>3 DEF PlayInv

\* Main is not in the destructor.
LEMMA NotClosing ==
  ASSUME PlayInv,
         pc["main"] \notin {"destroy", "drain", "enqueue", "cancelled", "close", "abandon"}
  PROVE  loc["main"].kind # "closing"
  BY DEF PlayInv, MainClosing

LEMMA ClaimInv ==
  ASSUME PlayInv, Claim
  PROVE  PlayInv'
  <1> DEFINE l == [loc["main"] EXCEPT !.r = active]
  <1>1. /\ pc["main"] = "claim" /\ active' = None
        /\ Resume("main", "interrupt", l) \/ Resume("main", "chain", l)
        /\ UNCHANGED <<opts, p, next, chain, ep, owner, req, sent, shot, lines, heard>>
    BY DEF Claim
  <1>2. l \in Locals /\ l.kind = loc["main"].kind
    BY MainLocals DEF Locals, PlayInv, DataType
  <1> HIDE DEF l
  <1>3. l.kind \in CallKinds /\ l.kind # "closing"
    BY <1>1, <1>2, NotClosing DEF PlayInv, MainPlace, CallLabels
  <1>4. ThreadType' /\ CallbackPlace' /\ MainPlace' /\ MainClosing'
    BY <1>1, <1>2, <1>3, MainMoves DEF MainLabels, CallLabels
  <1>5. DataType'
    BY <1>1 DEF PlayInv, DataType, Requests, None
  <1> QED BY <1>1, <1>4, <1>5 DEF PlayInv

LEMMA ClaimedChainResetInv ==
  ASSUME PlayInv, ClaimedChainReset
  PROVE  PlayInv'
  <1> DEFINE l == [loc["main"] EXCEPT !.r = None]
  <1>1. /\ pc["main"] = "chain" /\ Resume("main", "interrupt", l)
        /\ chain' = [chain EXCEPT ![loc["main"].r] = FreshChain]
        /\ UNCHANGED <<opts, p, active, next, ep, owner, req, sent, shot, lines, heard>>
    BY DEF ClaimedChainReset
  <1>2. l \in Locals /\ l.kind = loc["main"].kind
    BY MainLocals DEF Locals, None
  <1> HIDE DEF l
  <1>3. l.kind \in CallKinds /\ l.kind # "closing"
    BY <1>1, <1>2, NotClosing DEF PlayInv, MainPlace, CallLabels
  <1>4. ThreadType' /\ CallbackPlace' /\ MainPlace' /\ MainClosing'
    BY <1>1, <1>2, <1>3, MainMoves DEF MainLabels, CallLabels
  <1>5. chain' \in [Requests -> [held : Nat, finished : BOOLEAN]]
    BY <1>1, FreshChains DEF PlayInv
  <1>6. DataType'
    BY <1>1, <1>5 DEF PlayInv, DataType, Requests
  <1> QED BY <1>1, <1>4, <1>6 DEF PlayInv

LEMMA InterruptActiveStep ==
  ASSUME PlayInv, InterruptActive
  PROVE  /\ pc["main"] = "interrupt" /\ AppUnchanged
         /\ \E x : \E l \in Locals :
              /\ p' = x.p /\ ResetResult(p, x)
              /\ l.r = loc["main"].r /\ l.kind = loc["main"].kind /\ l.drain = x.p.epoch
              /\ l.keep = loc["main"].keep
              /\ p.buffers = <<>> => l.out = <<>>
              /\ Resume("main", AfterReset(x.out, "unwind"), l)
  <1>1. pc["main"] = "interrupt" /\ AppUnchanged
    BY DEF InterruptActive
  <1>2. PICK x \in Interrupt(p, opts.fade) : BeginReset("main", x, x.tail, "unwind")
    BY DEF InterruptActive
  <1>3. ResetResult(p, x) /\ x.tail \in Nat /\ (p.buffers = <<>> => x.tail = NoTail)
    BY InterruptOK DEF PlayInv
  <1>4. x.p.epoch \in Nat /\ "main" \in Threads
    BY <1>3, Constants DEF ResetResult, PlayerOK, PlayerType
  <1>5. PICK l \in Locals :
          /\ p' = x.p
          /\ l.r = loc["main"].r /\ l.kind = loc["main"].kind /\ l.drain = x.p.epoch
          /\ l.keep = loc["main"].keep
          /\ x.tail = NoTail => l.out = <<>>
          /\ Resume("main", AfterReset(x.out, "unwind"), l)
    BY <1>2, <1>3, <1>4, BeginResetStep
  <1> QED BY <1>1, <1>3, <1>5

LEMMA InterruptActiveInv ==
  ASSUME PlayInv, InterruptActive
  PROVE  PlayInv'
  <1>1. PICK x : \E l \in Locals :
          /\ pc["main"] = "interrupt" /\ AppUnchanged
          /\ p' = x.p /\ ResetResult(p, x)
          /\ l.kind = loc["main"].kind
          /\ Resume("main", AfterReset(x.out, "unwind"), l)
    BY InterruptActiveStep
  <1>2. PICK l \in Locals :
          /\ pc["main"] = "interrupt" /\ AppUnchanged
          /\ p' = x.p /\ ResetResult(p, x)
          /\ l.kind = loc["main"].kind
          /\ Resume("main", AfterReset(x.out, "unwind"), l)
    BY <1>1
  <1>3. AfterReset(x.out, "unwind") \in {"drain", "enqueue", "unwind"}
    BY <1>2, AfterResets DEF ResetResult
  <1>4. l.kind \in CallKinds /\ l.kind # "closing"
    BY <1>2, NotClosing DEF PlayInv, MainPlace, CallLabels
  <1>5. ThreadType' /\ CallbackPlace' /\ MainPlace' /\ MainClosing'
    BY <1>2, <1>3, <1>4, MainMoves DEF MainLabels, CallLabels
  <1> QED BY <1>2, <1>5, DataKept DEF PlayInv, ResetResult

LEMMA MainDrainInv ==
  ASSUME PlayInv, MainDrain
  PROVE  PlayInv'
  <1> DEFINE handler == IF loc["main"].kind = "closing" THEN "abandon" ELSE "unwind"
  <1>1. Drain("main", handler) /\ "main" \in Threads
    BY Constants DEF MainDrain
  <1>2. PICK x : /\ pc["main"] = "drain" /\ AppUnchanged
                 /\ p' = x.p /\ x.out \in {"done", "wait", "threw"} /\ PlayerOK(x.p)
                 /\ Goto("main", AfterReset(x.out, handler))
                 /\ \/ p.epoch # loc["main"].drain /\ x.p = p /\ x.out = "done"
                    \/ /\ p.epoch = loc["main"].drain /\ ResetResult(p, x)
                       /\ x.p.epoch = p.epoch
    <2> HIDE DEF handler
    <2> QED BY <1>1, DrainStep
  <1>3. loc["main"] \in Locals /\ loc["main"].kind \in CallKinds
    BY <1>2, MainLocals DEF PlayInv, MainPlace, CallLabels
  <1>4. ThreadType' /\ CallbackPlace' /\ MainPlace' /\ MainClosing'
    <2>1. CASE loc["main"].kind # "closing"
      <3>1. AfterReset(x.out, handler) \in {"drain", "enqueue", "unwind"}
        BY <1>2, <2>1, AfterResets
      <3> HIDE DEF handler
      <3> QED BY <1>2, <1>3, <2>1, <3>1, MainMoves DEF MainLabels, CallLabels, Goto
    <2>2. CASE loc["main"].kind = "closing"
      <3>1. /\ x.out = "wait" => AfterReset(x.out, handler) = "drain"
            /\ x.out = "done" => AfterReset(x.out, handler) = "enqueue"
            /\ x.out = "threw" => AfterReset(x.out, handler) = "abandon"
        BY <2>2, AfterResets
      <3>2. /\ loc["main"].out = <<>> /\ Quiet /\ loc["main"].drain = p.epoch
        BY <1>2, <2>2 DEF PlayInv, MainClosing
      <3>3. ResetResult(p, x) /\ x.p.epoch = p.epoch /\ req' = req
        BY <1>2, <3>2 DEF AppUnchanged
      <3> HIDE DEF handler
      <3>4. PICK label \in {"drain", "enqueue", "abandon"} :
              /\ Resume("main", label, loc["main"])
              /\ label = "enqueue" => x.out = "done"
        BY <1>2, <3>1 DEF Goto
      <3>5. label \in {"enqueue", "cancelled", "close"} => p'.buffers = <<>>
        BY <1>2, <3>3, <3>4 DEF ResetResult
      <3>6. loc["main"].drain = p'.epoch
        BY <1>2, <3>2, <3>3
      <3> QED BY <1>3, <2>2, <3>2, <3>3, <3>4, <3>5, <3>6, ClosingMoves
    <2> QED BY <2>1, <2>2
  <1> QED BY <1>2, <1>4, DataKept DEF PlayInv

LEMMA MainEnqueueInv ==
  ASSUME PlayInv, MainEnqueue
  PROVE  PlayInv'
  <1>1. EnqueueNext("main", "cancelled", "unwind") /\ "main" \in Threads
    BY Constants DEF MainEnqueue
  <1>2. pc["main"] = "enqueue" /\ AppUnchanged
    BY <1>1 DEF EnqueueNext
  <1>3. loc["main"] \in Locals /\ loc["main"].kind \in CallKinds
    BY <1>2, MainLocals DEF PlayInv, MainPlace, CallLabels
  <1>4. CASE loc["main"].out = <<>> /\ Goto("main", "cancelled") /\ p' = p
    <2>1. ThreadType' /\ CallbackPlace' /\ MainPlace' /\ MainClosing'
      <3>1. CASE loc["main"].kind # "closing"
        BY <1>3, <1>4, <3>1, MainMoves DEF MainLabels, CallLabels, Goto
      <3>2. CASE loc["main"].kind = "closing"
        <4>1. Quiet /\ (p.unhealthy \/ p.buffers = <<>>) /\ req' = req
          BY <1>2, <3>2 DEF PlayInv, MainClosing, AppUnchanged
        <4>2. Resume("main", "cancelled", loc["main"])
          BY <1>4 DEF Goto
        <4>3. p'.unhealthy \/ p'.buffers = <<>>
          BY <1>4, <4>1
        <4> QED BY <1>3, <1>4, <3>2, <4>1, <4>2, <4>3, ClosingMoves
      <3> QED BY <3>1, <3>2
    <2> QED BY <1>2, <1>4, <2>1, DataKept DEF PlayInv
  <1>5. ASSUME NEW x, NEW l, EnqueueTurn("main", "unwind", x, l)
        PROVE  PlayInv'
    <2>1. PlayerOK(p')
      BY <1>5, EnqueueOK DEF PlayInv, EnqueueTurn
    <2>2. loc["main"].kind # "closing"
      BY <1>5 DEF PlayInv, MainClosing, EnqueueTurn
    <2>3. l.kind = loc["main"].kind /\ l \in Locals
      BY <1>3, <1>5 DEF Locals, EnqueueTurn
    <2>4. PICK label \in {"unwind", "enqueue"} : Resume("main", label, l)
      BY <1>5 DEF EnqueueTurn
    <2>5. ThreadType' /\ CallbackPlace' /\ MainPlace' /\ MainClosing'
      BY <1>3, <2>2, <2>3, <2>4, MainMoves DEF MainLabels, CallLabels
    <2> QED BY <1>2, <2>1, <2>5, DataKept DEF PlayInv
  <1> QED BY <1>1, <1>4, <1>5, EnqueueNextStep
LEMMA CancelledStep ==
  ASSUME PlayInv, Cancelled
  PROVE  /\ pc["main"] = "cancelled" /\ p' = p /\ AppUnchanged
         /\ loc["main"].kind \in CallKinds
         /\ \E l \in Locals :
              /\ l.kind = loc["main"].kind /\ l.out = loc["main"].out /\ l.r = loc["main"].r
              /\ l.keep = loc["main"].drain /\ l.drain = loc["main"].drain
              /\ \/ l.kind = "text" /\ Resume("main", "prepare", l)
                 \/ l.kind = "oneshot" /\ Resume("main", "submit", l)
                 \/ l.kind \in {"quit", "timeout"} /\ Goto("main", "stop")
                 \/ l.kind = "closing" /\ Goto("main", "close")
                 \/ l.kind = "prompt" /\ Goto("main", "prompt")
                 \/ l.kind = "submit" /\ Goto("main", "submit")
  <1> DEFINE m == loc["main"]
             l == [m EXCEPT !.keep = m.drain]
  <1>1. pc["main"] = "cancelled" /\ p' = p /\ AppUnchanged
        /\ CASE m.kind = "text"                -> Resume("main", "prepare", l)
             [] m.kind = "oneshot"             -> Resume("main", "submit", l)
             [] m.kind \in {"quit", "timeout"} -> Goto("main", "stop")
             [] m.kind = "closing"             -> Goto("main", "close")
             [] OTHER                          -> Goto("main", m.kind)
    BY Zenon DEF Cancelled
  <1>2. m \in Locals /\ m.kind \in CallKinds
    BY <1>1, MainLocals DEF PlayInv, MainPlace, CallLabels
  <1>3. /\ l \in Locals /\ l.kind = m.kind /\ l.out = m.out /\ l.r = m.r
        /\ l.keep = m.drain /\ l.drain = m.drain
    BY <1>2 DEF Locals
  <1> HIDE DEF l, m
  <1>4. CASE m.kind = "text"
    <2>1. m.kind # "oneshot" /\ m.kind \notin {"quit", "timeout"} /\ m.kind # "closing"
      BY <1>4
    <2>2. Resume("main", "prepare", l)
      BY <1>1, <1>4, <2>1, Zenon
    <2> QED BY <1>1, <1>2, <1>3, <1>4, <2>2 DEF m
  <1>5. CASE m.kind = "oneshot"
    <2>1. m.kind # "text" /\ m.kind \notin {"quit", "timeout"} /\ m.kind # "closing"
      BY <1>5
    <2>2. Resume("main", "submit", l)
      BY <1>1, <1>5, <2>1, Zenon
    <2> QED BY <1>1, <1>2, <1>3, <1>5, <2>2 DEF m
  <1>6. CASE m.kind \in {"quit", "timeout"}
    <2>1. m.kind # "text" /\ m.kind # "oneshot" /\ m.kind # "closing"
      BY <1>6
    <2>2. Goto("main", "stop")
      BY <1>1, <1>6, <2>1, Zenon
    <2> QED BY <1>1, <1>2, <1>3, <1>6, <2>2 DEF m
  <1>7. CASE m.kind = "closing"
    <2>1. m.kind # "text" /\ m.kind # "oneshot" /\ m.kind \notin {"quit", "timeout"}
      BY <1>7
    <2>2. Goto("main", "close")
      BY <1>1, <1>7, <2>1, Zenon
    <2> QED BY <1>1, <1>2, <1>3, <1>7, <2>2 DEF m
  <1>8. CASE m.kind \in {"prompt", "submit"}
    <2>1. /\ m.kind # "text" /\ m.kind # "oneshot" /\ m.kind \notin {"quit", "timeout"}
          /\ m.kind # "closing"
      BY <1>8
    <2>2. Goto("main", m.kind)
      BY <1>1, <2>1, Zenon
    <2>3. \/ m.kind = "prompt" /\ Goto("main", "prompt")
          \/ m.kind = "submit" /\ Goto("main", "submit")
      BY <1>8, <2>2
    <2> QED BY <1>1, <1>2, <1>3, <2>3 DEF m
  <1> QED BY <1>2, <1>4, <1>5, <1>6, <1>7, <1>8 DEF CallKinds

LEMMA CancelledInv ==
  ASSUME PlayInv, Cancelled
  PROVE  PlayInv'
  <1>1. pc["main"] = "cancelled" /\ p' = p /\ AppUnchanged
    BY CancelledStep
  <1>2. PICK l \in Locals :
          /\ l.kind = loc["main"].kind
          /\ \/ l.kind = "text" /\ Resume("main", "prepare", l)
             \/ l.kind = "oneshot" /\ Resume("main", "submit", l)
             \/ l.kind \in {"quit", "timeout"} /\ Goto("main", "stop")
             \/ l.kind = "closing" /\ Goto("main", "close")
             \/ l.kind = "prompt" /\ Goto("main", "prompt")
             \/ l.kind = "submit" /\ Goto("main", "submit")
    BY CancelledStep
  <1>3. ThreadType' /\ CallbackPlace' /\ MainPlace' /\ MainClosing'
    <2>1. CASE \/ l.kind = "text" /\ Resume("main", "prepare", l)
               \/ l.kind = "oneshot" /\ Resume("main", "submit", l)
      BY <2>1, MainMoves DEF MainLabels, CallLabels
    <2>2. CASE \/ l.kind \in {"quit", "timeout"} /\ Goto("main", "stop")
               \/ l.kind = "prompt" /\ Goto("main", "prompt")
               \/ l.kind = "submit" /\ Goto("main", "submit")
      BY <1>2, <2>2, MainMoves, MainLocals DEF MainLabels, CallLabels, Goto
    <2>3. CASE l.kind = "closing" /\ Goto("main", "close")
      <3>1. loc["main"].kind = "closing" /\ Resume("main", "close", loc["main"])
        BY <1>2, <2>3 DEF Goto
      <3>2. Quiet /\ loc["main"].out = <<>> /\ (p.unhealthy \/ p.buffers = <<>>) /\ req' = req
        BY <1>1, <3>1 DEF PlayInv, MainClosing, AppUnchanged
      <3>3. p'.unhealthy \/ p'.buffers = <<>>
        BY <1>1, <3>2
      <3> QED BY <3>1, <3>2, <3>3, MainLocals, ClosingMoves
    <2> QED BY <1>2, <2>1, <2>2, <2>3
  <1> QED BY <1>1, <1>3, DataKept DEF PlayInv

LEMMA PrepareRequestInv ==
  ASSUME PlayInv, PrepareRequest
  PROVE  PlayInv'
  <1>1. pc["main"] = "prepare" /\ p' = p /\ AppUnchanged
        /\ (CallCancel("submit") \/ Goto("main", "prompt"))
    BY DEF PrepareRequest
  <1>2. ThreadType' /\ CallbackPlace' /\ MainPlace' /\ MainClosing'
    <2>1. CASE CallCancel("submit")
      BY <2>1, CallCancelMoves DEF CallKinds
    <2>2. CASE Goto("main", "prompt")
      BY <2>2, MainLocals, MainMoves DEF MainLabels, CallLabels, Goto
    <2> QED BY <1>1, <2>1, <2>2
  <1> QED BY <1>1, <1>2, DataKept DEF PlayInv

LEMMA AllocateInv ==
  ASSUME PlayInv, Allocate
  PROVE  PlayInv'
  <1> DEFINE l == [NoLoc EXCEPT !.r = next]
  <1>1. /\ Resume("main", "send", l)
        /\ active' = next /\ next' = next + 1
        /\ ep' = [ep EXCEPT ![next] = loc["main"].keep]
        /\ \E c \in Clients : owner' = [owner EXCEPT ![next] = c]
        /\ UNCHANGED <<opts, p, chain, req, sent, shot, lines, heard>>
    BY DEF Allocate
  <1>2. l \in Locals /\ l.kind = "none"
    BY NoLocals DEF Locals, Kinds, PlayInv, DataType
  <1> HIDE DEF l
  <1>3. ThreadType' /\ CallbackPlace' /\ MainPlace' /\ MainClosing'
    BY <1>1, <1>2, MainMoves DEF MainLabels, CallLabels
  <1>4. ep' \in [Requests -> Nat] /\ next' \in Nat /\ active' \in Nat
    <2>1. loc["main"].keep \in Nat /\ next \in Nat /\ ep \in [Requests -> Nat]
      BY MainLocals DEF PlayInv, DataType, Locals
    <2>2. PICK k \in Nat : ep' = [ep EXCEPT ![next] = k]
      BY <1>1, <2>1
    <2>3. ep' \in [Requests -> Nat]
      BY <2>1, <2>2
    <2>4. next + 1 \in Nat
      BY <2>1
    <2> QED BY <1>1, <2>1, <2>3, <2>4
  <1>5. owner' \in [Requests -> Clients \cup {"none"}]
    BY <1>1 DEF PlayInv, DataType
  <1>6. DataType'
    BY <1>1, <1>4, <1>5 DEF PlayInv, DataType, Requests
  <1> QED BY <1>1, <1>3, <1>6 DEF PlayInv

LEMMA SendInv ==
  ASSUME PlayInv, Send
  PROVE  PlayInv'
  <1>1. /\ pc["main"] = "send"
        /\ \/ /\ req' = [req EXCEPT ![loc["main"].r] = "live"] /\ active' = active
              /\ Resume("main", "await", NoLoc) \/ Resume("main", "prompt", NoLoc)
           \/ /\ active' = None \/ active' = active
              /\ req' = req /\ Goto("main", "unwind")
        /\ UNCHANGED <<opts, p, next, chain, ep, owner, sent, shot, lines, heard>>
    BY DEF Send
  <1>2. loc["main"] \in Locals /\ loc["main"].kind # "closing"
    BY <1>1, MainLocals, NotClosing
  <1>3. ThreadType' /\ CallbackPlace' /\ MainPlace' /\ MainClosing'
    <2>1. CASE Resume("main", "await", NoLoc) \/ Resume("main", "prompt", NoLoc)
      BY <2>1, NoLocals, MainMoves DEF MainLabels, CallLabels
    <2>2. CASE Goto("main", "unwind")
      BY <1>2, <2>2, MainMoves DEF MainLabels, CallLabels, Goto
    <2> QED BY <1>1, <2>1, <2>2
  <1>4. req' \in [Requests -> {"new", "live", "ended"}] /\ active' \in Nat
    <2>1. req \in [Requests -> {"new", "live", "ended"}] /\ active \in Nat /\ None \in Nat
      BY DEF PlayInv, DataType, None
    <2>2. PICK r : req' = [req EXCEPT ![r] = "live"] \/ req' = req
      BY <1>1
    <2>3. req' \in [Requests -> {"new", "live", "ended"}]
      BY <2>1, <2>2
    <2> QED BY <1>1, <2>1, <2>3
  <1>5. DataType'
    BY <1>1, <1>4 DEF PlayInv, DataType, Requests
  <1> QED BY <1>1, <1>3, <1>5 DEF PlayInv

LEMMA AwaitInv ==
  ASSUME PlayInv, Await
  PROVE  PlayInv'
  <1> DEFINE s == [NoLoc EXCEPT !.kind = "success"]
             f == [NoLoc EXCEPT !.kind = "failure"]
  <1>1. p' = p /\ AppUnchanged
        /\ (Resume("main", "flush", s) \/ Resume("main", "stop", f) \/ CallCancel("timeout"))
    BY DEF Await
  <1>2. s \in Locals /\ s.kind = "success" /\ f \in Locals /\ f.kind = "failure"
    BY NoLocals DEF Locals, Kinds
  <1> HIDE DEF s, f
  <1>3. ThreadType' /\ CallbackPlace' /\ MainPlace' /\ MainClosing'
    <2>1. CASE Resume("main", "flush", s) \/ Resume("main", "stop", f)
      BY <1>2, <2>1, MainMoves DEF MainLabels, CallLabels
    <2>2. CASE CallCancel("timeout")
      BY <2>2, CallCancelMoves DEF CallKinds
    <2> QED BY <1>1, <2>1, <2>2
  <1> QED BY <1>1, <1>3, DataKept DEF PlayInv

LEMMA AwaitIdleStep ==
  ASSUME PlayInv, AwaitIdle
  PROVE  /\ pc["main"] = "flush" /\ AppUnchanged
         /\ \E x \in WaitUntilIdle(p, loc["main"].resumed) : \E l \in Locals :
              /\ p' = x.p /\ l.kind = loc["main"].kind
              /\ l.resumed <=> x.out = "wait"
              /\ \/ x.out = "wait" /\ Resume("main", "flush", l)
                 \/ x.out = "done" /\ Resume("main", "stop", l)
                 \/ x.out = "threw" /\ Resume("main", "unwind", l)
  <1>1. pc["main"] = "flush" /\ AppUnchanged
    BY DEF AwaitIdle
  <1>2. PICK x \in WaitUntilIdle(p, loc["main"].resumed) :
          /\ p' = x.p
          /\ Resume("main", CASE x.out = "wait" -> "flush" [] x.out = "done" -> "stop"
                              [] OTHER -> "unwind",
                    [loc["main"] EXCEPT !.resumed = (x.out = "wait")])
    BY Zenon DEF AwaitIdle
  <1> DEFINE l == [loc["main"] EXCEPT !.resumed = (x.out = "wait")]
             b == (x.out = "wait")
  <1>3. PICK label : /\ Resume("main", label, l)
                     /\ label = CASE x.out = "wait" -> "flush" [] x.out = "done" -> "stop"
                                  [] OTHER -> "unwind"
    BY <1>2, Zenon
  <1>4. x.out \in {"done", "wait", "threw"}
    BY WaitUntilIdleOK DEF PlayInv
  <1>5. l \in Locals /\ l.kind = loc["main"].kind /\ l.resumed = b
    BY MainLocals DEF Locals
  <1> HIDE DEF l
  <1>6. CASE x.out = "wait"
    <2>1. x.out # "done"
      BY <1>6
    <2>2. label = "flush"
      BY <1>3, <1>6, <2>1, Zenon
    <2> QED BY <1>1, <1>2, <1>3, <1>5, <1>6, <2>2
  <1>7. CASE x.out = "done"
    <2>1. x.out # "wait"
      BY <1>7
    <2>2. label = "stop"
      BY <1>3, <1>7, <2>1, Zenon
    <2> QED BY <1>1, <1>2, <1>3, <1>5, <1>7, <2>2
  <1>8. CASE x.out = "threw"
    <2>1. x.out # "wait" /\ x.out # "done"
      BY <1>8
    <2>2. label = "unwind"
      BY <1>3, <2>1, Zenon
    <2> QED BY <1>1, <1>2, <1>3, <1>5, <1>8, <2>2
  <1> QED BY <1>4, <1>6, <1>7, <1>8

LEMMA AwaitIdleInv ==
  ASSUME PlayInv, AwaitIdle
  PROVE  PlayInv'
  <1>1. pc["main"] = "flush" /\ AppUnchanged
    BY AwaitIdleStep
  <1>2. PICK x \in WaitUntilIdle(p, loc["main"].resumed) : \E l \in Locals :
          /\ p' = x.p /\ l.kind = loc["main"].kind
          /\ \/ Resume("main", "flush", l) \/ Resume("main", "stop", l)
             \/ Resume("main", "unwind", l)
    BY AwaitIdleStep
  <1>3. PICK l \in Locals :
          /\ p' = x.p /\ l.kind = loc["main"].kind
          /\ \/ Resume("main", "flush", l) \/ Resume("main", "stop", l)
             \/ Resume("main", "unwind", l)
    BY <1>2
  <1>4. l.kind # "closing"
    BY <1>1, <1>3, NotClosing
  <1>5. ThreadType' /\ CallbackPlace' /\ MainPlace' /\ MainClosing'
    BY <1>3, <1>4, MainMoves DEF MainLabels, CallLabels
  <1>6. PlayerOK(p')
    BY <1>3, WaitUntilIdleOK DEF PlayInv
  <1> QED BY <1>1, <1>5, <1>6, DataKept DEF PlayInv

LEMMA StopInv ==
  ASSUME PlayInv, Stop
  PROVE  PlayInv'
  <1> DEFINE l == [NoLoc EXCEPT !.kind = "closing"]
  <1>1. Quiet /\ p' = p /\ AppUnchanged /\ Resume("main", "destroy", l) /\ req' = req
    BY DEF Stop, AppUnchanged
  <1>2. l \in Locals /\ l.kind = "closing" /\ l.out = <<>>
    BY NoLocals DEF Locals, Kinds, CallKinds
  <1> HIDE DEF l
  <1>3. ThreadType' /\ CallbackPlace' /\ MainPlace' /\ MainClosing'
    BY <1>1, <1>2, ClosingMoves
  <1> QED BY <1>1, <1>3, DataKept DEF PlayInv

LEMMA DestroyStep ==
  ASSUME PlayInv, Destroy
  PROVE  /\ pc["main"] = "destroy" /\ AppUnchanged
         /\ \E x : \E l \in Locals :
              /\ p' = x.p /\ ResetResult(p, x)
              /\ l.kind = loc["main"].kind /\ l.drain = x.p.epoch /\ l.out = <<>>
              /\ Resume("main", AfterReset(x.out, "abandon"), l)
  <1>1. pc["main"] = "destroy" /\ AppUnchanged
    BY DEF Destroy
  <1>2. PICK x \in ResetBegin(p) : BeginReset("main", x, NoTail, "abandon")
    BY DEF Destroy
  <1>3. ResetResult(p, x) /\ NoTail \in Nat
    BY ResetBeginOK DEF PlayInv, NoTail
  <1>4. x.p.epoch \in Nat /\ "main" \in Threads
    BY <1>3, Constants DEF ResetResult, PlayerOK, PlayerType
  <1>5. PICK l \in Locals :
          /\ p' = x.p
          /\ l.kind = loc["main"].kind /\ l.drain = x.p.epoch
          /\ l.out = <<>>
          /\ Resume("main", AfterReset(x.out, "abandon"), l)
    BY <1>2, <1>3, <1>4, BeginResetStep
  <1> QED BY <1>1, <1>3, <1>5

LEMMA DestroyInv ==
  ASSUME PlayInv, Destroy
  PROVE  PlayInv'
  <1>1. PICK x : \E l \in Locals :
          /\ p' = x.p /\ ResetResult(p, x)
          /\ l.kind = loc["main"].kind /\ l.drain = x.p.epoch /\ l.out = <<>>
          /\ Resume("main", AfterReset(x.out, "abandon"), l)
    BY DestroyStep
  <1>2. PICK l \in Locals :
          /\ p' = x.p /\ ResetResult(p, x)
          /\ l.kind = loc["main"].kind /\ l.drain = x.p.epoch /\ l.out = <<>>
          /\ Resume("main", AfterReset(x.out, "abandon"), l)
    BY <1>1
  <1>3. pc["main"] = "destroy" /\ AppUnchanged
    BY DestroyStep
  <1>4. PICK label \in {"drain", "enqueue", "abandon"} :
          /\ Resume("main", label, l)
          /\ label = "enqueue" => x.out = "done"
    BY <1>2, AfterResets DEF ResetResult
  <1>5. ThreadType' /\ CallbackPlace' /\ MainPlace' /\ MainClosing'
    <2>1. CASE loc["main"].kind = "closing"
      <3>1. Quiet /\ req' = req /\ l.kind = "closing"
        BY <1>2, <1>3, <2>1 DEF PlayInv, MainClosing, AppUnchanged
      <3>2. label \in {"enqueue", "cancelled", "close"} => p'.buffers = <<>>
        BY <1>2, <1>4 DEF ResetResult
      <3>3. l.drain = p'.epoch
        BY <1>2
      <3> QED BY <1>2, <1>4, <3>1, <3>2, <3>3, ClosingMoves
    <2>2. CASE loc["main"].kind # "closing"
      BY <1>3, <2>2 DEF PlayInv, MainClosing
    <2> QED BY <2>1, <2>2
  <1> QED BY <1>2, <1>3, <1>5, DataKept DEF PlayInv, ResetResult

LEMMA CloseDeviceInv ==
  ASSUME PlayInv, CloseDevice
  PROVE  PlayInv'
  <1>1. /\ pc["main"] \in {"close", "abandon"} /\ AppUnchanged
        /\ Resume("main", "gone", loc["main"])
    BY DEF CloseDevice, Goto
  <1>2. PICK ok \in BOOLEAN : (ok <=> pc["main"] = "close") /\ p' \in Close(p, ok)
    BY DEF CloseDevice
  <1>3. ok => p.unhealthy \/ p.buffers = <<>>
    BY <1>2 DEF PlayInv, MainClosing
  <1>4. PlayerOK(p')
    BY <1>2, <1>3, CloseOK DEF PlayInv
  <1>5. ThreadType' /\ CallbackPlace' /\ MainPlace' /\ MainClosing'
    BY <1>1, MainLocals, MainMoves DEF MainLabels, CallLabels
  <1> QED BY <1>1, <1>4, <1>5, DataKept DEF PlayInv

LEMMA DeviceReturnsInv ==
  ASSUME PlayInv, DeviceReturns
  PROVE  PlayInv'
  <1>1. /\ CanReturn(p) /\ p' = Returned(p)
        /\ heard' = heard \/ heard' = Append(heard, p.buffers[p.returned + 1].n)
        /\ UNCHANGED <<opts, active, next, chain, ep, owner, req, sent, shot, pc, loc, lines>>
    BY DEF DeviceReturns
  <1>2. /\ PlayerOK(p') /\ p'.buffers = p.buffers /\ Within(p, p', {})
    BY <1>1, ReturnedOK DEF PlayInv
  <1>3. p.buffers[p.returned + 1].n \in Nat
    <2>1. p.buffers \in Seq(Chunks) /\ p.returned + 1 \in 1..Len(p.buffers)
      BY <1>1, LenProperties DEF PlayInv, PlayerOK, PlayerType, CanReturn
    <2>2. p.buffers[p.returned + 1] \in Chunks
      BY <2>1, ElementOfSeq
    <2> QED BY <2>2 DEF Chunks
  <1>4. heard' \in Seq(Nat)
    <2>1. PICK n \in Nat : heard' = heard \/ heard' = Append(heard, n)
      BY <1>1, <1>3
    <2>2. heard \in Seq(Nat)
      BY DEF PlayInv, DataType
    <2> QED BY <2>1, <2>2, AppendProperties
  <1>5. DataType'
    BY <1>1, <1>4 DEF PlayInv, DataType, Requests
  <1>6. p'.epoch = p.epoch /\ (p.unhealthy => p'.unhealthy)
    BY <1>2 DEF Within
  <1>7. ThreadType' /\ CallbackPlace' /\ MainPlace'
    BY <1>1 DEF PlayInv, ThreadType, CallbackPlace, MainPlace, Threads, Requests
  <1>8. MainClosing'
    BY <1>1, <1>2, <1>6 DEF PlayInv, MainClosing, Quiet, Requests
  <1> QED BY <1>2, <1>5, <1>7, <1>8 DEF PlayInv
LEMMA InitInv == Init => PlayInv
  <1> SUFFICES ASSUME Init PROVE PlayInv
    OBVIOUS
  <1>1. /\ "main" \notin Clients /\ "main" \in Threads /\ MaxFaults \in Nat
        /\ \A d \in Clients : d \in Threads /\ d # "main"
    BY Constants
  <1>2. /\ opts \in [mode : Modes, fade : BOOLEAN]
        /\ active = None /\ next = 1
        /\ chain = [r \in Requests |-> FreshChain]
        /\ ep = [r \in Requests |-> 0] /\ owner = [r \in Requests |-> "none"]
        /\ req = [r \in Requests |-> "new"] /\ sent = [r \in Requests |-> 0]
        /\ shot = "open" /\ lines = 0 /\ heard = <<>>
    BY DEF Init
  <1>3. DataType
    <2>1. <<>> \in Seq(Nat)
      OBVIOUS
    <2>2. FreshChain \in [held : Nat, finished : BOOLEAN]
      BY DEF FreshChain
    <2>3. chain \in [Requests -> [held : Nat, finished : BOOLEAN]]
      BY <1>2, <2>2
    <2> QED BY <1>2, <2>1, <2>3 DEF DataType, None
  <1>5. /\ pc = [t \in Threads |-> IF t # "main" THEN "idle"
                                   ELSE IF opts.mode = "oneshot" THEN "claim" ELSE "prompt"]
        /\ loc = [t \in Threads |->
                    IF t = "main" /\ opts.mode = "oneshot"
                    THEN [NoLoc EXCEPT !.kind = "oneshot"] ELSE NoLoc]
    BY DEF Init
  <1>6. /\ [NoLoc EXCEPT !.kind = "oneshot"] \in Locals
        /\ [NoLoc EXCEPT !.kind = "oneshot"].kind = "oneshot"
    BY NoLocals DEF Locals, Kinds, CallKinds
  <1>7. ThreadType
    BY <1>5, <1>6, NoLocals DEF ThreadType, Labels, MainLabels, CallLabels, CallbackLabels
  <1>8. CallbackPlace
    BY <1>1, <1>5 DEF CallbackPlace, CallbackLabels
  <1>9. \/ pc["main"] = "claim" /\ loc["main"].kind = "oneshot"
        \/ pc["main"] = "prompt" /\ loc["main"].kind = "none"
    BY <1>1, <1>5, <1>6, NoLocals
  <1>10. MainPlace /\ MainClosing
    BY <1>9 DEF MainPlace, MainClosing, MainLabels, CallLabels, CallKinds
  <1>11. PICK s \in Sinks, n \in Prebuffers :
           p = NewPlayer(s, n, IF s = "WaveOut" THEN MaxFaults ELSE 1)
    BY DEF Init
  <1>12. PICK f \in Int : p = NewPlayer(s, n, f)
    BY <1>1, <1>11
  <1>13. n \in Nat
    BY PlayerAssumption
  <1>14. PlayerType(p)
    <2>1. <<>> \in Seq(Chunks) /\ 0 <= Len(<<>>) /\ {} \in SUBSET Chunks
      OBVIOUS
    <2>2. p.returned = 0 /\ p.buffers = <<>>
      BY <1>12 DEF NewPlayer
    <2> QED BY <1>12, <1>13, <2>1, <2>2 DEF NewPlayer, PlayerType
  <1>15. PlayerInv(p)
    <2>1. /\ p.driver = {} /\ p.orphaned = {} /\ p.buffers = <<>> /\ p.pending = <<>>
      BY <1>12 DEF NewPlayer
    <2> QED BY <2>1 DEF PlayerInv
  <1> QED BY <1>3, <1>7, <1>8, <1>10, <1>14, <1>15 DEF PlayInv, PlayerOK

LEMMA StutterInv ==
  ASSUME PlayInv, UNCHANGED vars
  PROVE  PlayInv'
  <1>1. UNCHANGED <<opts, p, active, next, chain, ep, owner, req, sent, shot, pc, loc,
                    lines, heard>>
    BY DEF vars
  <1>2. DataType'
    BY <1>1 DEF PlayInv, DataType, Requests
  <1>3. ThreadType' /\ CallbackPlace' /\ MainPlace'
    BY <1>1 DEF PlayInv, ThreadType, CallbackPlace, MainPlace, Threads, Requests
  <1>4. MainClosing'
    BY <1>1 DEF PlayInv, MainClosing, Quiet, Requests
  <1> QED BY <1>1, <1>2, <1>3, <1>4 DEF PlayInv

LEMMA NextInv == PlayInv /\ [Next]_vars => PlayInv'
  <1> SUFFICES ASSUME PlayInv, [Next]_vars PROVE PlayInv'
    OBVIOUS
  <1>1. CASE Prompt
    BY <1>1, PromptInv
  <1>2. CASE MainStep
    BY <1>2, ClaimInv, ClaimedChainResetInv, InterruptActiveInv, MainDrainInv, MainEnqueueInv,
       CancelledInv, PrepareRequestInv, AllocateInv, SendInv, AwaitInv, AwaitIdleInv, StopInv,
       DestroyInv, CloseDeviceInv DEF MainStep
  <1>3. CASE DeviceReturns
    BY <1>3, DeviceReturnsInv
  <1>4. ASSUME NEW d \in Clients, Deliver(d) \/ CallbackStep(d)
        PROVE  PlayInv'
    BY <1>4, DeliverInv, EnterActiveInv, EnterTerminalInv, ProcessInv, CallbackEnqueueInv,
       CompleteInv, FailInv, CallbackChainResetInv, CallbackResetInv, CallbackDrainInv, NoteInv
       DEF CallbackStep
  <1>5. CASE UNCHANGED vars
    BY <1>5, StutterInv
  <1> QED BY <1>1, <1>2, <1>3, <1>4, <1>5 DEF Next

\* The members of the player, the callbacks' and main's place in the program and the
\* order in which the destructor runs, in every reachable state.
THEOREM PlayInvariant == Spec => []PlayInv
  <1>1. Init => PlayInv
    BY InitInv
  <1>2. PlayInv /\ [Next]_vars => PlayInv'
    BY NextInv
  <1> QED BY <1>1, <1>2, PTL DEF Spec

\* Storage whose header is prepared is never freed, whatever driver calls fail, however
\* resets overtake each other and wherever the destructor finds the player
\* (abandon_driver_owned_resources_locked).
THEOREM DriverMemoryStaysAlive == Spec => []DriverMemoryAlive
  <1>1. PlayInv => DriverMemoryAlive
    BY DEF PlayInv, PlayerOK, PlayerInv, DriverMemoryAlive, Alive
  <1> QED BY <1>1, PlayInvariant, PTL
-----------------------------------------------------------------------------
(* Audio of an earlier epoch.                                              *)

LEMMA OthersStay ==
  ASSUME ThreadType, NEW t \in Threads, NEW label, NEW l, Resume(t, label, l)
  PROVE  /\ \A u \in Threads : u # t => pc'[u] = pc[u] /\ loc'[u] = loc[u]
         /\ pc'[t] = label
         /\ label \notin {"idle", "prompt", "gone"} => loc'[t] = l
         /\ label \in {"idle", "prompt", "gone"} => loc'[t] = NoLoc
  <1>1. \/ label \in {"idle", "prompt", "gone"} /\ loc' = [loc EXCEPT ![t] = NoLoc]
        \/ label \notin {"idle", "prompt", "gone"} /\ loc' = [loc EXCEPT ![t] = l]
    BY DEF Resume
  <1>2. pc' = [pc EXCEPT ![t] = label]
    BY DEF Resume
  <1> QED BY <1>1, <1>2 DEF ThreadType

\* A thread moves that is not in a reset, and the player stays within its epoch.
LEMMA CurrentWithin ==
  ASSUME OnlyCurrentAudio, ThreadType, NEW t \in Threads, NEW label, NEW l,
         Resume(t, label, l), pc[t] # "drain", NEW C, Within(p, p', C),
         \A b \in C : b.ep = p.epoch
  PROVE  OnlyCurrentAudio'
  <1>1. \A u \in Threads : u # t => pc'[u] = pc[u] /\ loc'[u] = loc[u]
    BY OthersStay
  <1>2. CASE p.unhealthy
    BY <1>2 DEF OnlyCurrentAudio, Within
  <1>3. CASE ResetUnderway
    <2>1. PICK u \in Threads : pc[u] = "drain" /\ loc[u].drain = p.epoch
      BY <1>3 DEF ResetUnderway
    <2>2. u # t /\ p'.epoch = p.epoch
      BY <2>1 DEF Within
    <2>3. pc'[u] = "drain" /\ loc'[u].drain = p'.epoch
      BY <1>1, <2>1, <2>2
    <2>4. ResetUnderway'
      BY <2>3 DEF ResetUnderway, Threads
    <2> QED BY <2>4 DEF OnlyCurrentAudio
  <1>4. CASE \A b \in Range(p.buffers) \cup Range(p.pending) : b.ep = p.epoch
    BY <1>4 DEF OnlyCurrentAudio, Within, Audio
  <1> QED BY <1>2, <1>3, <1>4 DEF OnlyCurrentAudio

LEMMA CurrentStays ==
  ASSUME OnlyCurrentAudio, ThreadType, NEW t \in Threads, NEW label, NEW l,
         Resume(t, label, l), pc[t] # "drain", p' = p
  PROVE  OnlyCurrentAudio'
  <1>1. Within(p, p', {})
    BY DEF Within
  <1> QED BY <1>1, CurrentWithin

\* A reset empties the player, goes on, or leaves the player unhealthy.
LEMMA CurrentReset ==
  ASSUME ThreadType, NEW t \in Threads, NEW x, NEW handler, NEW l, l.drain = x.p.epoch,
         Resume(t, AfterReset(x.out, handler), l), p' = x.p, ResetResult(p, x)
  PROVE  OnlyCurrentAudio'
  <1>1. CASE x.out = "done"
    <2>1. p'.buffers = <<>> /\ p'.pending = <<>>
      BY <1>1 DEF ResetResult
    <2> QED BY <2>1, RangeOfEmpty DEF OnlyCurrentAudio
  <1>2. CASE x.out = "threw"
    BY <1>2 DEF ResetResult, OnlyCurrentAudio
  <1>3. CASE x.out = "wait"
    <2>1. Resume(t, "drain", l)
      BY <1>3, AfterResets
    <2>2. pc'[t] = "drain" /\ loc'[t] = l
      BY <2>1, OthersStay
    <2>3. ResetUnderway'
      BY <2>2 DEF ResetUnderway, Threads
    <2> QED BY <2>3 DEF OnlyCurrentAudio
  <1> QED BY <1>1, <1>2, <1>3 DEF ResetResult

LEMMA CurrentEnqueue ==
  ASSUME PlayInv, OnlyCurrentAudio, NEW t \in Threads, NEW after, NEW handler,
         EnqueueNext(t, after, handler)
  PROVE  OnlyCurrentAudio'
  <1>1. pc[t] # "drain" /\ ThreadType
    BY DEF EnqueueNext, PlayInv
  <1>2. CASE Goto(t, after) /\ p' = p
    BY <1>1, <1>2, CurrentStays DEF Goto
  <1>3. ASSUME NEW x, NEW l, EnqueueTurn(t, handler, x, l)
        PROVE  OnlyCurrentAudio'
    <2> DEFINE c == Head(loc[t].out)
    <2>1. c \in Chunks /\ x \in Enqueue(p, c, loc[t].resumed) /\ p' = x.p
          /\ Resume(t, IF x.out = "threw" THEN handler ELSE "enqueue", l)
      BY <1>3 DEF EnqueueTurn
    <2> HIDE DEF c
    <2>2. Within(p, p', {}) \/ (Within(p, p', {c}) /\ c.ep = p.epoch)
      BY <2>1, EnqueueOK DEF PlayInv
    <2> QED BY <1>1, <2>1, <2>2, CurrentWithin
  <1> QED BY <1>2, <1>3, EnqueueNextStep

LEMMA CurrentDrain ==
  ASSUME PlayInv, OnlyCurrentAudio, NEW t \in Threads, NEW handler, Drain(t, handler)
  PROVE  OnlyCurrentAudio'
  <1>1. PICK x : /\ p' = x.p /\ Goto(t, AfterReset(x.out, handler))
                 /\ \/ p.epoch # loc[t].drain /\ x.p = p /\ x.out = "done"
                    \/ /\ p.epoch = loc[t].drain /\ ResetResult(p, x)
                       /\ x.p.epoch = p.epoch
    BY DrainStep
  <1>2. ThreadType /\ Resume(t, AfterReset(x.out, handler), loc[t])
    BY <1>1 DEF PlayInv, Goto
  <1>3. CASE p.epoch = loc[t].drain /\ ResetResult(p, x) /\ x.p.epoch = p.epoch
    BY <1>1, <1>2, <1>3, CurrentReset
  <1>4. CASE p.epoch # loc[t].drain /\ x.p = p
    <2>1. \A u \in Threads : u # t => pc'[u] = pc[u] /\ loc'[u] = loc[u]
      BY <1>2, OthersStay
    <2>2. ResetUnderway => ResetUnderway'
      <3> SUFFICES ASSUME NEW u \in Threads, pc[u] = "drain", loc[u].drain = p.epoch
                   PROVE  ResetUnderway'
        BY DEF ResetUnderway
      <3>1. u # t
        BY <1>4
      <3>2. pc'[u] = "drain" /\ loc'[u].drain = p'.epoch
        BY <1>1, <1>4, <2>1, <3>1
      <3> QED BY <3>2 DEF ResetUnderway, Threads
    <2>3. p' = p
      BY <1>1, <1>4
    <2> QED BY <2>2, <2>3 DEF OnlyCurrentAudio
  <1> QED BY <1>1, <1>3, <1>4

LEMMA CurrentCallback ==
  ASSUME PlayInv, OnlyCurrentAudio, NEW d \in Clients, Deliver(d) \/ CallbackStep(d)
  PROVE  OnlyCurrentAudio'
  <1>1. ThreadType /\ d \in Threads
    BY Constants DEF PlayInv
  <1>2. CASE Deliver(d)
    <2>1. PICK l : Resume(d, "enter", l)
      BY <1>2 DEF Deliver
    <2>2. pc[d] # "drain" /\ p' = p
      BY <1>2 DEF Deliver
    <2> QED BY <1>1, <2>1, <2>2, CurrentStays
  <1>3. CASE EnterActive(d)
    <2>1. PICK label : Resume(d, label, loc[d])
      BY <1>3 DEF EnterActive, Goto
    <2>2. pc[d] # "drain" /\ p' = p
      BY <1>3 DEF EnterActive
    <2> QED BY <1>1, <2>1, <2>2, CurrentStays
  <1>4. CASE EnterTerminal(d)
    <2>1. PICK label : Resume(d, label, loc[d])
      BY <1>4 DEF EnterTerminal, Goto
    <2>2. pc[d] # "drain" /\ p' = p
      BY <1>4 DEF EnterTerminal
    <2> QED BY <1>1, <2>1, <2>2, CurrentStays
  <1>5. CASE Process(d)
    <2>1. PICK l : Resume(d, "enqueue", l)
      BY <1>5 DEF Process
    <2>2. pc[d] # "drain" /\ p' = p
      BY <1>5 DEF Process
    <2> QED BY <1>1, <2>1, <2>2, CurrentStays
  <1>6. CASE CallbackEnqueue(d)
    <2>1. PICK after, handler : EnqueueNext(d, after, handler)
      BY <1>6, Zenon DEF CallbackEnqueue
    <2> QED BY <1>1, <2>1, CurrentEnqueue
  <1>7. CASE Complete(d) \/ Note(d)
    <2>1. Resume(d, "idle", loc[d]) /\ pc[d] # "drain" /\ p' = p
      BY <1>7 DEF Complete, Note, Goto
    <2> QED BY <1>1, <2>1, CurrentStays
  <1>8. CASE Fail(d)
    <2>1. PICK label, l : Resume(d, label, l)
      BY <1>8 DEF Fail, Goto
    <2>2. pc[d] # "drain" /\ p' = p
      BY <1>8 DEF Fail
    <2> QED BY <1>1, <2>1, <2>2, CurrentStays
  <1>9. CASE CallbackChainReset(d)
    <2>1. Resume(d, "reset", loc[d]) /\ pc[d] # "drain" /\ p' = p
      BY <1>9 DEF CallbackChainReset, Goto
    <2> QED BY <1>1, <2>1, CurrentStays
  <1>10. CASE CallbackReset(d)
    <2>1. PICK x, tail, e :
            /\ pc[d] = "reset"
            /\ BeginReset(d, x, tail, "note") /\ tail \in Nat /\ PlayerOK(x.p)
            /\ (x.p = p) \/ ResetResult(p, x)
      BY <1>10, CallbackResetStep
    <2>2. x.p.epoch \in Nat
      BY <2>1 DEF PlayerOK, PlayerType
    <2>3. PICK l \in Locals :
            /\ p' = x.p /\ l.drain = x.p.epoch
            /\ Resume(d, AfterReset(x.out, "note"), l)
      BY <1>1, <2>1, <2>2, BeginResetStep
    <2>4. CASE x.p = p
      <3>1. p' = p /\ pc[d] # "drain"
        BY <2>1, <2>3, <2>4
      <3> QED BY <1>1, <2>3, <3>1, CurrentStays
    <2>5. CASE ResetResult(p, x)
      BY <1>1, <2>3, <2>5, CurrentReset
    <2> QED BY <2>1, <2>4, <2>5
  <1>11. CASE CallbackDrain(d)
    BY <1>1, <1>11, CurrentDrain DEF CallbackDrain
  <1> QED BY <1>2, <1>3, <1>4, <1>5, <1>6, <1>7, <1>8, <1>9, <1>10, <1>11 DEF CallbackStep

LEMMA CurrentMain ==
  ASSUME PlayInv, OnlyCurrentAudio, Prompt \/ MainStep
  PROVE  OnlyCurrentAudio'
  <1>1. ThreadType /\ "main" \in Threads
    BY Constants DEF PlayInv
  <1>2. CASE Prompt \/ Claim \/ ClaimedChainReset \/ PrepareRequest \/ Allocate \/ Await \/ Stop
    <2>1. PICK label, l : Resume("main", label, l)
      BY <1>2 DEF Prompt, Claim, ClaimedChainReset, PrepareRequest, Allocate, Await, Stop,
                  CallCancel, Goto
    <2>2. pc["main"] # "drain" /\ p' = p
      BY <1>2 DEF Prompt, Claim, ClaimedChainReset, PrepareRequest, Allocate, Await, Stop
    <2> QED BY <1>1, <2>1, <2>2, CurrentStays
  <1>3. CASE Send
    <2>1. PICK label, l : Resume("main", label, l)
      BY <1>3 DEF Send, Goto
    <2>2. pc["main"] # "drain" /\ p' = p
      BY <1>3 DEF Send
    <2> QED BY <1>1, <2>1, <2>2, CurrentStays
  <1>4. CASE Cancelled
    <2>1. PICK label, l : Resume("main", label, l)
      BY <1>4, CancelledStep DEF Goto
    <2>2. pc["main"] # "drain" /\ p' = p
      BY <1>4, CancelledStep
    <2> QED BY <1>1, <2>1, <2>2, CurrentStays
  <1>5. CASE InterruptActive
    <2>1. PICK x, l :
            /\ p' = x.p /\ ResetResult(p, x) /\ l.drain = x.p.epoch
            /\ Resume("main", AfterReset(x.out, "unwind"), l)
      BY <1>5, InterruptActiveStep
    <2> QED BY <1>1, <2>1, CurrentReset
  <1>6. CASE Destroy
    <2>1. PICK x, l :
            /\ p' = x.p /\ ResetResult(p, x) /\ l.drain = x.p.epoch
            /\ Resume("main", AfterReset(x.out, "abandon"), l)
      BY <1>6, DestroyStep
    <2> QED BY <1>1, <2>1, CurrentReset
  <1>7. CASE MainDrain
    <2>1. PICK handler : Drain("main", handler)
      BY <1>7 DEF MainDrain
    <2> QED BY <1>1, <2>1, CurrentDrain
  <1>8. CASE MainEnqueue
    BY <1>1, <1>8, CurrentEnqueue DEF MainEnqueue
  <1>9. CASE AwaitIdle
    <2>1. PICK x, label, l :
            /\ x \in WaitUntilIdle(p, loc["main"].resumed)
            /\ p' = x.p /\ Resume("main", label, l)
      BY <1>9, AwaitIdleStep
    <2>2. Within(p, p', {}) /\ pc["main"] # "drain"
      BY <1>9, <2>1, WaitUntilIdleOK, AwaitIdleStep DEF PlayInv
    <2> QED BY <1>1, <2>1, <2>2, CurrentWithin
  <1>10. CASE CloseDevice
    <2>1. PICK ok \in BOOLEAN : (ok <=> pc["main"] = "close") /\ p' \in Close(p, ok)
      BY <1>10 DEF CloseDevice
    <2>2. ok => p.unhealthy \/ p.buffers = <<>>
      BY <2>1 DEF PlayInv, MainClosing
    <2>3. Audio(p') = {}
      BY <2>1, <2>2, CloseOK DEF PlayInv
    <2> QED BY <2>3 DEF OnlyCurrentAudio, Audio
  <1> QED BY <1>2, <1>3, <1>4, <1>5, <1>6, <1>7, <1>8, <1>9, <1>10 DEF MainStep

LEMMA CurrentReturned ==
  ASSUME PlayInv, OnlyCurrentAudio, DeviceReturns \/ UNCHANGED vars
  PROVE  OnlyCurrentAudio'
  <1>1. pc' = pc /\ loc' = loc
    BY DEF DeviceReturns, vars
  <1>2. p' = p \/ Within(p, p', {})
    BY ReturnedOK DEF PlayInv, DeviceReturns, vars
  <1>3. CASE p.unhealthy
    BY <1>2, <1>3 DEF OnlyCurrentAudio, Within
  <1>4. CASE ResetUnderway
    BY <1>1, <1>2, <1>4 DEF OnlyCurrentAudio, Within, ResetUnderway, Threads
  <1>5. CASE \A b \in Range(p.buffers) \cup Range(p.pending) : b.ep = p.epoch
    BY <1>2, <1>5 DEF OnlyCurrentAudio, Within, Audio
  <1> QED BY <1>3, <1>4, <1>5 DEF OnlyCurrentAudio

\* Audio of an earlier epoch is in the player only while the reset that ended that epoch is
\* still draining the device, or after the driver has failed: a callback that was in the
\* middle of enqueue when the user typed the next text does not get its chunk in.
THEOREM OnlyCurrentAudioQueued == Spec => []OnlyCurrentAudio
  <1>1. Init => OnlyCurrentAudio
    <2> SUFFICES ASSUME Init PROVE OnlyCurrentAudio
      OBVIOUS
    <2>1. p.buffers = <<>> /\ p.pending = <<>>
      BY DEF Init, NewPlayer
    <2> QED BY <2>1, RangeOfEmpty DEF OnlyCurrentAudio
  <1>2. PlayInv /\ OnlyCurrentAudio /\ [Next]_vars => OnlyCurrentAudio'
    BY CurrentCallback, CurrentMain, CurrentReturned DEF Next
  <1> QED BY <1>1, <1>2, PlayInvariant, PTL DEF Spec
-----------------------------------------------------------------------------
(***************************************************************************)
(* The one-shot request: its chunks are numbered, and wherever they are -  *)
(* played, with the driver, pending, in the hands of the callback, held    *)
(* back by the chain - they are there in order and none is missing.        *)
(***************************************************************************)

\* The chunks in P not yet played, and that they go on where the first h ended.
Queue(P) == (Len(P.buffers) - P.returned) + Len(P.pending)

Lined(P, h) ==
  /\ \A i \in 1..(Len(P.buffers) - P.returned) : P.buffers[P.returned + i].n = h + i
  /\ \A i \in 1..Len(P.pending) :
       P.pending[i].n = h + (Len(P.buffers) - P.returned) + i

\* The first n chunks are in H, played, or in P, in line.
Told(P, H, n) ==
  /\ \A i \in 1..Len(H) : H[i] = i
  /\ Lined(P, Len(H))
  /\ Len(H) + Queue(P) = n

\* With the chunks o at hand and the one the chain c holds, the first n are there.
Flow(P, H, c, e, o, n) ==
  \E m \in Nat :
    /\ Told(P, H, m)
    /\ Len(o) <= 1
    /\ o # <<>> => o[1].n = m + 1 /\ o[1].ep = e
    /\ c.held = 0 => n = m + Len(o)
    /\ c.held # 0 => n = m + Len(o) + 1 /\ c.held = n

OneShotKinds == {"oneshot", "none", "timeout", "success", "failure", "closing"}
EarlyLabels == {"idle", "enter", "process", "enqueue", "complete", "fail"}

\* One request and one busy callback; nobody cancels an active request but main.
OneShotMain ==
  /\ pc["main"] \notin {"prompt", "prepare"} /\ loc["main"].kind \in OneShotKinds
  /\ pc["main"] = "submit" => loc["main"].kind = "oneshot"
  /\ pc["main"] = "send" =>
       /\ loc["main"].r = 1 /\ shot = "open"
       /\ \A r \in Requests : req[r] = "new"
       /\ \A d \in Clients : pc[d] = "idle"

OneShotCallback ==
  /\ \A r \in Requests : r # 1 => req[r] = "new"
  /\ \A d \in Clients :
       pc[d] # "idle" =>
         /\ loc[d].r = 1 /\ owner[1] = d
         /\ loc[d].kind = "completed" => req[1] = "ended"
         /\ pc[d] = "complete" => loc[d].kind = "completed"

OneShotActive ==
  /\ active \in {0, 1}
  /\ active = 1 =>
       /\ pc["main"] \in {"send", "await", "claim"} /\ shot = "open"
       /\ \A d \in Clients :
            /\ pc[d] \in EarlyLabels
            /\ pc[d] \in {"process", "enqueue"} => loc[d].kind \in {"audio", "completed"}

\* cancel_active_request before the request is made finds nothing to interrupt.
OneShotBefore ==
  loc["main"].kind = "oneshot" =>
    /\ next = 1 /\ active = None /\ shot = "open"
    /\ \A r \in Requests : req[r] = "new" /\ sent[r] = 0 /\ chain[r] = FreshChain
    /\ \A d \in Clients : pc[d] = "idle"
    /\ pc["main"] \in CallLabels \cup {"submit", "unwind"}
    /\ Audio(p) = {} /\ heard = <<>> /\ loc["main"].out = <<>>
    /\ pc["main"] \in {"drain", "enqueue", "cancelled"} => loc["main"].drain = p.epoch
    /\ pc["main"] = "submit" => loc["main"].keep = p.epoch

\* Neither a timeout nor a playback failure so far.
Working ==
  /\ active = 1 /\ pc["main"] \in {"send", "await"} /\ p.sink # "Disabled" /\ 1 \in Requests
  /\ \A d \in Clients : pc[d] # "fail"

\* Where the chunks are while client d is in a callback.
FlowIn(d) ==
  /\ pc[d] \in {"enter", "process"} =>
       /\ Flow(p, heard, chain[1], ep[1], <<>>,
               IF loc[d].kind = "audio" THEN sent[1] - 1 ELSE sent[1])
       /\ ~chain[1].finished
  /\ pc[d] = "enqueue" =>
       /\ Flow(p, heard, chain[1], ep[1], loc[d].out, sent[1])
       /\ loc[d].kind = "audio" => ~chain[1].finished
       /\ loc[d].kind = "completed" => chain[1].held = 0
  /\ pc[d] = "complete" =>
       Flow(p, heard, chain[1], ep[1], <<>>, sent[1]) /\ chain[1].held = 0

OneShotFlow ==
  Working =>
    /\ ep[1] = p.epoch
    /\ ~opts.fade => chain[1].held = 0
    /\ (\A d \in Clients : pc[d] = "idle") =>
         Flow(p, heard, chain[1], ep[1], <<>>, sent[1]) /\ ~chain[1].finished
    /\ \A d \in Clients : FlowIn(d)

\* After on_completed: what is left is for wait_until_idle to play.
OneShotPlayed ==
  /\ shot = "success" =>
       /\ 1 \in Requests /\ req[1] = "ended" /\ active # 1
       /\ \A d \in Clients : pc[d] = "idle"
  /\ loc["main"].kind = "success" =>
       shot = "success" /\ pc["main"] \in {"flush", "stop", "unwind"}
  /\ pc["main"] = "flush" => loc["main"].kind = "success"
  /\ /\ shot = "success" /\ p.sink # "Disabled"
     /\ pc["main"] = "await" \/ (loc["main"].kind = "success" /\ pc["main"] # "unwind")
     => /\ Told(p, heard, sent[1])
        /\ pc["main"] = "flush" /\ loc["main"].resumed => p.pending = <<>>
        /\ pc["main"] = "stop" => p.buffers = <<>> /\ p.pending = <<>>

OneShotInv ==
  /\ OneShotMain /\ OneShotCallback /\ OneShotActive
  /\ OneShotBefore /\ OneShotFlow /\ OneShotPlayed

\* Without a one-shot request nobody waits for one.
NoOneShot == pc["main"] # "await" /\ loc["main"].kind # "success"

LEMMA LinedLengths ==
  ASSUME NEW P, PlayerOK(P)
  PROVE  /\ P.buffers \in Seq(Chunks) /\ P.pending \in Seq(Chunks)
         /\ Len(P.buffers) \in Nat /\ Len(P.pending) \in Nat
         /\ P.returned \in Nat /\ P.returned <= Len(P.buffers)
         /\ Len(P.buffers) - P.returned \in Nat /\ Queue(P) \in Nat
  <1>1. /\ P.buffers \in Seq(Chunks) /\ P.pending \in Seq(Chunks)
        /\ P.returned \in Nat /\ P.returned <= Len(P.buffers)
    BY DEF PlayerOK, PlayerType
  <1>2. Len(P.buffers) \in Nat /\ Len(P.pending) \in Nat
    BY <1>1, LenProperties
  <1>3. Len(P.buffers) - P.returned \in Nat
    BY <1>1, <1>2
  <1> QED BY <1>1, <1>2, <1>3 DEF Queue

\* Dropping the returned buffers keeps the rest in line.
LEMMA ReapedLined ==
  ASSUME NEW P, PlayerOK(P), NEW h \in Nat, Lined(P, h)
  PROVE  /\ Lined(Reaped(P, P.returned), h)
         /\ Queue(Reaped(P, P.returned)) = Queue(P)
         /\ Reaped(P, P.returned).returned = 0
         /\ Reaped(P, P.returned).pending = P.pending
  <1> DEFINE Q == Reaped(P, P.returned)
  <1>1. /\ P.buffers \in Seq(Chunks) /\ Len(P.buffers) \in Nat /\ Len(P.pending) \in Nat
        /\ P.returned \in Nat /\ P.returned \in 0..Len(P.buffers)
    BY LinedLengths
  <1>2. /\ Q.buffers = SubSeq(P.buffers, P.returned + 1, Len(P.buffers))
        /\ Q.returned = P.returned - P.returned /\ Q.pending = P.pending
    BY DEF Reaped, PlayerOK, PlayerType
  <1> HIDE DEF Q
  <1>3. /\ Len(Q.buffers) = Len(P.buffers) - P.returned /\ Q.returned = 0
        /\ \A i \in 1..(Len(P.buffers) - P.returned) : Q.buffers[i] = P.buffers[P.returned + i]
    <2>1. PICK s \in Seq(Chunks), k \in Nat : s = P.buffers /\ k = P.returned
      BY <1>1
    <2>0. k \in 0..Len(s)
      BY <1>1, <2>1
    <2>2. /\ Len(SubSeq(s, k + 1, Len(s))) = Len(s) - k
          /\ \A i \in 1..(Len(s) - k) : SubSeq(s, k + 1, Len(s))[i] = s[k + i]
      BY <2>0, CutSequence
    <2>3. Q.returned = 0
      BY <1>1, <1>2
    <2> QED BY <1>2, <2>1, <2>2, <2>3, Zenon
  <1>4. Len(Q.buffers) - Q.returned = Len(P.buffers) - P.returned
    BY <1>1, <1>3
  <1>5. \A i \in 1..(Len(P.buffers) - P.returned) : Q.returned + i = i
    BY <1>1, <1>3
  <1>6. Lined(Q, h)
    BY <1>2, <1>3, <1>4, <1>5 DEF Lined
  <1> QED BY <1>2, <1>3, <1>4, <1>6 DEF Q, Queue

\* Submitting all that is pending keeps the line.
LEMMA SubmittedLined ==
  ASSUME NEW P, PlayerOK(P), P.sink # "Disabled", NEW h \in Nat, Lined(P, h)
  PROVE  /\ Lined(Submitted(P, Len(P.pending)), h)
         /\ Queue(Submitted(P, Len(P.pending))) = Queue(P)
         /\ Submitted(P, Len(P.pending)).pending = <<>>
  <1> DEFINE k == Len(P.pending)
             u == Len(P.buffers) - P.returned
             Q == Submitted(P, k)
             a == SubSeq(P.pending, 1, k)
  <1>1. /\ P.buffers \in Seq(Chunks) /\ Len(P.buffers) \in Nat /\ k \in Nat
        /\ P.pending \in Seq(Chunks) /\ P.returned \in Nat /\ u \in Nat
        /\ P.returned <= Len(P.buffers)
    BY LinedLengths
  <1>2. /\ Q.buffers = P.buffers \o a /\ Q.returned = P.returned
        /\ Q.pending = SubSeq(P.pending, k + 1, Len(P.pending))
    BY DEF Submitted, PlayerOK, PlayerType
  <1>3. a \in Seq(Chunks) /\ Len(a) = k /\ \A i \in 1..k : a[i] = P.pending[i]
    <2>1. PICK s \in Seq(Chunks), j \in Nat : s = P.pending /\ j = k
      BY <1>1
    <2>0. j \in 0..Len(s)
      BY <2>1
    <2>2. /\ SubSeq(s, 1, j) \in Seq(Chunks) /\ Len(SubSeq(s, 1, j)) = j
          /\ \A i \in 1..j : SubSeq(s, 1, j)[i] = s[i]
      BY <2>0, CutSequence
    <2> QED BY <2>1, <2>2, Zenon
  <1>4. Q.pending = <<>>
    <2>1. Len(P.pending) \in 0..Len(P.pending)
      BY <1>1
    <2>2. PlayerOK(Q)
      BY <2>1, SubmittedOK
    <2>3. PICK s \in Seq(Chunks), j \in Nat : s = P.pending /\ j = k
      BY <1>1
    <2>8. j \in 0..Len(s)
      BY <2>3
    <2>4. Len(SubSeq(s, j + 1, Len(s))) = Len(s) - j /\ Len(s) \in Nat
      BY <2>8, CutSequence, LenProperties
    <2>5. Q.pending \in Seq(Chunks)
      BY <2>2, LinedLengths
    <2> HIDE DEF Q
    <2>6. Len(Q.pending) = Len(s) - j
      BY <1>2, <2>3, <2>4, Zenon
    <2>7. Len(Q.pending) = 0
      BY <2>3, <2>4, <2>6
    <2> QED BY <2>5, <2>7, EmptySeq
  <1> HIDE DEF Q, a
  <1>5. /\ Len(Q.buffers) = Len(P.buffers) + k
        /\ \A i \in 1..Len(P.buffers) : Q.buffers[i] = P.buffers[i]
        /\ \A i \in 1..k : Q.buffers[Len(P.buffers) + i] = P.pending[i]
    <2>1. PICK s \in Seq(Chunks), t \in Seq(Chunks) : s = P.buffers /\ t = a
      BY <1>1, <1>3
    <2>2. /\ Len(s \o t) = Len(s) + Len(t)
          /\ \A i \in 1..Len(s) : (s \o t)[i] = s[i]
          /\ \A i \in 1..Len(t) : (s \o t)[Len(s) + i] = t[i]
      BY JoinSequences
    <2>3. /\ Len(Q.buffers) = Len(P.buffers) + Len(a)
          /\ \A i \in 1..Len(P.buffers) : Q.buffers[i] = P.buffers[i]
          /\ \A i \in 1..Len(a) : Q.buffers[Len(P.buffers) + i] = a[i]
      BY <1>2, <2>1, <2>2, Zenon
    <2> QED BY <1>3, <2>3
  <1>11. PICK b \in Nat, r \in Nat : b = Len(P.buffers) /\ r = P.returned
    BY <1>1
  <1>12. u = b - r /\ r <= b /\ u \in Nat /\ k \in Nat
    BY <1>1, <1>11
  <1> HIDE DEF u, k
  <1>6. Len(Q.buffers) - Q.returned = u + k /\ Len(Q.pending) = 0
    <2>1. Len(Q.buffers) = b + k /\ Q.returned = r
      BY <1>2, <1>5, <1>11
    <2>2. Len(Q.pending) = 0
      BY <1>4, RangeOfEmpty, Zenon
    <2>3. (b + k) - r = u + k
      BY <1>12
    <2> QED BY <2>1, <2>2, <2>3
  <1>7. ASSUME NEW i \in 1..(u + k)
        PROVE  Q.buffers[P.returned + i].n = h + i
    <2>1. CASE i <= u
      <3>1. P.returned + i \in 1..Len(P.buffers) /\ i \in 1..u
        BY <1>11, <1>12, <2>1
      <3>2. P.buffers[P.returned + i].n = h + i
        BY <3>1 DEF Lined, u
      <3> QED BY <1>5, <3>1, <3>2
    <2>2. CASE i > u
      <3>1. i - u \in 1..k /\ P.returned + i = Len(P.buffers) + (i - u) /\ h + u + (i - u) = h + i
        <4>1. i - u \in 1..k
          BY <1>12, <2>2
        <4>2. r + i = b + (i - u)
          BY <1>12, <2>2
        <4>3. h + u + (i - u) = h + i
          BY <1>12, <2>2
        <4> QED BY <1>11, <4>1, <4>2, <4>3
      <3>2. P.pending[i - u].n = h + u + (i - u)
        BY <3>1 DEF Lined, u, k
      <3>3. Q.buffers[Len(P.buffers) + (i - u)] = P.pending[i - u]
        BY <1>5, <3>1
      <3> QED BY <3>1, <3>2, <3>3
    <2> QED BY <1>12, <2>1, <2>2
  <1>8. \A i \in 1..Len(Q.pending) : FALSE
    BY <1>6
  <1>9. Lined(Q, h)
    BY <1>2, <1>6, <1>7, <1>8 DEF Lined
  <1>10. Queue(Q) = Queue(P)
    <2>1. Queue(Q) = u + k + 0 /\ Queue(P) = u + k
      BY <1>6 DEF Queue, u, k
    <2> QED BY <1>12, <2>1
  <1> QED BY <1>4, <1>9, <1>10 DEF Q, k

LEMMA FlushLined ==
  ASSUME NEW P, PlayerOK(P), P.sink # "Disabled", NEW h \in Nat, Lined(P, h),
         NEW x \in Flush(P), x.out = "done"
  PROVE  Lined(x.p, h) /\ Queue(x.p) = Queue(P) /\ x.p.pending = <<>>
  <1>1. CASE P.pending = <<>>
    <2>1. x.p = P
      BY <1>1 DEF Flush, Outcome
    <2> QED BY <1>1, <2>1
  <1>2. CASE x = Outcome(Submitted(P, Len(P.pending)), "done")
    <2>1. x.p = Submitted(P, Len(P.pending))
      BY <1>2 DEF Outcome
    <2> QED BY <2>1, SubmittedLined
  <1>3. x \notin FlushFailures(P)
    BY DEF FlushFailures, Outcome
  <1> QED BY <1>1, <1>2, <1>3 DEF Flush

LEMMA PushLined ==
  ASSUME NEW P, PlayerOK(P), P.sink # "Disabled", NEW h \in Nat, Lined(P, h),
         NEW c \in Chunks, c.n = h + Queue(P) + 1, NEW x \in Push(P, c), x.out = "done"
  PROVE  Lined(x.p, h) /\ Queue(x.p) = Queue(P) + 1
  <1> DEFINE Q == [P EXCEPT !.pending = Append(P.pending, c)]
             u == Len(P.buffers) - P.returned
  <1>1. /\ P.pending \in Seq(Chunks) /\ Len(P.pending) \in Nat /\ u \in Nat
    BY LinedLengths
  <1>2. /\ Append(P.pending, c) \in Seq(Chunks)
        /\ Len(Append(P.pending, c)) = Len(P.pending) + 1
        /\ \A i \in 1..Len(P.pending) : Append(P.pending, c)[i] = P.pending[i]
        /\ Append(P.pending, c)[Len(P.pending) + 1] = c
    <2>1. PICK s \in Seq(Chunks) : s = P.pending
      BY <1>1
    <2>2. /\ Append(s, c) \in Seq(Chunks) /\ Len(Append(s, c)) = Len(s) + 1
          /\ \A i \in 1..Len(s) : Append(s, c)[i] = s[i]
          /\ Append(s, c)[Len(s) + 1] = c
      BY RangeOfAppend
    <2> QED BY <2>1, <2>2, Zenon
  <1>3. /\ Q.buffers = P.buffers /\ Q.driver = P.driver
        /\ Q.sink = P.sink /\ Q.epoch = P.epoch /\ Q.unhealthy = P.unhealthy
        /\ Q.open = P.open /\ Q.pending = Append(P.pending, c) /\ Q.orphaned = P.orphaned
        /\ Q.leaked = P.leaked /\ Q.returned = P.returned
    BY DEF PlayerOK, PlayerType
  <1>4. PlayerType(Q)
    BY <1>2, <1>3 DEF PlayerOK, PlayerType
  <1>5. x \in Flush(Q) \/ x = Outcome(Q, "done")
    BY DEF Push
  <1> HIDE DEF Q
  <1>6. PlayerOK(Q)
    BY <1>3, <1>4 DEF PlayerOK, PlayerInv
  <1>7. ASSUME NEW i \in 1..(Len(P.pending) + 1)
        PROVE  Q.pending[i].n = h + u + i
    <2>1. CASE i \in 1..Len(P.pending)
      BY <1>2, <1>3, <2>1 DEF Lined
    <2>2. CASE i = Len(P.pending) + 1
      <3>1. c.n = h + u + i
        BY <1>1, <2>2 DEF Queue
      <3> QED BY <1>2, <1>3, <2>2, <3>1
    <2> QED BY <1>1, <2>1, <2>2
  <1>8. Len(Q.pending) = Len(P.pending) + 1
    BY <1>2, <1>3
  <1>9. Lined(Q, h)
    BY <1>3, <1>7, <1>8 DEF Lined
  <1>10. Queue(Q) = Queue(P) + 1
    BY <1>1, <1>3, <1>8 DEF Queue
  <1>11. CASE x \in Flush(Q)
    <2>1. Lined(x.p, h) /\ Queue(x.p) = Queue(Q)
      BY <1>3, <1>6, <1>9, <1>11, FlushLined
    <2> QED BY <1>10, <2>1
  <1>12. CASE x = Outcome(Q, "done")
    <2>1. x.p = Q
      BY <1>12 DEF Outcome
    <2> QED BY <1>9, <1>10, <2>1
  <1> QED BY <1>5, <1>11, <1>12

\* enqueue of the next chunk under the current epoch: it gets in, or the thread sleeps.
LEMMA EnqueueLined ==
  ASSUME NEW P, PlayerOK(P), P.sink # "Disabled", NEW h \in Nat, Lined(P, h),
         NEW c \in Chunks, c.n = h + Queue(P) + 1, c.ep = P.epoch,
         NEW resumed, NEW x \in Enqueue(P, c, resumed)
  PROVE  /\ x.out \in {"done", "wait", "threw"}
         /\ x.out = "done" => Lined(x.p, h) /\ Queue(x.p) = Queue(P) + 1
         /\ x.out = "wait" => Lined(x.p, h) /\ Queue(x.p) = Queue(P)
  <1>1. x = Outcome(P, "threw") \/ x \in Admit(P, c)
    BY DEF Enqueue
  <1>2. CASE x = Outcome(P, "threw")
    BY <1>2 DEF Outcome
  <1>3. CASE x \in Admit(P, c)
    <2>1. PICK r \in Reap(P) :
            \/ r.out = "threw" /\ x = r
            \/ r.out # "threw" /\ x = Outcome(r.p, "wait")
            \/ r.out # "threw" /\ x \in Push(r.p, c)
      BY <1>3 DEF Admit
    <2>2. /\ PlayerOK(r.p) /\ Within(P, r.p, {}) /\ r.out \in {"done", "threw"}
          /\ r.out = "done" => r.p = Reaped(P, P.returned)
      BY ReapOK
    <2>3. CASE r.out = "threw" /\ x = r
      BY <2>3
    <2>4. CASE r.out = "done"
      <3>1. Lined(r.p, h) /\ Queue(r.p) = Queue(P)
        BY <2>2, <2>4, ReapedLined
      <3>2. CASE x = Outcome(r.p, "wait")
        <4>1. x.p = r.p /\ x.out = "wait"
          BY <3>2 DEF Outcome
        <4> QED BY <3>1, <4>1
      <3>3. CASE x \in Push(r.p, c)
        <4>1. r.p.sink # "Disabled" /\ c.n = h + Queue(r.p) + 1
          BY <2>2, <3>1 DEF Within
        <4>2. x.out \in {"done", "threw"}
          BY <2>2, <3>3, <4>1, PushOK
        <4>3. x.out = "done" => Lined(x.p, h) /\ Queue(x.p) = Queue(r.p) + 1
          BY <2>2, <3>1, <3>3, <4>1, PushLined
        <4> QED BY <3>1, <4>2, <4>3
      <3> QED BY <2>1, <2>4, <3>2, <3>3
    <2> QED BY <2>1, <2>2, <2>3, <2>4
  <1> QED BY <1>1, <1>2, <1>3

\* wait_until_idle plays out what is there, in line.
LEMMA WaitUntilIdleLined ==
  ASSUME NEW P, PlayerOK(P), P.sink # "Disabled", NEW h \in Nat, Lined(P, h),
         NEW resumed, resumed => P.pending = <<>>,
         NEW x \in WaitUntilIdle(P, resumed), x.out \in {"done", "wait"}
  PROVE  /\ Lined(x.p, h) /\ Queue(x.p) = Queue(P) /\ x.p.pending = <<>>
         /\ x.out = "done" => x.p.buffers = <<>>
  <1>1. ASSUME NEW R, PlayerOK(R), Lined(R, h), R.pending = <<>>, Queue(R) = Queue(P),
               x \in IdleTurn(R)
        PROVE  /\ Lined(x.p, h) /\ Queue(x.p) = Queue(P) /\ x.p.pending = <<>>
               /\ x.out = "done" => x.p.buffers = <<>>
    <2>1. /\ x.out = "done" => x.p = Reaped(R, R.returned) /\ x.p.buffers = <<>>
          /\ x.out = "wait" => x.p = Reaped(R, R.returned)
      BY <1>1, IdleTurnOK
    <2> QED BY <1>1, <2>1, ReapedLined
  <1>2. \/ resumed /\ x \in IdleTurn(P)
        \/ x = Outcome(P, "threw")
        \/ \E r \in Flush(P) : \/ r.out = "threw" /\ x = r
                               \/ r.out # "threw" /\ x \in IdleTurn(r.p)
    BY DEF WaitUntilIdle
  <1>3. CASE resumed /\ x \in IdleTurn(P)
    BY <1>1, <1>3
  <1>4. CASE x = Outcome(P, "threw")
    BY <1>4 DEF Outcome
  <1>5. ASSUME NEW r \in Flush(P), r.out # "threw", x \in IdleTurn(r.p)
        PROVE  /\ Lined(x.p, h) /\ Queue(x.p) = Queue(P) /\ x.p.pending = <<>>
               /\ x.out = "done" => x.p.buffers = <<>>
    <2>1. PlayerOK(r.p) /\ r.out = "done"
      BY <1>5, FlushOK
    <2>2. Lined(r.p, h) /\ Queue(r.p) = Queue(P) /\ r.p.pending = <<>>
      BY <2>1, FlushLined
    <2> QED BY <1>1, <1>5, <2>1, <2>2
  <1>6. ASSUME NEW r \in Flush(P), r.out = "threw", x = r
        PROVE  FALSE
    BY <1>6
  <1> QED BY <1>2, <1>3, <1>4, <1>5, <1>6

\* The driver returns the next chunk.
LEMMA ReturnedLined ==
  ASSUME NEW P, PlayerOK(P), NEW h \in Nat, Lined(P, h), CanReturn(P)
  PROVE  /\ Lined(Returned(P), h + 1) /\ Queue(Returned(P)) + 1 = Queue(P)
         /\ P.buffers[P.returned + 1].n = h + 1
  <1> DEFINE Q == Returned(P)
             u == Len(P.buffers) - P.returned
  <1>1. /\ P.pending \in Seq(Chunks) /\ Len(P.pending) \in Nat /\ u \in Nat
        /\ P.returned \in Nat /\ Len(P.buffers) \in Nat
    BY LinedLengths
  <1>2. u >= 1
    BY <1>1 DEF CanReturn
  <1>3. Q.buffers = P.buffers /\ Q.pending = P.pending /\ Q.returned = P.returned + 1
    BY ReturnedOK
  <1>4. P.buffers[P.returned + 1].n = h + 1
    BY <1>1, <1>2 DEF Lined
  <1> HIDE DEF Q
  <1>5. Len(Q.buffers) - Q.returned = u - 1
    BY <1>1, <1>3
  <1>6. ASSUME NEW i \in 1..(u - 1)
        PROVE  Q.buffers[Q.returned + i].n = (h + 1) + i
    <2>1. i + 1 \in 1..u /\ Q.returned + i = P.returned + (i + 1) /\ h + (i + 1) = (h + 1) + i
      BY <1>1, <1>3
    <2>2. P.buffers[P.returned + (i + 1)].n = h + (i + 1)
      BY <2>1 DEF Lined
    <2> QED BY <1>3, <2>1, <2>2
  <1>7. ASSUME NEW i \in 1..Len(P.pending)
        PROVE  P.pending[i].n = (h + 1) + (u - 1) + i
    <2>1. P.pending[i].n = h + u + i
      BY DEF Lined
    <2>2. h + u + i = (h + 1) + (u - 1) + i
      BY <1>1
    <2> QED BY <2>1, <2>2
  <1>8. Lined(Q, h + 1)
    BY <1>3, <1>5, <1>6, <1>7 DEF Lined
  <1>9. Queue(Q) + 1 = Queue(P)
    BY <1>1, <1>3, <1>5 DEF Queue
  <1> QED BY <1>4, <1>8, <1>9 DEF Q
-----------------------------------------------------------------------------
(* How the line of chunks moves.                                           *)

ChainRecord == [held : Nat, finished : BOOLEAN]

\* process(chunk): chunk n goes on, or takes the place of the one held back.
LEMMA FlowProcess ==
  ASSUME NEW P, NEW H, NEW c \in ChainRecord, NEW e \in Nat, NEW n \in Nat, ~c.finished,
         ~opts.fade => c.held = 0, Flow(P, H, c, e, <<>>, n - 1),
         NEW o, o = [i \in 1..Len(ProcessOut(c, n)) |-> Chunk(1, ProcessOut(c, n)[i], e)]
  PROVE  /\ Flow(P, H, ProcessNext(c, n), e, o, n) /\ ~ProcessNext(c, n).finished
         /\ ~opts.fade => ProcessNext(c, n).held = 0
  <1>1. PICK m \in Nat :
          /\ Told(P, H, m)
          /\ c.held = 0 => n - 1 = m + Len(<<>>)
          /\ c.held # 0 => n - 1 = m + Len(<<>>) + 1 /\ c.held = n - 1
    BY DEF Flow
  <1>2. /\ c.held = 0 => n = m + 1
        /\ c.held # 0 => n = m + 2 /\ c.held = m + 1
    BY <1>1, RangeOfEmpty
  <1>3. CASE ~opts.fade
    <2>1. c.held = 0 /\ ProcessOut(c, n) = <<n>> /\ ProcessNext(c, n) = c
      BY <1>3 DEF ProcessOut, ProcessNext
    <2>2. o = [i \in 1..Len(<<n>>) |-> Chunk(1, <<n>>[i], e)]
      BY <2>1
    <2>3. Len(o) = 1 /\ o[1].n = n /\ o[1].ep = e
      BY <2>2 DEF Chunk
    <2> HIDE DEF ProcessOut
    <2>4. Flow(P, H, c, e, o, n)
      BY <1>1, <1>2, <2>1, <2>3 DEF Flow
    <2> QED BY <1>3, <2>1, <2>4
  <1>4. CASE opts.fade /\ c.held = 0
    <2>1. /\ ProcessOut(c, n) = <<>> /\ ProcessNext(c, n) = [c EXCEPT !.held = n]
      BY <1>4 DEF ProcessOut, ProcessNext
    <2>2. o = <<>>
      BY <2>1
    <2>3. ProcessNext(c, n).held = n /\ ~ProcessNext(c, n).finished
      BY <2>1 DEF ChainRecord
    <2>4. n # 0 /\ n = m + Len(o) + 1 /\ Len(o) <= 1
      BY <1>2, <1>4, <2>2, RangeOfEmpty
    <2>5. Flow(P, H, ProcessNext(c, n), e, o, n)
      BY <1>1, <2>2, <2>3, <2>4 DEF Flow
    <2> QED BY <1>4, <2>3, <2>5
  <1>5. CASE opts.fade /\ c.held # 0
    <2>1. /\ ProcessOut(c, n) = <<c.held>> /\ ProcessNext(c, n) = [c EXCEPT !.held = n]
      BY <1>5 DEF ProcessOut, ProcessNext
    <2>2. o = [i \in 1..Len(<<c.held>>) |-> Chunk(1, <<c.held>>[i], e)]
      BY <2>1
    <2>3. Len(o) = 1 /\ o[1].n = c.held /\ o[1].ep = e
      BY <2>2 DEF Chunk
    <2>4. ProcessNext(c, n).held = n /\ ~ProcessNext(c, n).finished
      BY <2>1 DEF ChainRecord
    <2>5. n # 0 /\ n = m + Len(o) + 1 /\ Len(o) <= 1 /\ o[1].n = m + 1
      BY <1>2, <1>5, <2>3
    <2>6. Flow(P, H, ProcessNext(c, n), e, o, n)
      BY <1>1, <2>3, <2>4, <2>5 DEF Flow
    <2> QED BY <1>5, <2>4, <2>6
  <1> QED BY <1>3, <1>4, <1>5

\* finish(Completed): the chunk held back goes on.
LEMMA FlowFinish ==
  ASSUME NEW P, NEW H, NEW c \in ChainRecord, NEW e \in Nat, NEW n \in Nat, ~c.finished,
         Flow(P, H, c, e, <<>>, n),
         NEW o, o = [i \in 1..Len(FinishOut(c)) |-> Chunk(1, FinishOut(c)[i], e)]
  PROVE  Flow(P, H, FinishNext, e, o, n) /\ FinishNext.held = 0
  <1>1. PICK m \in Nat :
          /\ Told(P, H, m)
          /\ c.held = 0 => n = m + Len(<<>>)
          /\ c.held # 0 => n = m + Len(<<>>) + 1 /\ c.held = n
    BY DEF Flow
  <1>2. c.held = 0 => n = m
    BY <1>1, RangeOfEmpty
  <1>3. c.held # 0 => n = m + 1 /\ c.held = m + 1
    BY <1>1, RangeOfEmpty
  <1>4. FinishNext.held = 0
    BY DEF FinishNext
  <1>5. CASE c.held = 0
    <2>1. o = <<>>
      BY <1>5 DEF FinishOut
    <2>2. n = m + Len(o) /\ Len(o) <= 1
      BY <1>2, <1>5, <2>1, RangeOfEmpty
    <2> QED BY <1>1, <1>4, <2>1, <2>2 DEF Flow
  <1>6. CASE c.held # 0
    <2>1. FinishOut(c) = <<c.held>>
      BY <1>6 DEF FinishOut
    <2>2. o = [i \in 1..Len(<<c.held>>) |-> Chunk(1, <<c.held>>[i], e)]
      BY <2>1
    <2>3. Len(o) = 1 /\ o[1].n = c.held /\ o[1].ep = e
      BY <2>2 DEF Chunk
    <2>4. n = m + Len(o) /\ Len(o) <= 1 /\ o[1].n = m + 1
      BY <1>3, <1>6, <2>3
    <2> QED BY <1>1, <1>4, <2>3, <2>4 DEF Flow
  <1> QED BY <1>5, <1>6

\* enqueue of the chunk at hand.
LEMMA FlowEnqueue ==
  ASSUME NEW P, PlayerOK(P), P.sink # "Disabled", NEW H \in Seq(Nat), NEW c, NEW n,
         NEW e, e = P.epoch, NEW o \in Seq(Chunks), o # <<>>, Flow(P, H, c, e, o, n),
         NEW resumed, NEW x \in Enqueue(P, Head(o), resumed)
  PROVE  /\ x.out \in {"done", "wait", "threw"}
         /\ x.out = "done" => Flow(x.p, H, c, e, Tail(o), n)
         /\ x.out = "wait" => Flow(x.p, H, c, e, o, n)
  <1>1. PICK m \in Nat :
          /\ Told(P, H, m) /\ Len(o) <= 1
          /\ o[1].n = m + 1 /\ o[1].ep = e
          /\ c.held = 0 => n = m + Len(o)
          /\ c.held # 0 => n = m + Len(o) + 1 /\ c.held = n
    BY DEF Flow
  <1>2. /\ Head(o) \in Chunks /\ Head(o) = o[1] /\ Tail(o) \in Seq(Chunks)
        /\ Len(o) = 1 /\ Len(Tail(o)) = 0
    <2>1. /\ Head(o) \in Chunks /\ Head(o) = o[1] /\ Tail(o) \in Seq(Chunks)
          /\ Len(o) >= 1 /\ Len(Tail(o)) = Len(o) - 1 /\ Len(o) \in Nat
      BY HeadAndTail, LenProperties
    <2> QED BY <1>1, <2>1
  <1>3. Tail(o) = <<>>
    BY <1>2, EmptySeq
  <1>4. PICK h \in Nat : h = Len(H)
    BY LenProperties
  <1>5. /\ \A i \in 1..Len(H) : H[i] = i
        /\ Lined(P, h) /\ h + Queue(P) = m
    BY <1>1, <1>4 DEF Told
  <1>6. PICK k \in Chunks : k = Head(o)
    BY <1>2
  <1>7. k.n = h + Queue(P) + 1 /\ k.ep = P.epoch
    BY <1>1, <1>2, <1>5, <1>6
  <1>8. /\ x.out \in {"done", "wait", "threw"}
        /\ x.out = "done" => Lined(x.p, h) /\ Queue(x.p) = Queue(P) + 1
        /\ x.out = "wait" => Lined(x.p, h) /\ Queue(x.p) = Queue(P)
    BY <1>5, <1>6, <1>7, EnqueueLined
  <1>9. Queue(P) \in Nat
    BY LinedLengths
  <1>10. ASSUME x.out = "done" PROVE Flow(x.p, H, c, e, Tail(o), n)
    <2>1. Told(x.p, H, m + 1)
      BY <1>4, <1>5, <1>8, <1>9, <1>10 DEF Told
    <2>2. /\ m + 1 \in Nat /\ Len(Tail(o)) <= 1
          /\ c.held = 0 => n = (m + 1) + Len(Tail(o))
          /\ c.held # 0 => n = (m + 1) + Len(Tail(o)) + 1 /\ c.held = n
      <3>1. Len(o) = 1 /\ Len(Tail(o)) = 0
        BY <1>2
      <3>2. m + 1 = (m + 1) + 0 /\ m + 1 \in Nat /\ 0 <= 1
        OBVIOUS
      <3> QED BY <1>1, <3>1, <3>2, Zenon
    <2> QED BY <1>3, <2>1, <2>2 DEF Flow
  <1>11. ASSUME x.out = "wait" PROVE Flow(x.p, H, c, e, o, n)
    <2>1. Told(x.p, H, m)
      BY <1>4, <1>5, <1>8, <1>11 DEF Told
    <2> QED BY <1>1, <2>1 DEF Flow
  <1> QED BY <1>8, <1>10, <1>11

\* The driver plays the first chunk in line.
LEMMA ToldReturned ==
  ASSUME NEW P, PlayerOK(P), CanReturn(P), NEW H \in Seq(Nat), NEW m, Told(P, H, m)
  PROVE  Told(Returned(P), Append(H, P.buffers[P.returned + 1].n), m)
  <1>1. PICK h \in Nat : h = Len(H)
    BY LenProperties
  <1>2. (\A i \in 1..h : H[i] = i) /\ Lined(P, h) /\ h + Queue(P) = m
    BY <1>1 DEF Told
  <1>3. /\ Lined(Returned(P), h + 1) /\ Queue(Returned(P)) + 1 = Queue(P)
        /\ P.buffers[P.returned + 1].n = h + 1
    BY <1>2, ReturnedLined
  <1>4. h + 1 \in Nat
    OBVIOUS
  <1> DEFINE G == Append(H, h + 1)
  <1>5. Len(G) = h + 1 /\ (\A i \in 1..h : G[i] = H[i]) /\ G[h + 1] = h + 1
    BY <1>1, <1>4, AppendProperties
  <1> HIDE DEF G
  <1>6. \A i \in 1..Len(G) : G[i] = i
    BY <1>2, <1>5
  <1>7. Queue(P) \in Nat /\ Queue(Returned(P)) \in Nat
    BY LinedLengths, ReturnedOK
  <1>8. Len(G) + Queue(Returned(P)) = m
    BY <1>2, <1>3, <1>5, <1>7
  <1>9. Told(Returned(P), G, m)
    BY <1>3, <1>5, <1>6, <1>8 DEF Told
  <1> QED BY <1>3, <1>9 DEF G

LEMMA FlowReturned ==
  ASSUME NEW P, PlayerOK(P), CanReturn(P), NEW H \in Seq(Nat), NEW c, NEW e, NEW o, NEW n,
         Flow(P, H, c, e, o, n)
  PROVE  Flow(Returned(P), Append(H, P.buffers[P.returned + 1].n), c, e, o, n)
  BY ToldReturned DEF Flow

\* A turn of wait_until_idle.
LEMMA ToldIdle ==
  ASSUME NEW P, PlayerOK(P), P.sink # "Disabled", NEW H \in Seq(Nat), NEW m, Told(P, H, m),
         NEW resumed, resumed => P.pending = <<>>,
         NEW x \in WaitUntilIdle(P, resumed), x.out \in {"done", "wait"}
  PROVE  /\ Told(x.p, H, m) /\ x.p.pending = <<>>
         /\ x.out = "done" => x.p.buffers = <<>>
  <1>1. Len(H) \in Nat
    BY LenProperties
  <1> QED BY <1>1, WaitUntilIdleLined DEF Told

\* With the player empty, everything has been played.
LEMMA ToldAll ==
  ASSUME NEW P, PlayerOK(P), P.buffers = <<>>, P.pending = <<>>, NEW H \in Seq(Nat),
         NEW m, Told(P, H, m)
  PROVE  H = [i \in 1..m |-> i]
  <1>1. Queue(P) = 0
    BY LinedLengths, RangeOfEmpty DEF Queue
  <1>2. Len(H) \in Nat /\ DOMAIN H = 1..Len(H)
    BY LenProperties
  <1>3. Len(H) = m
    BY <1>1, <1>2 DEF Told
  <1>4. H = [i \in 1..Len(H) |-> H[i]]
    BY <1>2
  <1> QED BY <1>3, <1>4 DEF Told

\* Nothing queued, nothing played.
LEMMA ToldNothing ==
  ASSUME NEW P, PlayerOK(P), Audio(P) = {}
  PROVE  Told(P, <<>>, 0) /\ P.buffers = <<>> /\ P.pending = <<>>
  <1>1. /\ P.buffers \in Seq(Chunks) /\ P.pending \in Seq(Chunks)
        /\ P.returned \in Nat /\ P.returned <= Len(P.buffers)
    BY LinedLengths
  <1>2. \A s \in Seq(Chunks) : Range(s) = {} => s = <<>>
    <2> SUFFICES ASSUME NEW s \in Seq(Chunks), s # <<>> PROVE Range(s) # {}
      OBVIOUS
    <2> QED BY HeadAndTail
  <1>3. P.buffers = <<>> /\ P.pending = <<>>
    BY <1>1, <1>2 DEF Audio
  <1>4. Len(P.buffers) = 0 /\ Len(P.pending) = 0 /\ P.returned = 0
    BY <1>1, <1>3, RangeOfEmpty
  <1>5. Queue(P) = 0
    BY <1>4 DEF Queue
  <1>6. Lined(P, 0)
    BY <1>4 DEF Lined
  <1> QED BY <1>3, <1>5, <1>6, RangeOfEmpty DEF Told
-----------------------------------------------------------------------------
(* The callbacks of a one-shot request.                                    *)

\* While a callback runs there is no other, and main is past the request's start.
LEMMA BusyClient ==
  ASSUME PlayInv, OneShotInv, NEW d \in Clients, pc[d] # "idle"
  PROVE  /\ loc[d].r = 1 /\ 1 \in Requests /\ owner[1] = d
         /\ \A e \in Clients : e # d => pc[e] = "idle"
         /\ loc["main"].kind \notin {"oneshot", "success"}
         /\ pc["main"] \notin {"send", "flush", "submit"} /\ shot # "success"
  <1>1. loc[d].r = 1 /\ owner[1] = d /\ \A e \in Clients : e # d => pc[e] = "idle"
    BY DEF OneShotInv, OneShotCallback
  <1>2. 1 \in Requests
    BY <1>1 DEF PlayInv, CallbackPlace
  <1>3. shot # "success" /\ loc["main"].kind # "success" /\ pc["main"] # "flush"
    BY DEF OneShotInv, OneShotPlayed
  <1>4. loc["main"].kind # "oneshot"
    BY DEF OneShotInv, OneShotBefore
  <1>5. pc["main"] \notin {"send", "submit"}
    BY <1>4 DEF OneShotInv, OneShotMain
  <1> QED BY <1>1, <1>2, <1>3, <1>4, <1>5

\* A step of a callback, the line of chunks apart.
LEMMA ClientStep ==
  ASSUME PlayInv, OneShotInv, NEW d \in Clients, pc[d] # "idle",
         NEW label \in CallbackLabels, NEW l \in Locals, Resume(d, label, l),
         label # "idle" => l.r = 1,
         label # "idle" /\ l.kind = "completed" => loc[d].kind = "completed",
         label = "complete" => l.kind = "completed",
         req' = req, owner' = owner, active' \in {0, 1},
         active' = 1 => active = 1 /\ shot' = shot /\ label \in EarlyLabels,
         active' = 1 /\ label \in {"process", "enqueue"} => l.kind \in {"audio", "completed"}
  PROVE  /\ OneShotMain' /\ OneShotCallback' /\ OneShotActive' /\ OneShotBefore'
         /\ shot' # "success" => OneShotPlayed'
         /\ pc'[d] = label /\ (label # "idle" => loc'[d] = l)
         /\ pc'["main"] = pc["main"] /\ loc'["main"] = loc["main"]
         /\ \A e \in Clients : e # d => pc'[e] = "idle"
  <1>1. /\ loc[d].r = 1 /\ 1 \in Requests /\ owner[1] = d
        /\ \A e \in Clients : e # d => pc[e] = "idle"
        /\ loc["main"].kind \notin {"oneshot", "success"}
        /\ pc["main"] \notin {"send", "flush", "submit"} /\ shot # "success"
    BY BusyClient
  <1>2. d \in Threads /\ d # "main" /\ "main" \in Threads /\ \A e \in Clients : e \in Threads
    BY Constants
  <1>3. /\ pc'[d] = label /\ (label # "idle" => loc'[d] = l)
        /\ \A u \in Threads : u # d => pc'[u] = pc[u] /\ loc'[u] = loc[u]
    BY <1>2, OthersStay DEF PlayInv, CallbackLabels
  <1>4. /\ pc'["main"] = pc["main"] /\ loc'["main"] = loc["main"]
        /\ \A e \in Clients : e # d => pc'[e] = "idle"
    BY <1>1, <1>2, <1>3
  <1>5. OneShotMain'
    BY <1>1, <1>4 DEF OneShotInv, OneShotMain
  <1>6. OneShotCallback'
    <2>1. \A r \in Requests : r # 1 => req'[r] = "new"
      BY DEF OneShotInv, OneShotCallback
    <2>2. loc[d].kind = "completed" => req[1] = "ended"
      BY DEF OneShotInv, OneShotCallback
    <2>3. \A e \in Clients :
            pc'[e] # "idle" =>
              /\ loc'[e].r = 1 /\ owner'[1] = e
              /\ loc'[e].kind = "completed" => req'[1] = "ended"
              /\ pc'[e] = "complete" => loc'[e].kind = "completed"
      BY <1>1, <1>3, <1>4, <2>2
    <2> QED BY <2>1, <2>3 DEF OneShotCallback, Requests
  <1>7. OneShotActive'
    <2>1. CASE active' # 1
      BY <2>1 DEF OneShotActive
    <2>2. CASE active' = 1
      <3>1. pc'["main"] \in {"send", "await", "claim"} /\ shot' = "open"
        BY <1>4, <2>2 DEF OneShotInv, OneShotActive
      <3>2. \A e \in Clients :
              /\ pc'[e] \in EarlyLabels
              /\ pc'[e] \in {"process", "enqueue"} => loc'[e].kind \in {"audio", "completed"}
        BY <1>3, <1>4, <2>2 DEF EarlyLabels
      <3> QED BY <3>1, <3>2 DEF OneShotActive
    <2> QED BY <2>1, <2>2
  <1>8. OneShotBefore'
    BY <1>1, <1>4 DEF OneShotBefore
  <1>9. ASSUME shot' # "success" PROVE OneShotPlayed'
    BY <1>1, <1>4, <1>9 DEF OneShotPlayed
  <1> QED BY <1>3, <1>4, <1>5, <1>6, <1>7, <1>8, <1>9

\* With no active request the line of chunks is nobody's concern until main looks at it.
LEMMA FlowOver ==
  ASSUME active' # 1
  PROVE  OneShotFlow'
  BY DEF OneShotFlow, Working

\* The steps of a callback after it has, or has found, the request no longer active.
LEMMA LateCallback ==
  ASSUME PlayInv, OneShotInv, NEW d \in Clients,
         \/ EnterTerminal(d) \/ Fail(d) \/ CallbackChainReset(d)
         \/ CallbackReset(d) \/ CallbackDrain(d) \/ Note(d)
  PROVE  OneShotInv'
  <1>1. loc[d] \in Locals /\ d \in Threads
    BY Constants DEF PlayInv, ThreadType
  <1>2. pc[d] # "idle"
    BY DEF EnterTerminal, Fail, CallbackChainReset, CallbackReset, CallbackDrain, Drain, Note
  <1>3. loc[d].r = 1 /\ shot # "success" /\ active \in {0, 1}
    BY <1>2, BusyClient DEF OneShotInv, OneShotActive
  <1>4. req' = req /\ owner' = owner
    BY DEF EnterTerminal, Fail, CallbackChainReset, CallbackReset, CallbackDrain, Drain, Note,
           AppUnchanged
  <1>5. shot' # "success"
    BY <1>3 DEF EnterTerminal, Fail, CallbackChainReset, CallbackReset, CallbackDrain, Drain,
           Note, AppUnchanged
  <1>6. active' = 0
    <2>1. CASE EnterTerminal(d)
      BY <1>3, <2>1 DEF EnterTerminal, None
    <2>2. CASE Fail(d)
      BY <1>3, <2>2 DEF Fail, None
    <2>3. CASE CallbackChainReset(d) \/ CallbackReset(d) \/ CallbackDrain(d) \/ Note(d)
      <3>1. pc[d] \notin EarlyLabels /\ active' = active
        BY <2>3 DEF CallbackChainReset, CallbackReset, CallbackDrain, Drain, Note, AppUnchanged,
                    EarlyLabels
      <3> QED BY <1>3, <3>1 DEF OneShotInv, OneShotActive
    <2> QED BY <2>1, <2>2, <2>3
  <1>7. \E label \in CallbackLabels, l \in Locals :
          /\ Resume(d, label, l) /\ label # "complete"
          /\ label # "idle" => l.r = 1
          /\ label # "idle" /\ l.kind = "completed" => loc[d].kind = "completed"
    <2>1. CASE EnterTerminal(d)
      <3>1. Resume(d, "chain", loc[d]) \/ Resume(d, "note", loc[d])
        BY <2>1 DEF EnterTerminal, Goto
      <3> QED BY <1>1, <1>3, <3>1 DEF CallbackLabels
    <2>2. CASE Fail(d)
      <3>1. \/ Resume(d, "reset", [loc[d] EXCEPT !.kind = "failed"])
            \/ Resume(d, "idle", loc[d])
        BY <2>2 DEF Fail, Goto
      <3>2. /\ [loc[d] EXCEPT !.kind = "failed"] \in Locals
            /\ [loc[d] EXCEPT !.kind = "failed"].r = loc[d].r
            /\ [loc[d] EXCEPT !.kind = "failed"].kind = "failed"
        BY <1>1 DEF Locals, Kinds
      <3> QED BY <1>1, <1>3, <3>1, <3>2 DEF CallbackLabels
    <2>3. CASE CallbackChainReset(d)
      <3>1. Resume(d, "reset", loc[d])
        BY <2>3 DEF CallbackChainReset, Goto
      <3> QED BY <1>1, <1>3, <3>1 DEF CallbackLabels
    <2>4. CASE CallbackReset(d)
      <3>1. PICK x, tail, e :
              /\ BeginReset(d, x, tail, "note") /\ tail \in Nat
              /\ x.out \in {"done", "wait", "threw"} /\ PlayerOK(x.p)
        BY <2>4, CallbackResetStep
      <3>2. x.p.epoch \in Nat
        BY <3>1 DEF PlayerOK, PlayerType
      <3>3. PICK l \in Locals :
              /\ l.r = loc[d].r /\ l.kind = loc[d].kind
              /\ Resume(d, AfterReset(x.out, "note"), l)
        BY <1>1, <3>1, <3>2, BeginResetStep
      <3>4. AfterReset(x.out, "note") \in {"drain", "enqueue", "note"}
        BY <3>1, AfterResets
      <3> QED BY <1>3, <3>3, <3>4 DEF CallbackLabels
    <2>5. CASE CallbackDrain(d)
      <3>1. PICK x : /\ x.out \in {"done", "wait", "threw"}
                     /\ Goto(d, AfterReset(x.out, "note"))
        BY <1>1, <2>5, DrainStep DEF CallbackDrain
      <3>2. AfterReset(x.out, "note") \in {"drain", "enqueue", "note"}
        BY <3>1, AfterResets
      <3> QED BY <1>1, <1>3, <3>1, <3>2 DEF CallbackLabels, Goto
    <2>6. CASE Note(d)
      <3>1. Resume(d, "idle", loc[d])
        BY <2>6 DEF Note, Goto
      <3> QED BY <1>1, <3>1 DEF CallbackLabels
    <2> QED BY <2>1, <2>2, <2>3, <2>4, <2>5, <2>6
  <1>8. OneShotMain' /\ OneShotCallback' /\ OneShotActive' /\ OneShotBefore' /\ OneShotPlayed'
    BY <1>2, <1>4, <1>5, <1>6, <1>7, ClientStep
  <1>9. OneShotFlow'
    BY <1>6, FlowOver
  <1> QED BY <1>8, <1>9 DEF OneShotInv
\* Audio or a terminal comes in: nobody else is in a callback.
LEMMA OneShotDeliver ==
  ASSUME PlayInv, OneShotInv, NEW d \in Clients, Deliver(d)
  PROVE  OneShotInv'
  <1>1. PICK r \in Requests, kind \in {"audio", "completed", "cancelled", "error"} :
          /\ req[r] = "live" /\ owner[r] = d
          /\ sent' = IF kind = "audio" THEN [sent EXCEPT ![r] = @ + 1] ELSE sent
          /\ req' = IF kind = "audio" THEN req ELSE [req EXCEPT ![r] = "ended"]
          /\ Resume(d, "enter", [NoLoc EXCEPT !.r = r, !.kind = kind])
    BY DEF Deliver
  <1>2. /\ pc[d] = "idle" /\ p' = p /\ active' = active /\ next' = next /\ chain' = chain
        /\ ep' = ep /\ owner' = owner /\ shot' = shot /\ heard' = heard /\ opts' = opts
    BY DEF Deliver
  <1>3. r = 1 /\ 1 \in Requests /\ \A e \in Clients : pc[e] = "idle"
    BY <1>1, <1>2 DEF OneShotInv, OneShotCallback
  <1>4. /\ pc["main"] # "send" /\ loc["main"].kind \notin {"oneshot", "success"}
        /\ shot # "success" /\ pc["main"] \notin {"flush", "submit"}
    <2>1. pc["main"] # "send"
      BY <1>1 DEF OneShotInv, OneShotMain
    <2>2. loc["main"].kind # "oneshot"
      BY <1>1 DEF OneShotInv, OneShotBefore
    <2>3. shot # "success"
      BY <1>1, <1>3 DEF OneShotInv, OneShotPlayed
    <2>4. loc["main"].kind # "success" /\ pc["main"] # "flush"
      BY <2>3 DEF OneShotInv, OneShotPlayed
    <2> QED BY <2>1, <2>2, <2>3, <2>4 DEF OneShotInv, OneShotMain
  <1>5. d \in Threads /\ d # "main" /\ "main" \in Threads /\ \A e \in Clients : e \in Threads
    BY Constants
  <1> DEFINE l == [NoLoc EXCEPT !.r = r, !.kind = kind]
  <1>6. l.r = 1 /\ l.kind = kind
    BY <1>3 DEF NoLoc
  <1> HIDE DEF l
  <1>7. /\ pc'[d] = "enter" /\ loc'[d].r = 1 /\ loc'[d].kind = kind
        /\ pc'["main"] = pc["main"] /\ loc'["main"] = loc["main"]
        /\ \A e \in Clients : e # d => pc'[e] = "idle"
    <2>1. Resume(d, "enter", l)
      BY <1>1 DEF l
    <2> QED BY <1>3, <1>5, <1>6, <2>1, OthersStay DEF PlayInv
  <1>8. /\ kind # "audio" => req'[1] = "ended"
        /\ \A q \in Requests : q # 1 => req'[q] = "new"
    BY <1>1, <1>3 DEF PlayInv, DataType, OneShotInv, OneShotCallback
  <1>9. (IF kind = "audio" THEN sent'[1] - 1 ELSE sent'[1]) = sent[1]
    <2>1. sent \in [Requests -> Nat]
      BY DEF PlayInv, DataType
    <2>2. CASE kind = "audio"
      <3>1. sent'[1] = sent[1] + 1 /\ sent[1] \in Nat
        BY <1>1, <1>3, <2>1, <2>2
      <3> QED BY <2>2, <3>1
    <2>3. CASE kind # "audio"
      BY <1>1, <2>3
    <2> QED BY <2>2, <2>3
  <1>10. OneShotMain'
    BY <1>4, <1>7 DEF OneShotInv, OneShotMain
  <1>11. OneShotCallback'
    <2>1. owner'[1] = d
      BY <1>1, <1>2, <1>3
    <2>2. \A e \in Clients :
            pc'[e] # "idle" =>
              /\ loc'[e].r = 1 /\ owner'[1] = e
              /\ loc'[e].kind = "completed" => req'[1] = "ended"
              /\ pc'[e] = "complete" => loc'[e].kind = "completed"
      BY <1>7, <1>8, <2>1
    <2> QED BY <1>8, <2>2 DEF OneShotCallback, Requests
  <1>12. OneShotActive'
    <2>1. \A e \in Clients : pc'[e] \in {"idle", "enter"}
      BY <1>7
    <2> QED BY <1>2, <1>7, <2>1 DEF OneShotInv, OneShotActive, EarlyLabels
  <1>13. OneShotBefore'
    BY <1>4, <1>7 DEF OneShotBefore
  <1>14. OneShotPlayed'
    BY <1>2, <1>4, <1>7 DEF OneShotPlayed
  <1>15. OneShotFlow'
    <2> SUFFICES ASSUME Working'
                 PROVE  /\ ep'[1] = p'.epoch
                        /\ ~opts'.fade => chain'[1].held = 0
                        /\ ~\A e \in Clients : pc'[e] = "idle"
                        /\ \A e \in Clients : FlowIn(e)'
      BY DEF OneShotFlow
    <2>1. Working
      BY <1>2, <1>3, <1>7 DEF Working
    <2>2. /\ ep[1] = p.epoch /\ (~opts.fade => chain[1].held = 0)
          /\ Flow(p, heard, chain[1], ep[1], <<>>, sent[1]) /\ ~chain[1].finished
      BY <1>3, <2>1 DEF OneShotInv, OneShotFlow
    <2>3. FlowIn(d)'
      <3>1. Flow(p', heard', chain'[1], ep'[1], <<>>,
                 IF loc'[d].kind = "audio" THEN sent'[1] - 1 ELSE sent'[1])
        BY <1>2, <1>7, <1>9, <2>2
      <3> QED BY <1>2, <1>7, <2>2, <3>1 DEF FlowIn
    <2>4. ASSUME NEW e \in Clients, e # d PROVE FlowIn(e)'
      BY <1>7, <2>4 DEF FlowIn
    <2> QED BY <1>2, <1>7, <2>2, <2>3, <2>4
  <1> QED BY <1>10, <1>11, <1>12, <1>13, <1>14, <1>15 DEF OneShotInv

\* on_audio or on_completed finds its request active, or lost, or it fails it.
LEMMA OneShotEnterActive ==
  ASSUME PlayInv, OneShotInv, NEW d \in Clients, EnterActive(d)
  PROVE  OneShotInv'
  <1>1. loc[d] \in Locals /\ pc[d] = "enter" /\ loc[d].kind \in {"audio", "completed"}
    BY Constants DEF PlayInv, ThreadType, EnterActive
  <1>2. /\ p' = p /\ active' = active /\ next' = next /\ chain' = chain /\ sent' = sent
        /\ req' = req
        /\ ep' = ep /\ owner' = owner /\ shot' = shot /\ heard' = heard /\ opts' = opts
    BY DEF EnterActive, AppUnchanged
  <1>3. loc[d].r = 1 /\ 1 \in Requests /\ shot # "success" /\ active \in {0, 1}
    BY <1>1, BusyClient DEF OneShotInv, OneShotActive
  <1>4. \/ active = 0 /\ Resume(d, "idle", loc[d])
        \/ active = 1 /\ Resume(d, "process", loc[d])
        \/ active = 1 /\ Resume(d, "fail", loc[d])
    BY <1>3 DEF EnterActive, Goto
  <1>5. PICK label \in {"idle", "process", "fail"} :
          Resume(d, label, loc[d]) /\ (active = 1 <=> label # "idle")
    BY <1>4
  <1>6. /\ OneShotMain' /\ OneShotCallback' /\ OneShotActive' /\ OneShotBefore'
        /\ OneShotPlayed'
        /\ pc'[d] = label /\ (label # "idle" => loc'[d] = loc[d])
        /\ pc'["main"] = pc["main"]
        /\ \A e \in Clients : e # d => pc'[e] = "idle"
    <2>1. label \in CallbackLabels /\ label \in EarlyLabels /\ label # "complete"
      BY DEF CallbackLabels, EarlyLabels
    <2> QED BY <1>1, <1>2, <1>3, <1>5, <2>1, ClientStep
  <1>7. CASE label # "process"
    <2>1. ~Working'
      BY <1>2, <1>5, <1>6, <1>7 DEF Working
    <2> QED BY <1>6, <2>1 DEF OneShotInv, OneShotFlow
  <1>8. CASE label = "process"
    <2>1. OneShotFlow'
      <3> SUFFICES ASSUME Working'
                   PROVE  /\ ep'[1] = p'.epoch
                          /\ ~opts'.fade => chain'[1].held = 0
                          /\ ~\A e \in Clients : pc'[e] = "idle"
                          /\ \A e \in Clients : FlowIn(e)'
        BY DEF OneShotFlow
      <3>1. Working
        <4>1. \A e \in Clients : pc[e] # "fail"
          BY <1>1, <1>3, BusyClient
        <4> QED BY <1>2, <1>3, <1>6, <4>1 DEF Working
      <3>2. /\ ep[1] = p.epoch /\ (~opts.fade => chain[1].held = 0) /\ FlowIn(d)
        BY <3>1 DEF OneShotInv, OneShotFlow
      <3>3. FlowIn(d)'
        BY <1>1, <1>2, <1>6, <1>8, <3>2 DEF FlowIn
      <3>4. ASSUME NEW e \in Clients, e # d PROVE FlowIn(e)'
        BY <1>6, <3>4 DEF FlowIn
      <3> QED BY <1>2, <1>6, <1>8, <3>2, <3>3, <3>4
    <2> QED BY <1>6, <2>1 DEF OneShotInv
  <1> QED BY <1>7, <1>8

\* complete_active_request: all chunks have been passed to the player.
LEMMA OneShotComplete ==
  ASSUME PlayInv, OneShotInv, NEW d \in Clients, Complete(d)
  PROVE  OneShotInv'
  <1>1. loc[d] \in Locals /\ pc[d] = "complete" /\ Resume(d, "idle", loc[d])
    BY Constants DEF PlayInv, ThreadType, Complete, Goto
  <1>2. /\ p' = p /\ next' = next /\ chain' = chain /\ sent' = sent /\ req' = req
        /\ ep' = ep /\ owner' = owner /\ heard' = heard /\ opts' = opts
    BY DEF Complete
  <1>3. /\ loc[d].r = 1 /\ 1 \in Requests /\ shot # "success" /\ active \in {0, 1}
        /\ loc["main"].kind # "success" /\ pc["main"] # "flush"
        /\ \A e \in Clients : e # d => pc[e] = "idle"
    BY <1>1, BusyClient DEF OneShotInv, OneShotActive
  <1>4. \/ active = 1 /\ active' = 0 /\ shot = "open" /\ shot' = "success"
        \/ active = 0 /\ active' = 0 /\ shot' = shot
    BY <1>3 DEF Complete, None, OneShotInv, OneShotActive
  <1>5. /\ OneShotMain' /\ OneShotCallback' /\ OneShotActive' /\ OneShotBefore'
        /\ shot' # "success" => OneShotPlayed'
        /\ pc'[d] = "idle" /\ pc'["main"] = pc["main"] /\ loc'["main"] = loc["main"]
        /\ \A e \in Clients : e # d => pc'[e] = "idle"
    <2>1. "idle" \in CallbackLabels /\ active' # 1 /\ active' \in {0, 1}
      BY <1>4 DEF CallbackLabels
    <2> QED BY <1>1, <1>2, <2>1, ClientStep
  <1>6. OneShotFlow'
    BY <1>4, FlowOver
  <1>7. ASSUME active = 1, shot' = "success" PROVE OneShotPlayed'
    <2>1. req[1] = "ended"
      BY <1>1 DEF OneShotInv, OneShotCallback
    <2>2. ASSUME p.sink # "Disabled", pc["main"] = "await"
          PROVE  Told(p, heard, sent[1])
      <3>1. Working
        BY <1>1, <1>3, <1>7, <2>2 DEF Working
      <3>2. Flow(p, heard, chain[1], ep[1], <<>>, sent[1]) /\ chain[1].held = 0
        BY <1>1, <3>1 DEF OneShotInv, OneShotFlow, FlowIn
      <3>3. PICK m \in Nat : Told(p, heard, m) /\ sent[1] = m + Len(<<>>)
        BY <3>2 DEF Flow
      <3> QED BY <3>3, RangeOfEmpty
    <2>3. 1 \in Requests' /\ req'[1] = "ended" /\ active' # 1
      BY <1>2, <1>3, <1>4, <2>1 DEF Requests
    <2>4. \A e \in Clients : pc'[e] = "idle"
      BY <1>5
    <2> QED BY <1>2, <1>3, <1>5, <1>7, <2>2, <2>3, <2>4 DEF OneShotPlayed
  <1>8. OneShotPlayed'
    BY <1>3, <1>4, <1>5, <1>7
  <1> QED BY <1>5, <1>6, <1>8 DEF OneShotInv
\* process(chunk) or finish(Completed).
LEMMA OneShotProcess ==
  ASSUME PlayInv, OneShotInv, NEW d \in Clients, Process(d)
  PROVE  OneShotInv'
  <1>1. loc[d] \in Locals /\ pc[d] = "process" /\ d \in Threads
    BY Constants DEF PlayInv, ThreadType, Process
  <1>2. /\ p' = p /\ active' = active /\ next' = next /\ sent' = sent /\ req' = req
        /\ ep' = ep /\ owner' = owner /\ shot' = shot /\ heard' = heard /\ opts' = opts
    BY DEF Process
  <1>3. /\ loc[d].r = 1 /\ 1 \in Requests /\ shot # "success" /\ active \in {0, 1}
        /\ \A e \in Clients : e # d => pc[e] = "idle"
    BY <1>1, BusyClient DEF OneShotInv, OneShotActive
  <1> DEFINE audio == loc[d].kind = "audio"
             ns == IF audio THEN ProcessOut(chain[1], sent[1]) ELSE FinishOut(chain[1])
             c == IF audio THEN ProcessNext(chain[1], sent[1]) ELSE FinishNext
             out == [i \in 1..Len(ns) |-> Chunk(1, ns[i], ep[1])]
             l == [loc[d] EXCEPT !.out = out]
  <1>4. chain' = [chain EXCEPT ![1] = c] /\ Resume(d, "enqueue", l)
    BY <1>3 DEF Process
  <1>5. /\ chain[1] \in ChainRecord /\ ep[1] \in Nat /\ sent[1] \in Nat
        /\ chain \in [Requests -> ChainRecord]
    BY <1>3 DEF PlayInv, DataType, ChainRecord
  <1>6. chain'[1] = c
    <2> HIDE DEF c
    <2> QED BY <1>3, <1>4, <1>5
  <1>7. out \in Seq(Chunks)
    <2>1. ns \in Seq(Nat)
      BY <1>5, ChainTypes DEF ChainRecord
    <2> HIDE DEF ns
    <2> QED BY <1>5, <2>1, ChunksOfNumbers
  <1>8. l \in Locals /\ l.r = 1 /\ l.kind = loc[d].kind /\ l.out = out
    <2> HIDE DEF out
    <2> QED BY <1>1, <1>3, <1>7 DEF Locals
  <1>9. active = 1 => loc[d].kind \in {"audio", "completed"}
    BY <1>1 DEF OneShotInv, OneShotActive
  <1>10. /\ OneShotMain' /\ OneShotCallback' /\ OneShotActive' /\ OneShotBefore'
         /\ OneShotPlayed'
         /\ pc'[d] = "enqueue" /\ loc'[d] = l
         /\ pc'["main"] = pc["main"]
         /\ \A e \in Clients : e # d => pc'[e] = "idle"
    <2> HIDE DEF l
    <2>1. "enqueue" \in CallbackLabels /\ "enqueue" \in EarlyLabels
      BY DEF CallbackLabels, EarlyLabels
    <2> QED BY <1>1, <1>2, <1>3, <1>4, <1>8, <1>9, <2>1, ClientStep
  <1>11. OneShotFlow'
    <2> SUFFICES ASSUME Working'
                 PROVE  /\ ep'[1] = p'.epoch
                        /\ ~opts'.fade => chain'[1].held = 0
                        /\ ~\A e \in Clients : pc'[e] = "idle"
                        /\ \A e \in Clients : FlowIn(e)'
      BY DEF OneShotFlow
    <2>1. Working
      <3>1. \A e \in Clients : pc[e] # "fail"
        BY <1>1, <1>3
      <3> QED BY <1>2, <1>3, <1>10, <3>1 DEF Working
    <2>2. /\ ep[1] = p.epoch /\ (~opts.fade => chain[1].held = 0)
          /\ Flow(p, heard, chain[1], ep[1], <<>>,
                  IF loc[d].kind = "audio" THEN sent[1] - 1 ELSE sent[1])
          /\ ~chain[1].finished
      BY <1>1, <2>1 DEF OneShotInv, OneShotFlow, FlowIn
    <2>3. CASE audio
      <3>1. /\ c = ProcessNext(chain[1], sent[1])
            /\ out = [i \in 1..Len(ProcessOut(chain[1], sent[1]))
                        |-> Chunk(1, ProcessOut(chain[1], sent[1])[i], ep[1])]
            /\ Flow(p, heard, chain[1], ep[1], <<>>, sent[1] - 1)
        BY <2>2, <2>3
      <3> HIDE DEF out, c
      <3>2. /\ Flow(p, heard, c, ep[1], out, sent[1]) /\ ~c.finished
            /\ ~opts.fade => c.held = 0
        BY <1>5, <2>2, <3>1, FlowProcess
      <3>3. FlowIn(d)'
        BY <1>2, <1>6, <1>8, <1>10, <2>3, <3>2 DEF FlowIn
      <3>4. ASSUME NEW e \in Clients, e # d PROVE FlowIn(e)'
        BY <1>10, <3>4 DEF FlowIn
      <3> QED BY <1>2, <1>6, <1>10, <2>2, <3>2, <3>3, <3>4
    <2>4. CASE ~audio
      <3>1. /\ c = FinishNext
            /\ out = [i \in 1..Len(FinishOut(chain[1]))
                        |-> Chunk(1, FinishOut(chain[1])[i], ep[1])]
            /\ Flow(p, heard, chain[1], ep[1], <<>>, sent[1])
        BY <2>2, <2>4
      <3> HIDE DEF out, c
      <3>2. Flow(p, heard, c, ep[1], out, sent[1]) /\ c.held = 0
        BY <1>5, <2>2, <3>1, FlowFinish
      <3>3. FlowIn(d)'
        BY <1>2, <1>6, <1>8, <1>10, <2>4, <3>2 DEF FlowIn
      <3>4. ASSUME NEW e \in Clients, e # d PROVE FlowIn(e)'
        BY <1>10, <3>4 DEF FlowIn
      <3> QED BY <1>2, <1>6, <1>10, <2>2, <3>2, <3>3, <3>4
    <2> QED BY <2>3, <2>4
  <1> QED BY <1>10, <1>11 DEF OneShotInv

\* enqueue of the chunk at hand, and what comes after the loop.
LEMMA OneShotEnqueue ==
  ASSUME PlayInv, OneShotInv, NEW d \in Clients, CallbackEnqueue(d)
  PROVE  OneShotInv'
  <1>1. PICK after \in {"idle", "complete", "note"}, handler \in {"fail", "note"} :
          /\ EnqueueNext(d, after, handler)
          /\ after = "idle" <=> loc[d].kind = "audio"
          /\ after = "complete" <=> loc[d].kind = "completed"
          /\ loc[d].kind \in {"audio", "completed"} => handler = "fail"
    <2> DEFINE kind == loc[d].kind
               after == CASE kind = "audio" -> "idle" [] kind = "completed" -> "complete"
                          [] OTHER -> "note"
               handler == IF kind \in {"audio", "completed"} THEN "fail" ELSE "note"
    <2>1. EnqueueNext(d, after, handler)
      BY DEF CallbackEnqueue
    <2>2. handler \in {"fail", "note"} /\ (kind \in {"audio", "completed"} => handler = "fail")
      OBVIOUS
    <2>3. CASE kind = "audio"
      <3>1. after = "idle" /\ kind # "completed"
        BY <2>3, Zenon
      <3> HIDE DEF after, handler
      <3> QED BY <2>1, <2>2, <2>3, <3>1
    <2>4. CASE kind = "completed"
      <3>1. after = "complete" /\ kind # "audio"
        BY <2>4, Zenon
      <3> HIDE DEF after, handler
      <3> QED BY <2>1, <2>2, <2>4, <3>1
    <2>5. CASE kind # "audio" /\ kind # "completed"
      <3>1. after = "note"
        BY <2>5, Zenon
      <3> HIDE DEF after, handler
      <3> QED BY <2>1, <2>2, <2>5, <3>1
    <2> QED BY <2>3, <2>4, <2>5
  <1>2. d \in Threads /\ loc[d] \in Locals
    BY Constants DEF PlayInv, ThreadType
  <1>3. /\ pc[d] = "enqueue" /\ AppUnchanged
        /\ \/ loc[d].out = <<>> /\ Goto(d, after) /\ p' = p
           \/ \E x, l : EnqueueTurn(d, handler, x, l)
    BY <1>1, <1>2, EnqueueNextStep
  <1>4. /\ active' = active /\ next' = next /\ chain' = chain /\ sent' = sent /\ req' = req
        /\ ep' = ep /\ owner' = owner /\ shot' = shot /\ heard' = heard /\ opts' = opts
    BY <1>3 DEF AppUnchanged
  <1>5. /\ loc[d].r = 1 /\ 1 \in Requests /\ shot # "success" /\ active \in {0, 1}
        /\ \A e \in Clients : e # d => pc[e] = "idle"
    BY <1>3, BusyClient DEF OneShotInv, OneShotActive
  <1>6. active = 1 => loc[d].kind \in {"audio", "completed"}
    BY <1>3 DEF OneShotInv, OneShotActive
  <1>7. ASSUME Working
        PROVE  /\ ep[1] = p.epoch /\ (~opts.fade => chain[1].held = 0)
               /\ Flow(p, heard, chain[1], ep[1], loc[d].out, sent[1])
               /\ loc[d].kind = "audio" => ~chain[1].finished
               /\ loc[d].kind = "completed" => chain[1].held = 0
    BY <1>3, <1>7 DEF OneShotInv, OneShotFlow, FlowIn
  <1>8. CASE loc[d].out = <<>> /\ Goto(d, after) /\ p' = p
    <2>1. /\ OneShotMain' /\ OneShotCallback' /\ OneShotActive' /\ OneShotBefore'
          /\ OneShotPlayed'
          /\ pc'[d] = after /\ (after # "idle" => loc'[d] = loc[d])
          /\ pc'["main"] = pc["main"]
          /\ \A e \in Clients : e # d => pc'[e] = "idle"
      <3>1. /\ after \in CallbackLabels /\ after \notin {"process", "enqueue"}
            /\ active = 1 => after \in EarlyLabels
        BY <1>1, <1>6 DEF CallbackLabels, EarlyLabels
      <3>2. Resume(d, after, loc[d])
        BY <1>8 DEF Goto
      <3> QED BY <1>1, <1>2, <1>3, <1>4, <1>5, <3>1, <3>2, ClientStep
    <2>2. OneShotFlow'
      <3> SUFFICES ASSUME Working'
                   PROVE  /\ ep'[1] = p'.epoch
                          /\ ~opts'.fade => chain'[1].held = 0
                          /\ (\A e \in Clients : pc'[e] = "idle") =>
                               /\ Flow(p', heard', chain'[1], ep'[1], <<>>, sent'[1])
                               /\ ~chain'[1].finished
                          /\ \A e \in Clients : FlowIn(e)'
        BY DEF OneShotFlow
      <3>1. Working /\ active = 1
        <4>1. \A e \in Clients : pc[e] # "fail"
          BY <1>3, <1>5
        <4> QED BY <1>4, <1>5, <1>8, <2>1, <4>1 DEF Working
      <3>2. /\ ep[1] = p.epoch /\ (~opts.fade => chain[1].held = 0)
            /\ Flow(p, heard, chain[1], ep[1], <<>>, sent[1])
        BY <1>7, <1>8, <3>1
      <3>3. \A e \in Clients : FlowIn(e)'
        <4>1. ASSUME NEW e \in Clients, e # d PROVE FlowIn(e)'
          BY <2>1, <4>1 DEF FlowIn
        <4>2. CASE after = "idle"
          BY <2>1, <4>1, <4>2 DEF FlowIn
        <4>3. CASE after = "complete"
          <5>1. chain[1].held = 0
            BY <1>1, <1>7, <3>1, <4>3
          <5>2. FlowIn(d)'
            BY <1>4, <1>8, <2>1, <3>2, <4>3, <5>1 DEF FlowIn
          <5> QED BY <4>1, <5>2
        <4> QED BY <1>1, <1>6, <3>1, <4>2, <4>3
      <3>4. (\A e \in Clients : pc'[e] = "idle") => ~chain[1].finished
        BY <1>1, <1>7, <2>1, <3>1
      <3> QED BY <1>4, <1>8, <3>2, <3>3, <3>4
    <2> QED BY <2>1, <2>2 DEF OneShotInv
  <1>9. ASSUME NEW x, NEW l, EnqueueTurn(d, handler, x, l) PROVE OneShotInv'
    <2>1. /\ loc[d].out # <<>> /\ Head(loc[d].out) \in Chunks
          /\ x \in Enqueue(p, Head(loc[d].out), loc[d].resumed)
          /\ p' = x.p /\ l \in Locals
          /\ l = [loc[d] EXCEPT !.resumed = (x.out = "wait"),
                                !.out = IF x.out \in {"done", "late"}
                                        THEN Tail(loc[d].out) ELSE loc[d].out]
          /\ Resume(d, IF x.out = "threw" THEN handler ELSE "enqueue", l)
      BY <1>9 DEF EnqueueTurn
    <2>2. /\ l.r = loc[d].r /\ l.kind = loc[d].kind
          /\ x.out = "done" => l.out = Tail(loc[d].out)
          /\ x.out = "wait" => l.out = loc[d].out
      BY <1>2, <2>1 DEF Locals
    <2>3. PICK label \in {"enqueue", "fail", "note"} :
            /\ Resume(d, label, l)
            /\ x.out = "threw" => label = handler
            /\ x.out # "threw" => label = "enqueue"
      BY <1>1, <2>1
    <2>4. /\ OneShotMain' /\ OneShotCallback' /\ OneShotActive' /\ OneShotBefore'
          /\ OneShotPlayed'
          /\ pc'[d] = label /\ loc'[d] = l
          /\ pc'["main"] = pc["main"]
          /\ \A e \in Clients : e # d => pc'[e] = "idle"
      <3>1. /\ label \in CallbackLabels /\ label \notin {"idle", "complete"}
            /\ active = 1 => label \in EarlyLabels
        BY <1>1, <1>6, <2>3 DEF CallbackLabels, EarlyLabels
      <3>2. /\ l \in Locals /\ l.r = 1 /\ Resume(d, label, l)
            /\ l.kind = "completed" => loc[d].kind = "completed"
        BY <1>5, <2>1, <2>2, <2>3
      <3>3. active' = 1 => l.kind \in {"audio", "completed"} /\ active = 1 /\ label \in EarlyLabels
        BY <1>4, <1>6, <2>2, <3>1
      <3>4. pc[d] # "idle" /\ active' \in {0, 1} /\ shot' # "success" /\ shot' = shot
        BY <1>3, <1>4, <1>5
      <3>5. req' = req /\ owner' = owner
        BY <1>4
      <3> QED BY <3>1, <3>2, <3>3, <3>4, <3>5, ClientStep
    <2>5. PlayerOK(p) /\ p'.sink = p.sink /\ p'.epoch = p.epoch
      BY <2>1, EnqueueOK DEF PlayInv, Within
    <2>6. OneShotFlow'
      <3> SUFFICES ASSUME Working'
                   PROVE  /\ ep'[1] = p'.epoch
                          /\ ~opts'.fade => chain'[1].held = 0
                          /\ ~\A e \in Clients : pc'[e] = "idle"
                          /\ \A e \in Clients : FlowIn(e)'
        BY DEF OneShotFlow
      <3>1. Working /\ active = 1 /\ p.sink # "Disabled"
        <4>1. \A e \in Clients : pc[e] # "fail"
          BY <1>3, <1>5
        <4> QED BY <1>4, <1>5, <2>4, <2>5, <4>1 DEF Working
      <3>2. /\ ep[1] = p.epoch /\ (~opts.fade => chain[1].held = 0)
            /\ Flow(p, heard, chain[1], ep[1], loc[d].out, sent[1])
            /\ loc[d].kind = "audio" => ~chain[1].finished
            /\ loc[d].kind = "completed" => chain[1].held = 0
        BY <1>7, <3>1
      <3>3. label # "fail"
        BY <2>4 DEF Working
      <3>4. x.out # "threw"
        BY <1>1, <1>6, <2>3, <3>1, <3>3
      <3>5. heard \in Seq(Nat) /\ loc[d].out \in Seq(Chunks)
        BY <1>2 DEF PlayInv, DataType, Locals
      <3>6. /\ x.out \in {"done", "wait", "threw"}
            /\ x.out = "done" => Flow(x.p, heard, chain[1], ep[1], Tail(loc[d].out), sent[1])
            /\ x.out = "wait" => Flow(x.p, heard, chain[1], ep[1], loc[d].out, sent[1])
        BY <2>1, <2>5, <3>1, <3>2, <3>5, FlowEnqueue
      <3>7. Flow(p', heard', chain'[1], ep'[1], loc'[d].out, sent'[1])
        BY <1>4, <2>1, <2>2, <2>4, <3>4, <3>6
      <3>8. FlowIn(d)'
        BY <1>4, <2>2, <2>3, <2>4, <3>2, <3>4, <3>7 DEF FlowIn
      <3>9. ASSUME NEW e \in Clients, e # d PROVE FlowIn(e)'
        BY <2>4, <3>9 DEF FlowIn
      <3> QED BY <1>4, <2>3, <2>4, <2>5, <3>2, <3>8, <3>9
    <2> QED BY <2>4, <2>6 DEF OneShotInv
  <1> QED BY <1>3, <1>8, <1>9
-----------------------------------------------------------------------------
(* Main in a one-shot run.                                                 *)

\* A step of main that leaves no request active.
LEMMA MainAway ==
  ASSUME PlayInv, OneShotInv, NEW label, NEW l, Resume("main", label, l),
         label \in CallLabels \cup {"submit", "stop", "unwind", "destroy", "close", "abandon"},
         l.kind \in OneShotKinds, l.kind # "success",
         label = "submit" => l.kind = "oneshot",
         req' = req, owner' = owner, shot' = shot, active' = 0,
         l.kind = "oneshot" =>
           /\ loc["main"].kind = "oneshot" /\ label \in CallLabels \cup {"submit", "unwind"}
           /\ next' = next /\ sent' = sent /\ heard' = heard
           /\ \A r \in Requests : chain'[r] = FreshChain
           /\ Audio(p') = {} /\ l.out = <<>>
           /\ label \in {"drain", "enqueue", "cancelled"} => l.drain = p'.epoch
           /\ label = "submit" => l.keep = p'.epoch
  PROVE  OneShotInv'
  <1>1. "main" \in Threads /\ \A e \in Clients : e \in Threads /\ e # "main"
    BY Constants
  <1>2. label \notin {"idle", "prompt", "gone", "prepare", "send", "await", "flush"}
    BY DEF CallLabels
  <1>3. /\ pc'["main"] = label /\ loc'["main"] = l
        /\ \A e \in Clients : pc'[e] = pc[e] /\ loc'[e] = loc[e]
    BY <1>1, <1>2, OthersStay DEF PlayInv
  <1>4. OneShotMain'
    BY <1>2, <1>3 DEF OneShotMain
  <1>5. OneShotCallback'
    BY <1>3 DEF OneShotInv, OneShotCallback, Requests
  <1>6. OneShotActive'
    BY DEF OneShotActive
  <1>7. OneShotBefore'
    <2> SUFFICES ASSUME l.kind = "oneshot" PROVE OneShotBefore'
      BY <1>3 DEF OneShotBefore
    <2>1. /\ next = 1 /\ shot = "open"
          /\ \A r \in Requests : req[r] = "new" /\ sent[r] = 0
          /\ \A d \in Clients : pc[d] = "idle"
          /\ heard = <<>>
      BY DEF OneShotInv, OneShotBefore
    <2> QED BY <1>3, <2>1 DEF OneShotBefore, Requests, None
  <1>8. OneShotFlow'
    BY FlowOver
  <1>9. OneShotPlayed'
    BY <1>2, <1>3 DEF OneShotInv, OneShotPlayed, Requests
  <1> QED BY <1>4, <1>5, <1>6, <1>7, <1>8, <1>9 DEF OneShotInv

\* Inside cancel_active_request and the destructor main does not report success.
LEMMA CallsNotSuccess ==
  ASSUME OneShotInv, pc["main"] \notin {"flush", "stop", "unwind"}
  PROVE  loc["main"].kind # "success" /\ loc["main"].kind \in OneShotKinds
  BY DEF OneShotInv, OneShotPlayed, OneShotMain

LEMMA OneShotClaim ==
  ASSUME PlayInv, OneShotInv, Claim
  PROVE  OneShotInv'
  <1> DEFINE l == [loc["main"] EXCEPT !.r = active]
  <1>1. loc["main"] \in Locals /\ pc["main"] = "claim"
    BY MainLocals DEF Claim
  <1>2. PICK label \in {"interrupt", "chain"} : Resume("main", label, l)
    BY DEF Claim
  <1>3. l.kind = loc["main"].kind /\ l.out = loc["main"].out
    BY <1>1 DEF Locals
  <1> HIDE DEF l
  <1>4. /\ req' = req /\ owner' = owner /\ shot' = shot /\ active' = 0 /\ next' = next
        /\ sent' = sent /\ heard' = heard /\ chain' = chain /\ p' = p
    BY DEF Claim, None
  <1>5. l.kind # "success" /\ l.kind \in OneShotKinds
    BY <1>1, <1>3, CallsNotSuccess
  <1>6. label \in CallLabels /\ label \notin {"submit", "drain", "enqueue", "cancelled"}
    BY DEF CallLabels
  <1>7. l.kind = "oneshot" =>
          /\ loc["main"].kind = "oneshot" /\ Audio(p') = {} /\ l.out = <<>>
          /\ \A r \in Requests : chain'[r] = FreshChain
    BY <1>3, <1>4 DEF OneShotInv, OneShotBefore
  <1> QED BY <1>2, <1>4, <1>5, <1>6, <1>7, MainAway

LEMMA OneShotChainReset ==
  ASSUME PlayInv, OneShotInv, ClaimedChainReset
  PROVE  OneShotInv'
  <1> DEFINE l == [loc["main"] EXCEPT !.r = None]
  <1>1. loc["main"] \in Locals /\ pc["main"] = "chain"
    BY MainLocals DEF ClaimedChainReset
  <1>2. Resume("main", "interrupt", l)
    BY DEF ClaimedChainReset
  <1>3. l.kind = loc["main"].kind /\ l.out = loc["main"].out
    BY <1>1 DEF Locals
  <1> HIDE DEF l
  <1>4. /\ req' = req /\ owner' = owner /\ shot' = shot /\ active' = active /\ next' = next
        /\ sent' = sent /\ heard' = heard /\ p' = p
        /\ chain' = [chain EXCEPT ![loc["main"].r] = FreshChain]
    BY DEF ClaimedChainReset
  <1>5. active = 0
    BY <1>1 DEF OneShotInv, OneShotActive
  <1>6. l.kind # "success" /\ l.kind \in OneShotKinds
    BY <1>1, <1>3, CallsNotSuccess
  <1>7. l.kind = "oneshot" =>
          /\ loc["main"].kind = "oneshot" /\ Audio(p') = {} /\ l.out = <<>>
          /\ \A r \in Requests : chain'[r] = FreshChain
    BY <1>3, <1>4 DEF OneShotInv, OneShotBefore, PlayInv, DataType
  <1>8. "interrupt" \in CallLabels
    BY DEF CallLabels
  <1> QED BY <1>2, <1>4, <1>5, <1>6, <1>7, <1>8, MainAway

\* A reset that begins or goes on.
LEMMA OneShotReset ==
  ASSUME PlayInv, OneShotInv, pc["main"] \in {"interrupt", "drain", "destroy"},
         NEW x, p' = x.p, ResetResult(p, x) \/ (x.p = p /\ x.out = "done"),
         NEW handler \in {"unwind", "abandon"}, NEW l \in Locals, l.kind = loc["main"].kind,
         l.kind = "oneshot" => l.drain = x.p.epoch /\ l.out = <<>> /\ handler = "unwind",
         Resume("main", AfterReset(x.out, handler), l), AppUnchanged
  PROVE  OneShotInv'
  <1>1. PICK label \in {"drain", "enqueue"} \cup {handler} : label = AfterReset(x.out, handler)
    BY AfterResets DEF ResetResult
  <1>2. /\ req' = req /\ owner' = owner /\ shot' = shot /\ active' = active /\ next' = next
        /\ sent' = sent /\ heard' = heard /\ chain' = chain
    BY DEF AppUnchanged
  <1>3. active = 0
    BY DEF OneShotInv, OneShotActive
  <1>4. l.kind # "success" /\ l.kind \in OneShotKinds
    BY CallsNotSuccess
  <1>5. l.kind = "oneshot" =>
          /\ loc["main"].kind = "oneshot" /\ Audio(p') = {} /\ l.out = <<>>
          /\ \A r \in Requests : chain'[r] = FreshChain
    BY <1>2 DEF OneShotInv, OneShotBefore, ResetResult
  <1>6. /\ label \in CallLabels \cup {"unwind", "abandon"}
        /\ l.kind = "oneshot" => label \in CallLabels \cup {"unwind"}
    BY <1>1 DEF CallLabels
  <1>7. l.kind = "oneshot" => l.drain = p'.epoch
    OBVIOUS
  <1>8. label # "submit" /\ Resume("main", label, l)
    BY <1>1
  <1> QED BY <1>2, <1>3, <1>4, <1>5, <1>6, <1>7, <1>8, MainAway

LEMMA OneShotInterrupt ==
  ASSUME PlayInv, OneShotInv, InterruptActive
  PROVE  OneShotInv'
  <1>1. PICK x, l :
          /\ l \in Locals /\ p' = x.p /\ ResetResult(p, x)
          /\ l.kind = loc["main"].kind /\ l.drain = x.p.epoch
          /\ p.buffers = <<>> => l.out = <<>>
          /\ Resume("main", AfterReset(x.out, "unwind"), l)
    BY InterruptActiveStep
  <1>2. pc["main"] = "interrupt" /\ AppUnchanged
    BY InterruptActiveStep
  <1>3. loc["main"].kind = "oneshot" => p.buffers = <<>>
    BY ToldNothing DEF OneShotInv, OneShotBefore, PlayInv
  <1>4. l.kind = "oneshot" => l.drain = x.p.epoch /\ l.out = <<>>
    BY <1>1, <1>3
  <1> QED BY <1>1, <1>2, <1>4, OneShotReset

LEMMA OneShotDestroy ==
  ASSUME PlayInv, OneShotInv, Destroy
  PROVE  OneShotInv'
  <1>1. PICK x, l :
          /\ l \in Locals /\ p' = x.p /\ ResetResult(p, x)
          /\ l.kind = loc["main"].kind
          /\ Resume("main", AfterReset(x.out, "abandon"), l)
    BY DestroyStep
  <1>2. pc["main"] = "destroy" /\ AppUnchanged
    BY DestroyStep
  <1>3. l.kind = "closing"
    BY <1>1, <1>2 DEF PlayInv, MainClosing
  <1> QED BY <1>1, <1>2, <1>3, OneShotReset

LEMMA OneShotDrain ==
  ASSUME PlayInv, OneShotInv, MainDrain
  PROVE  OneShotInv'
  <1>1. PICK handler \in {"unwind", "abandon"} :
          /\ Drain("main", handler)
          /\ loc["main"].kind # "closing" => handler = "unwind"
    BY DEF MainDrain
  <1>2. "main" \in Threads
    BY Constants
  <1>3. PICK x : /\ pc["main"] = "drain" /\ AppUnchanged
                 /\ p' = x.p /\ Goto("main", AfterReset(x.out, handler))
                 /\ \/ x.p = p /\ x.out = "done"
                    \/ ResetResult(p, x) /\ x.p.epoch = p.epoch
    BY <1>1, <1>2, DrainStep
  <1>4. loc["main"] \in Locals
    BY MainLocals
  <1>5. loc["main"].kind = "oneshot" =>
          /\ loc["main"].drain = x.p.epoch /\ loc["main"].out = <<>> /\ handler = "unwind"
    BY <1>1, <1>3 DEF OneShotInv, OneShotBefore
  <1> QED BY <1>3, <1>4, <1>5, OneShotReset DEF Goto

\* The faded tail of a cancelled request is queued.
LEMMA OneShotTail ==
  ASSUME PlayInv, OneShotInv, MainEnqueue
  PROVE  OneShotInv'
  <1>1. EnqueueNext("main", "cancelled", "unwind") /\ "main" \in Threads
    BY Constants DEF MainEnqueue
  <1>2. pc["main"] = "enqueue" /\ AppUnchanged
    BY <1>1 DEF EnqueueNext
  <1>3. /\ req' = req /\ owner' = owner /\ shot' = shot /\ active' = active /\ next' = next
        /\ sent' = sent /\ heard' = heard /\ chain' = chain
    BY <1>2 DEF AppUnchanged
  <1>4. active = 0
    BY <1>2 DEF OneShotInv, OneShotActive
  <1>5. loc["main"] \in Locals /\ loc["main"].kind # "success" /\ loc["main"].kind \in OneShotKinds
    BY <1>2, CallsNotSuccess, MainLocals
  <1>6. loc["main"].kind = "oneshot" =>
          /\ Audio(p) = {} /\ loc["main"].out = <<>> /\ loc["main"].drain = p.epoch
          /\ \A r \in Requests : chain'[r] = FreshChain
    BY <1>2, <1>3 DEF OneShotInv, OneShotBefore
  <1>7. "cancelled" \in CallLabels /\ "enqueue" \in CallLabels
    BY DEF CallLabels
  <1>8. CASE loc["main"].out = <<>> /\ Goto("main", "cancelled") /\ p' = p
    <2>1. Resume("main", "cancelled", loc["main"])
      BY <1>8 DEF Goto
    <2> QED BY <1>3, <1>4, <1>5, <1>6, <1>7, <1>8, <2>1, MainAway
  <1>9. ASSUME NEW x, NEW l, EnqueueTurn("main", "unwind", x, l) PROVE OneShotInv'
    <2>1. l.kind = loc["main"].kind /\ loc["main"].out # <<>>
      BY <1>5, <1>9 DEF Locals, EnqueueTurn
    <2>2. PICK label \in {"unwind", "enqueue"} : Resume("main", label, l)
      BY <1>9 DEF EnqueueTurn
    <2>3. l.kind # "oneshot" /\ l.kind # "success" /\ l.kind \in OneShotKinds
      BY <1>5, <1>6, <2>1
    <2> QED BY <1>3, <1>4, <1>7, <2>2, <2>3, MainAway
  <1> QED BY <1>1, <1>8, <1>9, EnqueueNextStep

LEMMA OneShotCancelled ==
  ASSUME PlayInv, OneShotInv, Cancelled
  PROVE  OneShotInv'
  <1>1. /\ pc["main"] = "cancelled" /\ p' = p /\ AppUnchanged
        /\ loc["main"].kind \in CallKinds
    BY CancelledStep
  <1>2. PICK l \in Locals :
          /\ l.kind = loc["main"].kind /\ l.out = loc["main"].out
          /\ l.keep = loc["main"].drain
          /\ \/ l.kind = "text" /\ Resume("main", "prepare", l)
             \/ l.kind = "oneshot" /\ Resume("main", "submit", l)
             \/ l.kind \in {"quit", "timeout"} /\ Goto("main", "stop")
             \/ l.kind = "closing" /\ Goto("main", "close")
             \/ l.kind = "prompt" /\ Goto("main", "prompt")
             \/ l.kind = "submit" /\ Goto("main", "submit")
    BY CancelledStep
  <1>3. /\ req' = req /\ owner' = owner /\ shot' = shot /\ active' = active /\ next' = next
        /\ sent' = sent /\ heard' = heard /\ chain' = chain
    BY <1>1 DEF AppUnchanged
  <1>4. active = 0
    BY <1>1 DEF OneShotInv, OneShotActive
  <1>5. l.kind # "success" /\ l.kind \in OneShotKinds
    BY <1>1, <1>2, CallsNotSuccess
  <1>6. l.kind = "oneshot" =>
          /\ Audio(p) = {} /\ l.out = <<>> /\ l.keep = p.epoch
          /\ \A r \in Requests : chain'[r] = FreshChain
    BY <1>1, <1>2, <1>3 DEF OneShotInv, OneShotBefore
  <1>7. PICK label \in {"submit", "stop", "close"}, k \in Locals :
          /\ Resume("main", label, k) /\ k.kind = l.kind
          /\ k.kind = "oneshot" <=> label = "submit"
          /\ label = "submit" => k = l
    BY <1>2, <1>5, MainLocals DEF OneShotKinds, Goto
  <1>8. k.kind # "success" /\ k.kind \in OneShotKinds
    BY <1>5, <1>7
  <1>9. k.kind = "oneshot" =>
          /\ loc["main"].kind = "oneshot" /\ Audio(p') = {} /\ k.out = <<>> /\ k.keep = p'.epoch
          /\ \A r \in Requests : chain'[r] = FreshChain
    BY <1>1, <1>2, <1>6, <1>7
  <1>10. label \notin CallLabels
    BY DEF CallLabels
  <1> QED BY <1>3, <1>4, <1>7, <1>8, <1>9, <1>10, MainAway DEF CallLabels
\* The request gets the epoch the empty player has.
LEMMA OneShotAllocate ==
  ASSUME PlayInv, OneShotInv, Allocate
  PROVE  OneShotInv'
  <1>1. pc["main"] = "submit" /\ loc["main"].kind = "oneshot"
    BY DEF Allocate, OneShotInv, OneShotMain
  <1>2. /\ next = 1 /\ shot = "open"
        /\ \A r \in Requests : req[r] = "new" /\ sent[r] = 0 /\ chain[r] = FreshChain
        /\ \A d \in Clients : pc[d] = "idle"
        /\ Audio(p) = {} /\ heard = <<>> /\ loc["main"].keep = p.epoch
    BY <1>1 DEF OneShotInv, OneShotBefore
  <1> DEFINE l == [NoLoc EXCEPT !.r = 1]
  <1>3. l.r = 1 /\ l.kind = "none"
    BY DEF NoLoc
  <1> HIDE DEF l
  <1>4. /\ Resume("main", "send", l) /\ active' = 1
        /\ ep' = [ep EXCEPT ![1] = p.epoch]
        /\ p' = p /\ chain' = chain /\ req' = req /\ sent' = sent /\ shot' = shot
        /\ heard' = heard /\ opts' = opts
    BY <1>2 DEF Allocate, l
  <1>5. "main" \in Threads /\ \A e \in Clients : e \in Threads /\ e # "main"
    BY Constants
  <1>6. /\ pc'["main"] = "send" /\ loc'["main"] = l
        /\ \A e \in Clients : pc'[e] = "idle"
    BY <1>2, <1>4, <1>5, OthersStay DEF PlayInv
  <1>7. OneShotMain'
    BY <1>2, <1>3, <1>4, <1>6 DEF OneShotMain, OneShotKinds, Requests
  <1>8. OneShotCallback'
    BY <1>2, <1>4, <1>6 DEF OneShotCallback, Requests
  <1>9. OneShotActive'
    BY <1>2, <1>4, <1>6 DEF OneShotActive, EarlyLabels
  <1>10. OneShotBefore'
    BY <1>3, <1>6 DEF OneShotBefore
  <1>11. OneShotPlayed'
    BY <1>2, <1>3, <1>4, <1>6 DEF OneShotPlayed
  <1>12. OneShotFlow'
    <2> SUFFICES ASSUME 1 \in Requests
                 PROVE  /\ ep'[1] = p'.epoch
                        /\ chain'[1].held = 0 /\ ~chain'[1].finished
                        /\ Flow(p', heard', chain'[1], ep'[1], <<>>, sent'[1])
                        /\ \A e \in Clients : FlowIn(e)'
      BY DEF OneShotFlow, Working, Requests
    <2>1. ep'[1] = p'.epoch
      BY <1>4 DEF PlayInv, DataType
    <2>2. chain'[1].held = 0 /\ ~chain'[1].finished /\ sent'[1] = 0
      BY <1>2, <1>4 DEF FreshChain
    <2>3. Told(p', heard', 0)
      BY <1>2, <1>4, ToldNothing DEF PlayInv
    <2>4. Flow(p', heard', chain'[1], ep'[1], <<>>, sent'[1])
      <3>1. 0 = 0 + Len(<<>>) /\ Len(<<>>) <= 1 /\ 0 \in Nat
        BY RangeOfEmpty
      <3> QED BY <2>2, <2>3, <3>1 DEF Flow
    <2>5. \A e \in Clients : FlowIn(e)'
      BY <1>6 DEF FlowIn
    <2> QED BY <2>1, <2>2, <2>4, <2>5
  <1> QED BY <1>7, <1>8, <1>9, <1>10, <1>11, <1>12 DEF OneShotInv

\* synthesize_async accepts the request, or throws.
LEMMA OneShotSend ==
  ASSUME PlayInv, OneShotInv, opts.mode = "oneshot", Send
  PROVE  OneShotInv'
  <1>1. /\ pc["main"] = "send" /\ loc["main"].r = 1 /\ shot = "open"
        /\ \A r \in Requests : req[r] = "new"
        /\ \A d \in Clients : pc[d] = "idle"
        /\ loc["main"].kind \notin {"success", "oneshot"} /\ loc["main"].kind \in OneShotKinds
        /\ active \in {0, 1}
    <2>1. pc["main"] = "send"
      BY DEF Send
    <2>2. loc["main"].kind \notin {"success", "oneshot"}
      BY <2>1 DEF OneShotInv, OneShotPlayed, OneShotBefore, CallLabels
    <2> QED BY <2>1, <2>2 DEF OneShotInv, OneShotMain, OneShotActive
  <1>2. /\ p' = p /\ chain' = chain /\ ep' = ep /\ owner' = owner /\ sent' = sent
        /\ shot' = shot /\ heard' = heard /\ opts' = opts
    BY DEF Send
  <1>3. CASE active' = active /\ Resume("main", "await", NoLoc) /\ req' = [req EXCEPT ![1] = "live"]
    <2>1. "main" \in Threads /\ \A e \in Clients : e \in Threads /\ e # "main"
      BY Constants
    <2>2. /\ pc'["main"] = "await" /\ loc'["main"] = NoLoc /\ NoLoc.kind = "none"
          /\ \A e \in Clients : pc'[e] = "idle"
      BY <1>1, <1>3, <2>1, OthersStay, NoLocals DEF PlayInv
    <2>3. OneShotMain'
      BY <2>2 DEF OneShotMain, OneShotKinds
    <2>4. OneShotCallback'
      <3>1. \A r \in Requests : r # 1 => req'[r] = "new"
        BY <1>1, <1>3 DEF PlayInv, DataType
      <3> QED BY <2>2, <3>1 DEF OneShotCallback, Requests
    <2>5. OneShotActive'
      BY <1>1, <1>2, <1>3, <2>2 DEF OneShotActive, EarlyLabels
    <2>6. OneShotBefore'
      BY <2>2 DEF OneShotBefore
    <2>7. OneShotPlayed'
      BY <1>1, <1>2, <2>2 DEF OneShotPlayed
    <2>8. OneShotFlow'
      <3> SUFFICES ASSUME Working' PROVE OneShotFlow'
        BY DEF OneShotFlow
      <3>1. Working
        BY <1>1, <1>2, <1>3 DEF Working, Requests
      <3>2. /\ ep[1] = p.epoch
            /\ ~opts.fade => chain[1].held = 0
            /\ Flow(p, heard, chain[1], ep[1], <<>>, sent[1]) /\ ~chain[1].finished
        BY <1>1, <3>1 DEF OneShotInv, OneShotFlow
      <3>3. \A e \in Clients : FlowIn(e)'
        BY <2>2 DEF FlowIn
      <3> QED BY <1>2, <3>2, <3>3 DEF OneShotFlow
    <2> QED BY <2>3, <2>4, <2>5, <2>6, <2>7, <2>8 DEF OneShotInv
  <1>4. CASE active' = 0 /\ Resume("main", "unwind", loc["main"]) /\ req' = req
    BY <1>1, <1>2, <1>4, MainAway
  <1> QED BY <1>1, <1>3, <1>4 DEF Send, Goto, None

\* wait_for_one_shot returns.
LEMMA OneShotAwait ==
  ASSUME PlayInv, OneShotInv, Await
  PROVE  OneShotInv'
  <1>1. /\ pc["main"] = "await" /\ p' = p /\ active' = active /\ req' = req /\ sent' = sent
        /\ owner' = owner /\ shot' = shot /\ heard' = heard
    BY DEF Await, AppUnchanged
  <1>2. /\ loc["main"] \in Locals
        /\ loc["main"].kind \notin {"success", "oneshot"} /\ loc["main"].kind \in OneShotKinds
    BY <1>1, MainLocals DEF OneShotInv, OneShotPlayed, OneShotBefore, OneShotMain, CallLabels
  <1>3. active \in {0, 1} /\ (active = 1 => shot = "open")
    BY DEF OneShotInv, OneShotActive
  <1>4. "main" \in Threads /\ \A e \in Clients : e \in Threads /\ e # "main"
    BY Constants
  <1>5. CASE shot = "success" /\ Resume("main", "flush", [NoLoc EXCEPT !.kind = "success"])
    <2> DEFINE l == [NoLoc EXCEPT !.kind = "success"]
    <2>1. l.kind = "success" /\ ~l.resumed
      BY DEF NoLoc
    <2> HIDE DEF l
    <2>2. /\ pc'["main"] = "flush" /\ loc'["main"] = l
          /\ \A e \in Clients : pc'[e] = pc[e] /\ loc'[e] = loc[e]
      <3>1. Resume("main", "flush", l)
        BY <1>5 DEF l
      <3> QED BY <1>4, <3>1, OthersStay DEF PlayInv
    <2>3. active' = 0
      BY <1>1, <1>3, <1>5
    <2>4. OneShotMain'
      BY <2>1, <2>2 DEF OneShotMain, OneShotKinds
    <2>5. OneShotCallback'
      BY <1>1, <2>2 DEF OneShotInv, OneShotCallback, Requests
    <2>6. OneShotActive' /\ OneShotFlow'
      BY <2>3, FlowOver DEF OneShotActive
    <2>7. OneShotBefore'
      BY <2>1, <2>2 DEF OneShotBefore
    <2>8. OneShotPlayed'
      BY <1>1, <1>5, <2>1, <2>2, <2>3 DEF OneShotInv, OneShotPlayed, Requests
    <2> QED BY <2>4, <2>5, <2>6, <2>7, <2>8 DEF OneShotInv
  <1>6. CASE shot = "failure" /\ Resume("main", "stop", [NoLoc EXCEPT !.kind = "failure"])
    <2> DEFINE l == [NoLoc EXCEPT !.kind = "failure"]
    <2>1. l.kind = "failure" /\ l.kind \in OneShotKinds
      BY DEF NoLoc, OneShotKinds
    <2>2. Resume("main", "stop", l)
      BY <1>6
    <2> HIDE DEF l
    <2>3. active' = 0
      BY <1>1, <1>3, <1>6
    <2> QED BY <1>1, <2>1, <2>2, <2>3, MainAway
  <1>7. CASE shot = "open" /\ CallCancel("timeout")
    <2> DEFINE l == [loc["main"] EXCEPT !.kind = "timeout"]
    <2>1. l.kind = "timeout"
      BY <1>2 DEF Locals
    <2> HIDE DEF l
    <2>2. /\ pc'["main"] = "claim" /\ loc'["main"] = l
          /\ \A e \in Clients : pc'[e] = pc[e] /\ loc'[e] = loc[e]
      <3>1. Resume("main", "claim", l)
        BY <1>7 DEF CallCancel, l
      <3> QED BY <1>4, <3>1, OthersStay DEF PlayInv
    <2>3. OneShotMain'
      BY <2>1, <2>2 DEF OneShotMain, OneShotKinds
    <2>4. OneShotCallback'
      BY <1>1, <2>2 DEF OneShotInv, OneShotCallback, Requests
    <2>5. OneShotActive'
      BY <1>1, <2>2 DEF OneShotInv, OneShotActive
    <2>6. OneShotFlow'
      BY <2>2 DEF OneShotFlow, Working
    <2>7. OneShotBefore'
      BY <2>1, <2>2 DEF OneShotBefore
    <2>8. OneShotPlayed'
      BY <1>1, <1>7, <2>1, <2>2 DEF OneShotPlayed
    <2> QED BY <2>3, <2>4, <2>5, <2>6, <2>7, <2>8 DEF OneShotInv
  <1> QED BY <1>5, <1>6, <1>7 DEF Await

\* wait_until_idle submits what is pending and waits for the driver.
LEMMA OneShotAwaitIdle ==
  ASSUME PlayInv, OneShotInv, AwaitIdle
  PROVE  OneShotInv'
  <1>1. pc["main"] = "flush" /\ AppUnchanged
    BY AwaitIdleStep
  <1>2. PICK x, l, label :
          /\ x \in WaitUntilIdle(p, loc["main"].resumed) /\ l \in Locals
          /\ p' = x.p /\ l.kind = loc["main"].kind
          /\ Resume("main", label, l)
          /\ \/ x.out = "wait" /\ label = "flush"
             \/ x.out = "done" /\ label = "stop"
             \/ x.out = "threw" /\ label = "unwind"
    BY AwaitIdleStep
  <1>3. /\ active' = active /\ req' = req /\ sent' = sent
        /\ owner' = owner /\ shot' = shot /\ heard' = heard
    BY <1>1 DEF AppUnchanged
  <1>4. /\ loc["main"].kind = "success" /\ shot = "success" /\ active = 0
        /\ 1 \in Requests /\ req[1] = "ended" /\ \A d \in Clients : pc[d] = "idle"
    BY <1>1 DEF OneShotInv, OneShotPlayed, OneShotActive
  <1>5. "main" \in Threads /\ \A e \in Clients : e \in Threads /\ e # "main"
    BY Constants
  <1>6. label \in {"flush", "stop", "unwind"}
    BY <1>2
  <1>7. /\ pc'["main"] = label /\ loc'["main"] = l
        /\ \A e \in Clients : pc'[e] = pc[e] /\ loc'[e] = loc[e]
    BY <1>2, <1>5, <1>6, OthersStay DEF PlayInv
  <1>8. OneShotMain'
    BY <1>2, <1>4, <1>6, <1>7 DEF OneShotMain, OneShotKinds
  <1>9. OneShotCallback'
    BY <1>3, <1>7 DEF OneShotInv, OneShotCallback, Requests
  <1>10. OneShotActive' /\ OneShotFlow'
    BY <1>3, <1>4, FlowOver DEF OneShotActive
  <1>11. OneShotBefore'
    BY <1>2, <1>4, <1>7 DEF OneShotBefore
  <1>12. OneShotPlayed'
    <2>1. p'.sink = p.sink
      BY <1>2, WaitUntilIdleOK DEF PlayInv, Within
    <2>2. ASSUME p.sink # "Disabled", label # "unwind"
          PROVE  /\ Told(p', heard', sent'[1]) /\ p'.pending = <<>>
                 /\ label = "stop" => p'.buffers = <<>>
      <3>1. /\ Told(p, heard, sent[1])
            /\ loc["main"].resumed => p.pending = <<>>
        BY <1>1, <1>4, <2>2 DEF OneShotInv, OneShotPlayed
      <3>2. x.out \in {"done", "wait"} /\ (label = "stop" => x.out = "done")
        BY <1>2, <2>2
      <3>3. PlayerOK(p) /\ heard \in Seq(Nat)
        BY DEF PlayInv, DataType
      <3>4. /\ Told(x.p, heard, sent[1]) /\ x.p.pending = <<>>
            /\ x.out = "done" => x.p.buffers = <<>>
        BY <1>2, <2>2, <3>1, <3>2, <3>3, ToldIdle
      <3> QED BY <1>2, <1>3, <3>2, <3>4
    <2> QED BY <1>2, <1>3, <1>4, <1>6, <1>7, <2>1, <2>2 DEF OneShotPlayed, Requests
  <1> QED BY <1>8, <1>9, <1>10, <1>11, <1>12 DEF OneShotInv

LEMMA OneShotStop ==
  ASSUME PlayInv, OneShotInv, Stop
  PROVE  OneShotInv'
  <1> DEFINE l == [NoLoc EXCEPT !.kind = "closing"]
  <1>1. l.kind = "closing" /\ l.kind \in OneShotKinds
    BY DEF NoLoc, OneShotKinds
  <1>2. Resume("main", "destroy", l)
    BY DEF Stop
  <1> HIDE DEF l
  <1>3. pc["main"] \in {"stop", "unwind"} /\ req' = req /\ owner' = owner /\ shot' = shot
        /\ active' = active
    BY DEF Stop, AppUnchanged
  <1>4. active = 0
    BY <1>3 DEF OneShotInv, OneShotActive
  <1> QED BY <1>1, <1>2, <1>3, <1>4, MainAway

LEMMA OneShotClose ==
  ASSUME PlayInv, OneShotInv, CloseDevice
  PROVE  OneShotInv'
  <1>1. /\ pc["main"] \in {"close", "abandon"} /\ Resume("main", "gone", loc["main"])
        /\ req' = req /\ owner' = owner /\ shot' = shot /\ active' = active
    BY DEF CloseDevice, AppUnchanged, Goto
  <1>2. active = 0
    BY <1>1 DEF OneShotInv, OneShotActive
  <1>3. "main" \in Threads /\ \A e \in Clients : e \in Threads /\ e # "main"
    BY Constants
  <1>4. /\ pc'["main"] = "gone" /\ loc'["main"].kind = "none"
        /\ \A e \in Clients : pc'[e] = pc[e] /\ loc'[e] = loc[e]
    BY <1>1, <1>3, OthersStay, NoLocals DEF PlayInv
  <1>5. OneShotMain' /\ OneShotBefore'
    BY <1>4 DEF OneShotMain, OneShotBefore, OneShotKinds
  <1>6. OneShotCallback'
    BY <1>1, <1>4 DEF OneShotInv, OneShotCallback, Requests
  <1>7. OneShotActive' /\ OneShotFlow'
    BY <1>1, <1>2, FlowOver DEF OneShotActive
  <1>8. OneShotPlayed'
    BY <1>1, <1>2, <1>4 DEF OneShotInv, OneShotPlayed, Requests
  <1> QED BY <1>5, <1>6, <1>7, <1>8 DEF OneShotInv

\* The driver plays a chunk.
LEMMA OneShotReturned ==
  ASSUME PlayInv, OneShotInv, opts.mode = "oneshot", DeviceReturns
  PROVE  OneShotInv'
  <1> DEFINE H == Append(heard, p.buffers[p.returned + 1].n)
  <1>1. /\ CanReturn(p) /\ p' = Returned(p) /\ heard' = H
        /\ active' = active /\ next' = next /\ chain' = chain /\ ep' = ep /\ owner' = owner
        /\ req' = req /\ sent' = sent /\ shot' = shot /\ pc' = pc /\ loc' = loc /\ opts' = opts
    BY DEF DeviceReturns
  <1>2. PlayerOK(p) /\ heard \in Seq(Nat)
    BY DEF PlayInv, DataType
  <1>3. /\ p'.sink = p.sink /\ p'.epoch = p.epoch
        /\ p'.buffers = p.buffers /\ p'.pending = p.pending
    BY <1>1, <1>2, ReturnedOK DEF Within
  <1>4. \A m : Told(p, heard, m) => Told(p', heard', m)
    BY <1>1, <1>2, ToldReturned
  <1>5. \A c, e, o, n : Flow(p, heard, c, e, o, n) => Flow(p', heard', c, e, o, n)
    BY <1>1, <1>2, FlowReturned
  <1> HIDE DEF H
  <1>6. OneShotMain' /\ OneShotCallback' /\ OneShotActive'
    BY <1>1 DEF OneShotInv, OneShotMain, OneShotCallback, OneShotActive, Requests
  <1>7. loc["main"].kind # "oneshot"
    <2>1. p.buffers # <<>>
      BY <1>1, <1>2, RangeOfEmpty, LinedLengths DEF CanReturn
    <2> QED BY <1>2, <2>1, ToldNothing DEF OneShotInv, OneShotBefore
  <1>8. OneShotBefore'
    BY <1>1, <1>7 DEF OneShotBefore
  <1>9. OneShotPlayed'
    BY <1>1, <1>3, <1>4 DEF OneShotInv, OneShotPlayed, Requests
  <1>10. OneShotFlow'
    <2> SUFFICES ASSUME Working' PROVE OneShotFlow'
      BY DEF OneShotFlow
    <2>1. Working
      BY <1>1, <1>3 DEF Working, Requests
    <2>2. \A d \in Clients : FlowIn(d)'
      <3> SUFFICES ASSUME NEW d \in Clients PROVE FlowIn(d)'
        OBVIOUS
      <3>1. FlowIn(d)
        BY <2>1 DEF OneShotInv, OneShotFlow
      <3> QED BY <1>1, <1>5, <3>1 DEF FlowIn
    <2> QED BY <1>1, <1>3, <1>5, <2>1, <2>2 DEF OneShotInv, OneShotFlow
  <1> QED BY <1>6, <1>8, <1>9, <1>10 DEF OneShotInv
LEMMA OneShotNext ==
  ASSUME PlayInv, OneShotInv, opts.mode = "oneshot", [Next]_vars
  PROVE  OneShotInv'
  <1>1. ~Prompt /\ ~PrepareRequest
    BY DEF Prompt, PrepareRequest, OneShotInv, OneShotMain
  <1>2. CASE MainStep
    BY <1>1, <1>2, OneShotClaim, OneShotChainReset, OneShotInterrupt, OneShotDrain, OneShotTail,
       OneShotCancelled, OneShotAllocate, OneShotSend, OneShotAwait, OneShotAwaitIdle,
       OneShotStop, OneShotDestroy, OneShotClose DEF MainStep
  <1>3. ASSUME NEW d \in Clients, Deliver(d) \/ CallbackStep(d) PROVE OneShotInv'
    BY <1>3, OneShotDeliver, OneShotEnterActive, OneShotProcess, OneShotEnqueue, OneShotComplete,
       LateCallback DEF CallbackStep
  <1>4. CASE UNCHANGED vars
    <2>1. /\ active' = active /\ next' = next /\ chain' = chain /\ ep' = ep /\ owner' = owner
          /\ req' = req /\ sent' = sent /\ shot' = shot /\ pc' = pc /\ loc' = loc
          /\ opts' = opts /\ p' = p /\ heard' = heard
      BY <1>4 DEF vars
    <2>2. OneShotMain' /\ OneShotCallback' /\ OneShotActive' /\ OneShotBefore' /\ OneShotPlayed'
      BY <2>1 DEF OneShotInv, OneShotMain, OneShotCallback, OneShotActive, OneShotBefore,
                  OneShotPlayed, Requests
    <2>3. OneShotFlow'
      BY <2>1 DEF OneShotInv, OneShotFlow, FlowIn, Working, Requests
    <2> QED BY <2>2, <2>3 DEF OneShotInv
  <1> QED BY <1>1, <1>2, <1>3, <1>4, OneShotReturned DEF Next

LEMMA OneShotStart ==
  ASSUME Init, PlayInv, opts.mode = "oneshot"
  PROVE  OneShotInv
  <1>1. /\ active = 0 /\ next = 1 /\ shot = "open" /\ heard = <<>>
        /\ \A r \in Requests : req[r] = "new" /\ sent[r] = 0 /\ chain[r] = FreshChain
    BY DEF Init, None
  <1>2. p.buffers = <<>> /\ p.pending = <<>>
    BY DEF Init, NewPlayer
  <1>3. pc["main"] = "claim" /\ \A d \in Clients : pc[d] = "idle"
    BY Constants DEF Init
  <1>4. loc["main"] = [NoLoc EXCEPT !.kind = "oneshot"]
    BY Constants DEF Init
  <1>5. loc["main"].kind = "oneshot" /\ loc["main"].out = <<>>
    BY <1>4 DEF NoLoc
  <1>6. Audio(p) = {}
    BY <1>2, RangeOfEmpty DEF Audio
  <1>7. OneShotMain /\ OneShotCallback /\ OneShotActive
    BY <1>1, <1>3, <1>5 DEF OneShotMain, OneShotCallback, OneShotActive, OneShotKinds
  <1>8. OneShotBefore
    BY <1>1, <1>3, <1>5, <1>6 DEF OneShotBefore, CallLabels, None
  <1>9. OneShotFlow /\ OneShotPlayed
    BY <1>1, <1>3, <1>5 DEF OneShotFlow, Working, OneShotPlayed
  <1> QED BY <1>7, <1>8, <1>9 DEF OneShotInv

\* At the prompt there is no one-shot request, and so no success to report.
LEMMA NoOneShotNext ==
  ASSUME PlayInv, NoOneShot, opts.mode # "oneshot", [Next]_vars
  PROVE  NoOneShot'
  <1>1. "main" \in Threads /\ loc["main"] \in Locals /\ ThreadType
    BY Constants, MainLocals DEF PlayInv
  <1>2. ASSUME NEW label, NEW l, Resume("main", label, l), label # "await", l.kind # "success"
        PROVE  NoOneShot'
    BY <1>1, <1>2, OthersStay, NoLocals DEF NoOneShot
  <1>3. ASSUME NEW d \in Clients, Deliver(d) \/ CallbackStep(d) PROVE NoOneShot'
    <2>1. d \in Threads /\ d # "main"
      BY Constants
    <2>2. \E label, l : Resume(d, label, l)
      <3>1. CASE \/ Deliver(d) \/ EnterActive(d) \/ EnterTerminal(d) \/ Process(d) \/ Complete(d)
                 \/ Fail(d) \/ CallbackChainReset(d) \/ Note(d)
        BY <3>1 DEF Deliver, EnterActive, EnterTerminal, Process, Complete, Fail,
                    CallbackChainReset, Note, Goto
      <3>2. CASE CallbackEnqueue(d)
        <4>1. PICK after, handler : EnqueueNext(d, after, handler)
          BY <3>2, Zenon DEF CallbackEnqueue
        <4> QED BY <2>1, <4>1, EnqueueNextStep DEF EnqueueTurn, Goto
      <3>3. CASE CallbackReset(d)
        BY <3>3 DEF CallbackReset, BeginReset
      <3>4. CASE CallbackDrain(d)
        BY <3>4 DEF CallbackDrain, Drain, Goto
      <3> QED BY <1>3, <3>1, <3>2, <3>3, <3>4 DEF CallbackStep
    <2>3. pc'["main"] = pc["main"] /\ loc'["main"] = loc["main"]
      BY <1>1, <2>1, <2>2, OthersStay
    <2> QED BY <2>3 DEF NoOneShot
  <1>4. CASE Prompt \/ PrepareRequest
    <2>1. PICK kind \in {"prompt", "text", "quit", "submit"} :
            CallCancel(kind) \/ Goto("main", "prompt")
      BY <1>4 DEF Prompt, PrepareRequest
    <2>2. [loc["main"] EXCEPT !.kind = kind].kind # "success"
      BY <1>1 DEF Locals
    <2> QED BY <1>2, <2>1, <2>2 DEF CallCancel, Goto, NoOneShot
  <1>5. CASE Claim \/ ClaimedChainReset
    <2>1. PICK label \in {"chain", "interrupt"}, r \in Nat :
            Resume("main", label, [loc["main"] EXCEPT !.r = r])
      BY <1>5 DEF Claim, ClaimedChainReset, PlayInv, DataType, None
    <2>2. [loc["main"] EXCEPT !.r = r].kind # "success"
      BY <1>1 DEF Locals, NoOneShot
    <2> QED BY <1>2, <2>1, <2>2
  <1>6. CASE InterruptActive \/ Destroy
    <2>1. PICK x, l, handler :
            /\ ResetResult(p, x) /\ l.kind = loc["main"].kind /\ handler # "await"
            /\ Resume("main", AfterReset(x.out, handler), l)
      BY <1>6, InterruptActiveStep, DestroyStep
    <2>2. AfterReset(x.out, handler) # "await"
      BY <2>1, AfterResets DEF ResetResult
    <2> QED BY <1>2, <2>1, <2>2 DEF NoOneShot
  <1>7. CASE MainDrain
    <2>1. PICK handler \in {"unwind", "abandon"} : Drain("main", handler)
      BY <1>7 DEF MainDrain
    <2>2. PICK x : /\ x.out \in {"done", "wait", "threw"}
                   /\ Goto("main", AfterReset(x.out, handler))
      BY <1>1, <2>1, DrainStep
    <2>3. AfterReset(x.out, handler) # "await"
      BY <2>2, AfterResets
    <2> QED BY <1>2, <2>2, <2>3 DEF Goto, NoOneShot
  <1>8. CASE MainEnqueue
    <2>1. \/ Goto("main", "cancelled")
          \/ \E x, l : EnqueueTurn("main", "unwind", x, l)
      BY <1>1, <1>8, EnqueueNextStep DEF MainEnqueue
    <2>2. CASE Goto("main", "cancelled")
      BY <1>2, <2>2 DEF Goto, NoOneShot
    <2>3. ASSUME NEW x, NEW l, EnqueueTurn("main", "unwind", x, l) PROVE NoOneShot'
      <3>1. l.kind = loc["main"].kind
        BY <1>1, <2>3 DEF Locals, EnqueueTurn
      <3>2. PICK label \in {"unwind", "enqueue"} : Resume("main", label, l)
        BY <2>3 DEF EnqueueTurn
      <3> QED BY <1>2, <3>1, <3>2 DEF NoOneShot
    <2> QED BY <2>1, <2>2, <2>3
  <1>9. CASE Cancelled
    <2>1. PICK label, l : /\ Resume("main", label, l) /\ label # "await"
                          /\ l.kind = loc["main"].kind
      BY <1>9, CancelledStep DEF Goto
    <2> QED BY <1>2, <2>1 DEF NoOneShot
  <1>10. CASE Allocate
    <2>1. PICK r : Resume("main", "send", [NoLoc EXCEPT !.r = r])
      BY <1>10 DEF Allocate
    <2>2. [NoLoc EXCEPT !.r = r].kind = "none"
      BY DEF NoLoc
    <2> QED BY <1>2, <2>1, <2>2
  <1>11. CASE Send
    <2>1. Resume("main", "prompt", NoLoc) \/ Resume("main", "unwind", loc["main"])
      BY <1>11 DEF Send, Goto
    <2> QED BY <1>2, <2>1, NoLocals DEF NoOneShot
  <1>12. ~Await
    BY DEF Await, NoOneShot
  <1>13. CASE AwaitIdle
    <2>1. PICK label, l : /\ Resume("main", label, l) /\ label # "await"
                          /\ l.kind = loc["main"].kind
      BY <1>13, AwaitIdleStep
    <2> QED BY <1>2, <2>1 DEF NoOneShot
  <1>14. CASE Stop
    <2>1. Resume("main", "destroy", [NoLoc EXCEPT !.kind = "closing"])
      BY <1>14 DEF Stop
    <2>2. [NoLoc EXCEPT !.kind = "closing"].kind = "closing"
      BY DEF NoLoc
    <2> QED BY <1>2, <2>1, <2>2
  <1>15. CASE CloseDevice
    BY <1>2, <1>15 DEF CloseDevice, Goto, NoOneShot
  <1>16. CASE DeviceReturns \/ UNCHANGED vars
    BY <1>16 DEF DeviceReturns, vars, NoOneShot
  <1> QED BY <1>3, <1>4, <1>5, <1>6, <1>7, <1>8, <1>9, <1>10, <1>11, <1>12, <1>13, <1>14,
             <1>15, <1>16 DEF Next, MainStep

\* The invariant of a run, after its mode.
RunInv ==
  /\ opts.mode = "oneshot" => OneShotInv
  /\ opts.mode # "oneshot" => NoOneShot

\* The program never changes its options.
LEMMA OptionsStay ==
  ASSUME [Next]_vars
  PROVE  opts' = opts
  <1>1. ASSUME NEW d \in Clients, Deliver(d) \/ CallbackStep(d) PROVE opts' = opts
    <2>1. CASE CallbackEnqueue(d)
      <3>1. PICK after, handler : EnqueueNext(d, after, handler)
        BY <2>1, Zenon DEF CallbackEnqueue
      <3> QED BY <3>1 DEF EnqueueNext, AppUnchanged
    <2>2. CASE ~CallbackEnqueue(d)
      BY <1>1, <2>2 DEF CallbackStep, Deliver, EnterActive, EnterTerminal, Process, Complete, Fail,
             CallbackChainReset, CallbackReset, CallbackDrain, Drain, Note, AppUnchanged
    <2> QED BY <2>1, <2>2
  <1>2. CASE MainStep \/ Prompt
    <2>1. CASE Cancelled
      <3>1. AppUnchanged
        BY <2>1, Zenon DEF Cancelled
      <3> QED BY <3>1 DEF AppUnchanged
    <2>2. CASE AwaitIdle
      <3>1. AppUnchanged
        BY <2>2, Zenon DEF AwaitIdle
      <3> QED BY <3>1 DEF AppUnchanged
    <2>3. CASE ~Cancelled /\ ~AwaitIdle
      BY <1>2, <2>3 DEF MainStep, Prompt, Claim, ClaimedChainReset, InterruptActive, MainDrain,
             MainEnqueue, EnqueueNext, Drain, PrepareRequest, Allocate, Send, Await, Stop,
             Destroy, CloseDevice, AppUnchanged
    <2> QED BY <2>1, <2>2, <2>3
  <1>3. CASE DeviceReturns \/ UNCHANGED vars
    BY <1>3 DEF DeviceReturns, vars
  <1> QED BY <1>1, <1>2, <1>3 DEF Next

\* The chunks of a one-shot request are, at every moment until it fails or times out, played,
\* queued, at hand or held back by the fade, in order and with none missing or twice.
THEOREM RunInvariant == Spec => []RunInv
  <1>1. Init /\ PlayInv => RunInv
    <2> SUFFICES ASSUME Init, PlayInv PROVE RunInv
      OBVIOUS
    <2>1. opts.mode = "oneshot" => OneShotInv
      BY OneShotStart
    <2>2. opts.mode # "oneshot" => NoOneShot
      BY Constants, NoLocals DEF Init, NoOneShot
    <2> QED BY <2>1, <2>2 DEF RunInv
  <1>2. PlayInv /\ RunInv /\ [Next]_vars => RunInv'
    BY OneShotNext, NoOneShotNext, OptionsStay DEF RunInv
  <1> QED BY <1>1, <1>2, PlayInvariant, PTL DEF Spec

\* A one-shot run that is about to exit with success has played every chunk the worker
\* delivered, once and in order: the prebuffered ones, the one the fade held back and the ones
\* a full queue made wait included (on_completed, then wait_until_idle).
THEOREM OneShotIsHeard == Spec => []OneShotHeard
  <1>1. PlayInv /\ RunInv => OneShotHeard
    <2> SUFFICES ASSUME PlayInv, RunInv, pc["main"] = "stop", loc["main"].kind = "success",
                        p.sink # "Disabled"
                 PROVE  heard = [i \in 1..sent[1] |-> i]
      BY DEF OneShotHeard
    <2>1. OneShotPlayed
      BY DEF RunInv, NoOneShot, OneShotInv
    <2>2. Told(p, heard, sent[1]) /\ p.buffers = <<>> /\ p.pending = <<>>
      BY <2>1 DEF OneShotPlayed
    <2>3. PlayerOK(p) /\ heard \in Seq(Nat)
      BY DEF PlayInv, DataType
    <2> QED BY <2>2, <2>3, ToldAll
  <1> QED BY <1>1, PlayInvariant, RunInvariant, PTL
=============================================================================
