-------------------------- MODULE QtbFramesProofs --------------------------
(***************************************************************************)
(* What both workers' proofs share: the least-number principle for sets,   *)
(* what the queue operations of the models do to the set of the queued     *)
(* entries when none occurs twice, and what handing one more frame to the  *)
(* output writer does to the lifecycle a client reads off the frames of a  *)
(* request.                                                                *)
(***************************************************************************)
EXTENDS QtbFrames, SequenceTheorems, FiniteSetTheorems, WellFoundedInduction, TLAPS

-----------------------------------------------------------------------------
(* Queues                                                                  *)

\* The entries of a sequence over S are members of S.
LEMMA EntriesInSet ==
  ASSUME NEW S, NEW s \in Seq(S)
  PROVE  /\ ToSet(s) \subseteq S
         /\ \A x : x \in ToSet(s) <=> \E i \in 1..Len(s) : s[i] = x
  BY LenProperties DEF ToSet

\* The empty queue.
LEMMA EntriesOfEmpty == ToSet(<<>>) = {} /\ IsInjective(<<>>)
  BY DEF ToSet, IsInjective

\* push_back of a new entry.
LEMMA EntriesOfAppend ==
  ASSUME NEW S, NEW s \in Seq(S), NEW x \in S, IsInjective(s), x \notin ToSet(s)
  PROVE  /\ Append(s, x) \in Seq(S)
         /\ ToSet(Append(s, x)) = ToSet(s) \cup {x}
         /\ IsInjective(Append(s, x))
  <1> DEFINE t == Append(s, x)
  <1>1. /\ t \in Seq(S) /\ Len(t) = Len(s) + 1 /\ Len(s) \in Nat
        /\ DOMAIN s = 1..Len(s) /\ DOMAIN t = 1..Len(s) + 1
        /\ \A i \in 1..Len(s) : t[i] = s[i]
        /\ t[Len(s) + 1] = x
    BY AppendProperties, LenProperties
  <1> HIDE DEF t
  <1>2. ToSet(t) = ToSet(s) \cup {x}
    <2>1. ASSUME NEW y \in ToSet(t) PROVE y \in ToSet(s) \cup {x}
      <3>1. PICK i \in 1..Len(s) + 1 : t[i] = y
        BY <2>1, <1>1 DEF ToSet
      <3> QED BY <3>1, <1>1 DEF ToSet
    <2>2. ASSUME NEW y \in ToSet(s) PROVE y \in ToSet(t)
      <3>1. PICK i \in 1..Len(s) : s[i] = y
        BY <2>2, <1>1 DEF ToSet
      <3>2. i \in 1..Len(s) + 1 /\ t[i] = y
        BY <3>1, <1>1
      <3> QED BY <3>2, <1>1 DEF ToSet
    <2>3. x \in ToSet(t)
      BY <1>1 DEF ToSet
    <2> QED BY <2>1, <2>2, <2>3
  <1>3. IsInjective(t)
    <2> SUFFICES ASSUME NEW i \in 1..Len(s) + 1, NEW j \in 1..Len(s) + 1, t[i] = t[j]
                 PROVE  i = j
      BY <1>1 DEF IsInjective
    <2>1. \A k \in 1..Len(s) : s[k] # x
      BY <1>1 DEF ToSet
    <2> QED BY <2>1, <1>1 DEF IsInjective
  <1> QED BY <1>1, <1>2, <1>3 DEF t

\* front and pop_front.
LEMMA EntriesOfTail ==
  ASSUME NEW S, NEW s \in Seq(S), IsInjective(s), s # <<>>
  PROVE  /\ Head(s) \in S /\ Tail(s) \in Seq(S)
         /\ Head(s) \in ToSet(s)
         /\ ToSet(Tail(s)) = ToSet(s) \ {Head(s)}
         /\ IsInjective(Tail(s))
  <1> DEFINE t == Tail(s)
  <1>1. /\ t \in Seq(S) /\ Len(t) = Len(s) - 1 /\ Len(s) \in Nat \ {0}
        /\ DOMAIN s = 1..Len(s) /\ DOMAIN t = 1..Len(s) - 1
        /\ \A i \in 1..Len(s) - 1 : t[i] = s[i + 1]
        /\ Head(s) = s[1] /\ Head(s) \in S
    BY HeadTailProperties, LenProperties, EmptySeq
  <1> HIDE DEF t
  <1>2. Head(s) \in ToSet(s)
    BY <1>1 DEF ToSet
  <1>3. ToSet(t) = ToSet(s) \ {Head(s)}
    <2>1. ASSUME NEW y \in ToSet(t) PROVE y \in ToSet(s) \ {Head(s)}
      <3>1. PICK i \in 1..Len(s) - 1 : t[i] = y
        BY <2>1, <1>1 DEF ToSet
      <3>2. i + 1 \in 1..Len(s) /\ i + 1 # 1 /\ s[i + 1] = y
        BY <3>1, <1>1
      <3> QED BY <3>2, <1>1 DEF ToSet, IsInjective
    <2>2. ASSUME NEW y \in ToSet(s) \ {Head(s)} PROVE y \in ToSet(t)
      <3>1. PICK i \in 1..Len(s) : s[i] = y
        BY <2>2, <1>1 DEF ToSet
      <3>2. i - 1 \in 1..Len(s) - 1 /\ t[i - 1] = y
        BY <3>1, <2>2, <1>1
      <3> QED BY <3>2, <1>1 DEF ToSet
    <2> QED BY <2>1, <2>2
  <1>4. IsInjective(t)
    <2> SUFFICES ASSUME NEW i \in 1..Len(s) - 1, NEW j \in 1..Len(s) - 1, t[i] = t[j]
                 PROVE  i = j
      BY <1>1 DEF IsInjective
    <2>1. i + 1 \in 1..Len(s) /\ j + 1 \in 1..Len(s) /\ s[i + 1] = s[j + 1]
      BY <1>1
    <2>2. i + 1 = j + 1
      BY <2>1, <1>1 DEF IsInjective
    <2> QED BY <2>2
  <1> QED BY <1>1, <1>2, <1>3, <1>4 DEF t

\* erase of one entry in the middle of a queue.
LEMMA EntriesOfRemoveAt ==
  ASSUME NEW S, NEW s \in Seq(S), IsInjective(s), NEW k \in 1..Len(s)
  PROVE  /\ RemoveAt(s, k) \in Seq(S)
         /\ ToSet(RemoveAt(s, k)) = ToSet(s) \ {s[k]}
         /\ IsInjective(RemoveAt(s, k))
  <1> DEFINE t == RemoveAt(s, k)
             a == SubSeq(s, 1, k - 1)
             b == SubSeq(s, k + 1, Len(s))
  <1>1. /\ Len(s) \in Nat /\ DOMAIN s = 1..Len(s)
        /\ \A i \in 1..Len(s) : s[i] \in S
    BY LenProperties, ElementOfSeq
  <1>2. /\ a \in Seq(S) /\ Len(a) = k - 1
        /\ \A i \in 1..k - 1 : a[i] = s[i]
    BY <1>1, SubSeqProperties
  <1>3. /\ b \in Seq(S) /\ Len(b) = Len(s) - k
        /\ \A i \in 1..Len(s) - k : b[i] = s[k + i]
    <2>1. \A i \in k + 1 .. Len(s) : s[i] \in S
      BY <1>1
    <2>2. /\ b \in Seq(S)
          /\ Len(b) = IF k + 1 <= Len(s) THEN Len(s) - (k + 1) + 1 ELSE 0
          /\ \A i \in 1..Len(s) - (k + 1) + 1 : b[i] = s[k + 1 + i - 1]
      BY <1>1, <2>1, SubSeqProperties
    <2> HIDE DEF t, a, b
    <2>3. Len(b) = Len(s) - k
      <3>1. CASE k + 1 <= Len(s)
        BY <3>1, <2>2, <1>1
      <3>2. CASE ~(k + 1 <= Len(s))
        <4>1. Len(b) = 0
          BY <3>2, <2>2
        <4>2. Len(s) \in Nat /\ k \in Nat /\ k <= Len(s)
          BY <1>1
        <4>3. k = Len(s)
          BY <3>2, <4>2
        <4>4. Len(s) - k = 0
          BY <4>2, <4>3
        <4> QED BY <4>1, <4>4
      <3> QED BY <3>1, <3>2
    <2>4. ASSUME NEW i \in 1..Len(s) - k PROVE b[i] = s[k + i]
      <3>1. i \in 1..Len(s) - (k + 1) + 1 /\ k + 1 + i - 1 = k + i
        BY <1>1
      <3> QED BY <3>1, <2>2
    <2> QED BY <2>2, <2>3, <2>4
  <1>4. t = a \o b
    BY DEF RemoveAt
  <1> HIDE DEF t, a, b
  <1>5. /\ t \in Seq(S) /\ Len(t) = Len(s) - 1
        /\ \A i \in 1..Len(s) - 1 : t[i] = IF i <= k - 1 THEN a[i] ELSE b[i - (k - 1)]
    <2>1. /\ t \in Seq(S) /\ Len(t) = Len(a) + Len(b)
          /\ \A i \in 1..Len(a) + Len(b) : t[i] = IF i <= Len(a) THEN a[i] ELSE b[i - Len(a)]
      BY <1>2, <1>3, <1>4, ConcatProperties
    <2>2. Len(a) + Len(b) = Len(s) - 1
      BY <1>1, <1>2, <1>3
    <2> QED BY <2>1, <2>2, <1>2
  <1>6. /\ DOMAIN t = 1..Len(s) - 1
        /\ \A i \in 1..Len(s) - 1 : t[i] = IF i < k THEN s[i] ELSE s[i + 1]
    <2>1. ASSUME NEW i \in 1..Len(s) - 1
          PROVE  t[i] = IF i < k THEN s[i] ELSE s[i + 1]
      <3>1. CASE i < k
        <4>1. i <= k - 1 /\ i \in 1..k - 1
          BY <3>1, <1>1
        <4> QED BY <3>1, <4>1, <1>2, <1>5
      <3>2. CASE ~(i < k)
        <4>1. ~(i <= k - 1) /\ i - (k - 1) \in 1..Len(s) - k /\ k + (i - (k - 1)) = i + 1
          BY <3>2, <1>1
        <4> QED BY <3>2, <4>1, <1>3, <1>5
      <3> QED BY <3>1, <3>2
    <2> QED BY <2>1, <1>5, LenProperties
  <1>7. ToSet(t) = ToSet(s) \ {s[k]}
    <2>1. ASSUME NEW y \in ToSet(t) PROVE y \in ToSet(s) \ {s[k]}
      <3>1. PICK i \in 1..Len(s) - 1 : t[i] = y
        BY <2>1, <1>6 DEF ToSet
      <3>2. PICK j \in 1..Len(s) : j # k /\ s[j] = y
        BY <3>1, <1>1, <1>6
      <3> QED BY <3>2, <1>1 DEF ToSet, IsInjective
    <2>2. ASSUME NEW y \in ToSet(s) \ {s[k]} PROVE y \in ToSet(t)
      <3>1. PICK i \in 1..Len(s) : s[i] = y
        BY <2>2, <1>1 DEF ToSet
      <3>2. PICK j \in 1..Len(s) - 1 : t[j] = y
        <4>1. CASE i < k
          BY <3>1, <4>1, <1>1, <1>6
        <4>2. CASE i > k
          <5>1. i - 1 \in 1..Len(s) - 1 /\ ~(i - 1 < k) /\ (i - 1) + 1 = i
            BY <3>1, <4>2, <1>1
          <5> QED BY <5>1, <3>1, <1>6
        <4> QED BY <4>1, <4>2, <3>1, <2>2, <1>1
      <3> QED BY <3>2, <1>6 DEF ToSet
    <2> QED BY <2>1, <2>2
  <1>8. IsInjective(t)
    <2> SUFFICES ASSUME NEW i \in 1..Len(s) - 1, NEW j \in 1..Len(s) - 1, t[i] = t[j]
                 PROVE  i = j
      BY <1>6 DEF IsInjective
    <2> DEFINE u(n) == IF n < k THEN n ELSE n + 1
    <2>1. u(i) \in 1..Len(s) /\ u(j) \in 1..Len(s) /\ s[u(i)] = s[u(j)]
      BY <1>1, <1>6
    <2>2. u(i) = u(j)
      BY <2>1, <1>1 DEF IsInjective
    <2> QED BY <2>2, <1>1
  <1> QED BY <1>5, <1>7, <1>8 DEF t

\* The size of a queue without repetitions is the number of its entries.
LEMMA CountOfEntries ==
  ASSUME NEW S, NEW s \in Seq(S), IsInjective(s)
  PROVE  IsFiniteSet(ToSet(s)) /\ Cardinality(ToSet(s)) = Len(s)
  <1>1. Len(s) \in Nat /\ DOMAIN s = 1..Len(s) /\ s \in [1..Len(s) -> S]
    BY LenProperties
  <1>2. s \in [1..Len(s) -> ToSet(s)]
    BY <1>1 DEF ToSet
  <1>3. s \in Bijection(1..Len(s), ToSet(s))
    BY <1>1, <1>2 DEF Bijection, Injection, Surjection, IsInjective, ToSet
  <1>4. ExistsBijection(1..Len(s), ToSet(s))
    BY <1>3 DEF ExistsBijection
  <1>5. IsFiniteSet(1..Len(s)) /\ Cardinality(1..Len(s)) = Len(s)
    BY <1>1, FS_Interval
  <1> QED BY <1>4, <1>5, FS_Bijection

\* The least-number principle, for sets: a nonempty set of naturals has a least element.
LEMMA LeastNatural ==
  ASSUME NEW S \in SUBSET Nat, S # {}
  PROVE  \E n \in S : \A m \in S : n <= m
  <1> DEFINE R == {ss \in Nat \X Nat : ss[1] < ss[2]}
  <1>1. IsWellFoundedOn(R, Nat)
    <2>1. IsWellFoundedOn(OpToRel(<, Nat), Nat)
      BY NatLessThanWellFounded, Zenon
    <2>2. OpToRel(<, Nat) = R
      BY Zenon DEF OpToRel
    <2> QED BY <2>1, <2>2, Zenon
  <1>2. \A m, n \in Nat : m < n => <<m, n>> \in R
    <2> SUFFICES ASSUME NEW m \in Nat, NEW n \in Nat, m < n PROVE <<m, n>> \in R
      OBVIOUS
    <2> DEFINE p == <<m, n>>
    <2>1. p \in Nat \X Nat /\ p[1] = m /\ p[2] = n
      OBVIOUS
    <2> HIDE DEF p
    <2>2. p \in R
      BY <2>1
    <2> QED BY <2>2 DEF p
  <1> HIDE DEF R
  <1>3. PICK n \in S : \A m \in S : ~(<<m, n>> \in R)
    BY <1>1, WFMin
  <1>4. ASSUME NEW m \in S PROVE n <= m
    <2>1. <<m, n>> \notin R
      BY <1>3, Zenon
    <2>2. ~(m < n)
      BY <1>2, <2>1, Zenon
    <2> QED BY <2>2
  <1> QED BY <1>4

-----------------------------------------------------------------------------
(* Frames of a request                                                     *)

Trails == [Ids -> Seq(LifecycleKinds)]

HasStarted(trail, r) == \E i \in DOMAIN trail[r] : trail[r][i] = "started"

\* A frame for a request id or the session is an output frame.
LEMMA FrameType ==
  ASSUME NEW k \in LifecycleKinds \cup SessionKinds, NEW r \in 0..MaxId
  PROVE  Frame(k, r) \in OutFrame
  BY DEF Frame, OutFrame

\* Recording a frame appends its kind to the trail of its request.
LEMMA RecordAt ==
  ASSUME NEW T \in Trails, NEW f \in OutFrame, NEW r \in Ids
  PROVE  Record(T, f)[r] = IF f.kind \in LifecycleKinds /\ f.id = r
                           THEN Append(T[r], f.kind) ELSE T[r]
  BY DEF Trails, Record

\* The trails stay sequences of lifecycle frames.
LEMMA RecordType ==
  ASSUME NEW T \in Trails, NEW f \in OutFrame
  PROVE  Record(T, f) \in Trails
  <1>1. CASE f.kind \in LifecycleKinds /\ f.id \in Ids
    <2>1. Append(T[f.id], f.kind) \in Seq(LifecycleKinds)
      BY <1>1, AppendProperties DEF Trails
    <2> QED BY <1>1, <2>1 DEF Trails, Record
  <1>2. CASE ~(f.kind \in LifecycleKinds /\ f.id \in Ids)
    BY <1>2 DEF Trails, Record
  <1> QED BY <1>1, <1>2

\* One more entry at the end of a trail.
LEMMA OneMore ==
  ASSUME NEW s \in Seq(LifecycleKinds), NEW k \in LifecycleKinds, NEW t, t = Append(s, k)
  PROVE  /\ t \in Seq(LifecycleKinds) /\ Len(s) \in Nat
         /\ DOMAIN s = 1..Len(s) /\ DOMAIN t = 1..Len(s) + 1
         /\ \A i \in 1..Len(s) : t[i] = s[i]
         /\ t[Len(s) + 1] = k
  BY AppendProperties, LenProperties

\* What a trail has and has not after one more entry.
LEMMA EndedByRecord ==
  ASSUME NEW T \in Trails, NEW f \in OutFrame, NEW r \in Ids
  PROVE  /\ Ended(Record(T, f), r)
              <=> Ended(T, r) \/ (f.id = r /\ f.kind \in Terminals)
         /\ HasStarted(Record(T, f), r)
              <=> HasStarted(T, r) \/ (f.id = r /\ f.kind = "started")
  <1> DEFINE s == T[r]
             t == Append(s, f.kind)
  <1>1. s \in Seq(LifecycleKinds)
    BY DEF Trails
  <1>2. CASE f.kind \in LifecycleKinds /\ f.id = r
    <2>1. Record(T, f)[r] = t
      BY <1>2, RecordAt
    <2>2. /\ DOMAIN s = 1..Len(s) /\ DOMAIN t = 1..Len(s) + 1 /\ Len(s) \in Nat
          /\ \A i \in 1..Len(s) : t[i] = s[i]
          /\ t[Len(s) + 1] = f.kind
      BY <1>1, <1>2, OneMore
    <2> HIDE DEF t
    <2>3. /\ (\E i \in DOMAIN t : t[i] \in Terminals)
               <=> (\E i \in DOMAIN s : s[i] \in Terminals) \/ f.kind \in Terminals
          /\ (\E i \in DOMAIN t : t[i] = "started")
               <=> (\E i \in DOMAIN s : s[i] = "started") \/ f.kind = "started"
      BY <2>2
    <2> QED BY <1>2, <2>1, <2>3 DEF Ended, HasStarted
  <1>3. CASE ~(f.kind \in LifecycleKinds /\ f.id = r)
    <2>1. Record(T, f)[r] = T[r]
      BY <1>3, RecordAt
    <2>2. ~(f.id = r /\ f.kind \in Terminals) /\ ~(f.id = r /\ f.kind = "started")
      BY <1>3 DEF LifecycleKinds
    <2> QED BY <2>1, <2>2 DEF Ended, HasStarted
  <1> QED BY <1>2, <1>3

-----------------------------------------------------------------------------
(* The phase a client sees                                                 *)

\* The first terminal frame of a trail.
FirstEnd(s, i) ==
  i \in DOMAIN s /\ s[i] \in Terminals /\ \A j \in 1..(i - 1) : s[j] \notin Terminals

\* Before its end a request runs once it started.
LEMMA LivePhase ==
  ASSUME NEW T, NEW A, NEW r, ~Ended(T, r)
  PROVE  WirePhase(T, A, r) = IF HasStarted(T, r) THEN "running"
                              ELSE IF r \in A THEN "queued" ELSE "created"
  BY DEF WirePhase, HasStarted

\* A request that has ended has a first terminal frame, and only one.
LEMMA EndedHasFirst ==
  ASSUME NEW T \in Trails, NEW r \in Ids, Ended(T, r)
  PROVE  \E i : FirstEnd(T[r], i)
  <1> DEFINE S == {i \in DOMAIN T[r] : T[r][i] \in Terminals}
  <1>1. DOMAIN T[r] = 1..Len(T[r]) /\ Len(T[r]) \in Nat
    BY LenProperties DEF Trails
  <1>2. S \in SUBSET Nat /\ S # {}
    BY <1>1 DEF Ended
  <1> HIDE DEF S
  <1>3. PICK i \in S : \A m \in S : i <= m
    BY <1>2, LeastNatural
  <1>4. FirstEnd(T[r], i)
    BY <1>1, <1>3 DEF S, FirstEnd
  <1> QED BY <1>4

\* There is one first terminal frame, and it decides the phase for good.
LEMMA EndedPhase ==
  ASSUME NEW T \in Trails, NEW A, NEW r \in Ids, NEW i, FirstEnd(T[r], i)
  PROVE  WirePhase(T, A, r) = T[r][i]
  <1> DEFINE kinds == T[r]
             first(k) == kinds[k] \in Terminals /\ \A j \in 1..(k - 1) : kinds[j] \notin Terminals
             c == CHOOSE k \in DOMAIN kinds : first(k)
  <1>1. DOMAIN kinds = 1..Len(kinds) /\ Len(kinds) \in Nat
    BY LenProperties DEF Trails
  <1>2. i \in DOMAIN kinds /\ first(i)
    BY DEF FirstEnd
  <1>3. \A k \in DOMAIN kinds : first(k) => k = i
    BY <1>1, <1>2
  <1>4. c = i
    BY <1>2, <1>3
  <1>5. Ended(T, r)
    BY <1>2 DEF Ended
  <1>6. WirePhase(T, A, r) = kinds[c]
    BY <1>5 DEF WirePhase
  <1> QED BY <1>4, <1>6

\* Handing over a frame of another request, of none, or one that neither starts nor ends
\* its request does not show.
LEMMA PhaseKept ==
  ASSUME NEW T \in Trails, NEW A, NEW f \in OutFrame, NEW r \in Ids,
         f.id # r \/ f.kind \notin Terminals \cup {"started"} \/ Ended(T, r)
  PROVE  WirePhase(Record(T, f), A, r) = WirePhase(T, A, r)
  <1> DEFINE U == Record(T, f)
  <1>1. U \in Trails
    BY RecordType
  <1>2. CASE ~Ended(T, r)
    <2>1. ~Ended(U, r) /\ (HasStarted(U, r) <=> HasStarted(T, r))
      BY <1>2, EndedByRecord
    <2> HIDE DEF U
    <2> QED BY <1>2, <2>1, LivePhase DEF U
  <1>3. CASE Ended(T, r)
    <2>1. PICK i : FirstEnd(T[r], i)
      BY <1>3, EndedHasFirst
    <2>2. DOMAIN T[r] = 1..Len(T[r]) /\ Len(T[r]) \in Nat /\ T[r] \in Seq(LifecycleKinds)
      BY LenProperties DEF Trails
    <2>3. i \in DOMAIN U[r] /\ \A j \in 1..i : U[r][j] = T[r][j]
      <3>1. i \in 1..Len(T[r])
        BY <2>1, <2>2 DEF FirstEnd
      <3>2. CASE f.kind \in LifecycleKinds /\ f.id = r
        <4>1. U[r] = Append(T[r], f.kind)
          BY <3>2, RecordAt
        <4> QED BY <3>1, <3>2, <4>1, <2>2, OneMore
      <3>3. CASE ~(f.kind \in LifecycleKinds /\ f.id = r)
        <4>1. U[r] = T[r]
          BY <3>3, RecordAt
        <4> QED BY <3>1, <4>1, <2>2
      <3> QED BY <3>2, <3>3
    <2> HIDE DEF U
    <2>4. FirstEnd(U[r], i) /\ U[r][i] = T[r][i]
      BY <2>1, <2>2, <2>3 DEF FirstEnd
    <2> QED BY <1>1, <2>1, <2>4, EndedPhase DEF U
  <1> QED BY <1>2, <1>3

\* The first terminal frame handed over is the phase.
LEMMA PhaseEnds ==
  ASSUME NEW T \in Trails, NEW A, NEW f \in OutFrame, NEW r \in Ids, f.id = r,
         f.kind \in Terminals, ~Ended(T, r)
  PROVE  WirePhase(Record(T, f), A, r) = f.kind
  <1> DEFINE U == Record(T, f)
             n == Len(T[r]) + 1
  <1>1. U \in Trails
    BY RecordType
  <1>2. U[r] = Append(T[r], f.kind) /\ f.kind \in LifecycleKinds /\ T[r] \in Seq(LifecycleKinds)
    BY RecordAt DEF LifecycleKinds, Trails
  <1>3. /\ DOMAIN T[r] = 1..Len(T[r]) /\ Len(T[r]) \in Nat /\ DOMAIN U[r] = 1..n
        /\ \A i \in 1..Len(T[r]) : U[r][i] = T[r][i]
        /\ U[r][n] = f.kind
    BY <1>2, OneMore
  <1> HIDE DEF U
  <1>4. FirstEnd(U[r], n)
    BY <1>3 DEF FirstEnd, Ended
  <1> QED BY <1>1, <1>3, <1>4, EndedPhase DEF U

\* `started` shows as running.
LEMMA PhaseStarts ==
  ASSUME NEW T \in Trails, NEW A, NEW f \in OutFrame, NEW r \in Ids, f.id = r,
         f.kind = "started", ~Ended(T, r)
  PROVE  WirePhase(Record(T, f), A, r) = "running"
  <1>1. ~Ended(Record(T, f), r) /\ HasStarted(Record(T, f), r)
    BY EndedByRecord DEF Terminals
  <1> QED BY <1>1, LivePhase

-----------------------------------------------------------------------------
(* The phases of all requests                                              *)

Phases(T, A) == [r \in Ids |-> WirePhase(T, A, r)]

\* One step of RequestLifecycle for one request: it starts, or it ends.
Moves(P, Q) ==
  \E r \in Ids :
    \/ P[r] = "queued" /\ Q = [P EXCEPT ![r] = "running"]
    \/ \E outcome \in Terminals :
         /\ P[r] = "running" \/ (P[r] = "queued" /\ outcome # "completed")
         /\ Q = [P EXCEPT ![r] = outcome]

\* Handing over a frame of an accepted request, `completed` only after `started`, leaves
\* the phases alone or moves one request along the lifecycle.
LEMMA HandOverMoves ==
  ASSUME NEW T \in Trails, NEW A, NEW f \in OutFrame,
         f.kind \in LifecycleKinds => f.id \in A \cap Ids,
         f.kind = "completed" => HasStarted(T, f.id) \/ Ended(T, f.id)
  PROVE  \/ Phases(Record(T, f), A) = Phases(T, A)
         \/ Moves(Phases(T, A), Phases(Record(T, f), A))
  <1> DEFINE P == Phases(T, A)
             Q == Phases(Record(T, f), A)
  <1>1. \A r \in Ids : P[r] = WirePhase(T, A, r) /\ Q[r] = WirePhase(Record(T, f), A, r)
    BY DEF Phases
  <1>2. P = [r \in Ids |-> P[r]] /\ Q = [r \in Ids |-> Q[r]]
    BY DEF Phases
  <1>3. CASE f.kind \notin Terminals \cup {"started"}
    <2>1. \A r \in Ids : P[r] = Q[r]
      BY <1>1, <1>3, PhaseKept
    <2> HIDE DEF P, Q
    <2>2. P = Q
      BY <1>2, <2>1
    <2> QED BY <2>2 DEF P, Q
  <1>4. CASE f.kind \in Terminals \cup {"started"}
    <2>1. f.id \in A \cap Ids
      BY <1>4 DEF LifecycleKinds
    <2>2. \A r \in Ids \ {f.id} : P[r] = Q[r]
      BY <1>1, PhaseKept
    <2>3. CASE Ended(T, f.id)
      <3>1. \A r \in Ids : P[r] = Q[r]
        BY <1>1, <2>1, <2>2, <2>3, PhaseKept
      <3> HIDE DEF P, Q
      <3>2. P = Q
        BY <1>2, <3>1
      <3> QED BY <3>2 DEF P, Q
    <2>4. CASE ~Ended(T, f.id)
      <3>1. P[f.id] = IF HasStarted(T, f.id) THEN "running" ELSE "queued"
        BY <1>1, <2>1, <2>4, LivePhase
      <3>2. CASE f.kind = "started"
        <4>1. Q[f.id] = "running"
          BY <1>1, <2>1, <2>4, <3>2, PhaseStarts
        <4> HIDE DEF P, Q
        <4>2. Q = [P EXCEPT ![f.id] = "running"]
          BY <1>2, <2>1, <2>2, <4>1
        <4>3. P[f.id] = "running" => Q = P
          BY <1>2, <4>2
        <4> QED BY <2>1, <3>1, <4>2, <4>3 DEF Moves, P, Q
      <3>3. CASE f.kind \in Terminals
        <4>1. Q[f.id] = f.kind
          BY <1>1, <2>1, <2>4, <3>3, PhaseEnds
        <4>2. f.kind = "completed" => P[f.id] = "running"
          BY <2>4, <3>1
        <4> HIDE DEF P, Q
        <4>3. Q = [P EXCEPT ![f.id] = f.kind]
          BY <1>2, <2>1, <2>2, <4>1
        <4>4. Moves(P, Q)
          BY <2>1, <3>1, <3>3, <4>2, <4>3 DEF Moves
        <4> QED BY <4>4 DEF P, Q
      <3> QED BY <1>4, <3>2, <3>3
    <2> QED BY <2>3, <2>4
  <1> QED BY <1>3, <1>4

\* Accepting a request that nothing was sent for queues it, and shows nothing else.
LEMMA AcceptMoves ==
  ASSUME NEW T \in Trails, NEW A, NEW r \in Ids \ A, T[r] = <<>>
  PROVE  /\ Phases(T, A)[r] = "created"
         /\ Phases(T, A \cup {r}) = [Phases(T, A) EXCEPT ![r] = "queued"]
  <1> DEFINE P == Phases(T, A)
             Q == Phases(T, A \cup {r})
  <1>1. ~Ended(T, r) /\ ~HasStarted(T, r)
    BY DEF Ended, HasStarted
  <1>2. P[r] = "created" /\ Q[r] = "queued"
    BY <1>1, LivePhase DEF Phases
  <1>3. ASSUME NEW q \in Ids \ {r} PROVE P[q] = Q[q]
    <2>1. q \in A <=> q \in A \cup {r}
      OBVIOUS
    <2> QED BY <2>1 DEF Phases, WirePhase
  <1>4. P = [q \in Ids |-> P[q]] /\ Q = [q \in Ids |-> Q[q]]
    BY DEF Phases
  <1> HIDE DEF P, Q
  <1>5. Q = [P EXCEPT ![r] = "queued"]
    BY <1>2, <1>3, <1>4
  <1> QED BY <1>2, <1>5 DEF P, Q
=============================================================================
