------------------------ MODULE QwenTtsClientProofs ------------------------
(***************************************************************************)
(* Proofs about QwenTtsClient, for every number of request ids, every      *)
(* queue limit, every set of worker frames and every depth of nested       *)
(* calls: one terminal callback per request, nothing left behind by        *)
(* stop(), the order on the wire, and quiet after stop().                  *)
(***************************************************************************)
EXTENDS QwenTtsClient, SequenceTheorems, FiniteSetTheorems, WellFoundedInduction, TLAPS

-----------------------------------------------------------------------------
(* Stacks of calls                                                         *)

\* The requests that a call is committed to end, and those of a stack of calls.
EndsOf(c) == {r \in Ids : Callback("end", r) \in c.cbs}

StackEnds(s) == {r \in Ids : \E i \in DOMAIN s : Callback("end", r) \in s[i].cbs}

\* No two calls of a stack are committed to end the same request.
Once(s) == \A i, j \in DOMAIN s : \A r \in EndsOf(s[i]) \cap EndsOf(s[j]) : i = j

\* A call is interrupted only by a callback.
Waiting(s) == \A i \in DOMAIN s : s[i].pc = "tell"

Deep(s) == \A i \in DOMAIN s : i > 1 => s[i].pc = "tell"

Shape(s) == s \in Seq(CallOf) /\ Deep(s) /\ Once(s)

\* A call on top of a sequence of calls.
LEMMA OnTop ==
  ASSUME NEW S, NEW s \in Seq(S), NEW c \in S
  PROVE  /\ <<c>> \o s \in Seq(S) /\ <<c>> \o s # <<>>
         /\ Len(<<c>> \o s) = Len(s) + 1
         /\ DOMAIN (<<c>> \o s) = 1..(Len(s) + 1) /\ DOMAIN s = 1..Len(s)
         /\ (<<c>> \o s)[1] = c
         /\ \A i \in 1..Len(s) : (<<c>> \o s)[i + 1] = s[i]
         /\ \A i \in 2..(Len(s) + 1) : (<<c>> \o s)[i] = s[i - 1]
         /\ Head(<<c>> \o s) = c /\ Tail(<<c>> \o s) = s
  OBVIOUS

\* What is below the call on top.
LEMMA Below ==
  ASSUME NEW S, NEW s \in Seq(S), s # <<>>
  PROVE  /\ Head(s) \in S /\ Head(s) = s[1] /\ Tail(s) \in Seq(S)
         /\ Len(s) \in Nat \ {0} /\ Len(Tail(s)) = Len(s) - 1
         /\ DOMAIN s = 1..Len(s) /\ DOMAIN Tail(s) = 1..(Len(s) - 1)
         /\ \A i \in 1..(Len(s) - 1) : Tail(s)[i] = s[i + 1]
         /\ \A i \in 2..Len(s) : s[i] = Tail(s)[i - 1]
  OBVIOUS

\* Two calls on top.
LEMMA TwoOnTop ==
  ASSUME NEW S, NEW s \in Seq(S), NEW c \in S, NEW d \in S
  PROVE  <<c, d>> \o s = <<c>> \o (<<d>> \o s)
  <1> DEFINE a == <<c, d>> \o s
             b == <<c>> \o (<<d>> \o s)
  <1>1. /\ a \in Seq(S) /\ Len(a) = Len(s) + 2 /\ Len(s) \in Nat
        /\ a[1] = c /\ a[2] = d /\ \A i \in 3..(Len(s) + 2) : a[i] = s[i - 2]
    OBVIOUS
  <1>2. /\ b \in Seq(S) /\ Len(b) = Len(s) + 2
        /\ b[1] = c /\ b[2] = d /\ \A i \in 3..(Len(s) + 2) : b[i] = s[i - 2]
    <2> DEFINE u == <<d>> \o s
    <2>1. /\ u \in Seq(S) /\ Len(u) = Len(s) + 1
          /\ u[1] = d /\ \A i \in 2..(Len(s) + 1) : u[i] = s[i - 1]
      BY OnTop
    <2> HIDE DEF u
    <2>2. /\ <<c>> \o u \in Seq(S) /\ Len(<<c>> \o u) = Len(u) + 1
          /\ (<<c>> \o u)[1] = c
          /\ \A i \in 2..(Len(u) + 1) : (<<c>> \o u)[i] = u[i - 1]
      BY <2>1, OnTop
    <2>3. b = <<c>> \o u
      BY DEF u
    <2> HIDE DEF b
    <2>4. b[2] = u[1]
      BY <1>1, <2>1, <2>2, <2>3
    <2>5. \A i \in 3..(Len(s) + 2) : b[i] = u[i - 1] /\ u[i - 1] = s[i - 2]
      BY <1>1, <2>1, <2>2, <2>3
    <2> QED BY <1>1, <2>1, <2>2, <2>3, <2>4, <2>5
  <1> HIDE DEF a, b
  <1>3. \A i \in 1..Len(a) : a[i] = b[i]
    <2>1. \A i \in 1..Len(a) : i = 1 \/ i = 2 \/ i \in 3..(Len(s) + 2)
      BY <1>1
    <2> QED BY <1>1, <1>2, <2>1
  <1>4. a = b
    BY <1>1, <1>2, <1>3, SeqEqual
  <1> QED BY <1>4 DEF a, b

\* The empty stack.
LEMMA NoCalls ==
  Shape(<<>>) /\ Waiting(<<>>) /\ StackEnds(<<>>) = {} /\ ToSet(<<>>) = {}
  <1>1. <<>> \in Seq(CallOf)
    OBVIOUS
  <1>2. ToSet(<<>>) = {}
    BY DEF ToSet
  <1> QED BY <1>1, <1>2 DEF Shape, Deep, Once, Waiting, StackEnds

\* A call on top of calls that wait, none of which ends a request it ends.
LEMMA Over ==
  ASSUME NEW s, Shape(s), Waiting(s), NEW c \in CallOf, EndsOf(c) \cap StackEnds(s) = {}
  PROVE  /\ Shape(<<c>> \o s) /\ <<c>> \o s # <<>>
         /\ StackEnds(<<c>> \o s) = EndsOf(c) \cup StackEnds(s)
         /\ ToSet(<<c>> \o s) = {c} \cup ToSet(s)
         /\ Len(<<c>> \o s) = Len(s) + 1
         /\ c.pc = "tell" => Waiting(<<c>> \o s)
  <1> DEFINE t == <<c>> \o s
  <1>1. s \in Seq(CallOf) /\ Len(s) \in Nat
    BY DEF Shape
  <1>2. /\ t \in Seq(CallOf) /\ t # <<>> /\ Len(t) = Len(s) + 1
        /\ DOMAIN t = 1..(Len(s) + 1) /\ DOMAIN s = 1..Len(s) /\ t[1] = c
        /\ \A i \in 1..Len(s) : t[i + 1] = s[i]
        /\ \A i \in 2..(Len(s) + 1) : t[i] = s[i - 1]
    BY <1>1, OnTop
  <1> HIDE DEF t
  <1>3. \A i \in DOMAIN t : i = 1 \/ (i - 1 \in DOMAIN s /\ t[i] = s[i - 1])
    BY <1>1, <1>2
  <1>4. Deep(t)
    <2>1. \A i \in DOMAIN t : i > 1 => i # 1
      BY <1>1, <1>2
    <2> QED BY <1>3, <2>1 DEF Deep, Waiting
  <1>5. Once(t)
    <2> SUFFICES ASSUME NEW i \in DOMAIN t, NEW j \in DOMAIN t,
                        NEW r \in EndsOf(t[i]) \cap EndsOf(t[j])
                 PROVE  i = j
      BY DEF Once
    <2>1. \A k \in DOMAIN s : r \in EndsOf(s[k]) => r \in StackEnds(s)
      BY DEF EndsOf, StackEnds
    <2>2. CASE i = 1 /\ j = 1
      BY <2>2
    <2>3. CASE i = 1 /\ j # 1
      BY <1>2, <1>3, <2>1, <2>3
    <2>4. CASE i # 1 /\ j = 1
      BY <1>2, <1>3, <2>1, <2>4
    <2>5. CASE i # 1 /\ j # 1
      <3>1. i - 1 = j - 1
        BY <1>3, <2>5 DEF Once, Shape
      <3> QED BY <3>1, <1>1, <1>2
    <2> QED BY <2>2, <2>3, <2>4, <2>5
  <1>6. StackEnds(t) = EndsOf(c) \cup StackEnds(s)
    <2>1. \A r \in StackEnds(t) : r \in EndsOf(c) \cup StackEnds(s)
      BY <1>2, <1>3 DEF StackEnds, EndsOf
    <2>2. \A r \in EndsOf(c) : r \in StackEnds(t)
      <3>1. 1 \in DOMAIN t
        BY <1>1, <1>2
      <3> QED BY <3>1, <1>2 DEF StackEnds, EndsOf
    <2>3. \A r \in StackEnds(s) : r \in StackEnds(t)
      <3>1. \A k \in DOMAIN s : k + 1 \in DOMAIN t
        BY <1>1, <1>2
      <3> QED BY <3>1, <1>2 DEF StackEnds
    <2> QED BY <2>1, <2>2, <2>3
  <1>7. ToSet(t) = {c} \cup ToSet(s)
    <2>1. \A x \in ToSet(t) : x \in {c} \cup ToSet(s)
      BY <1>2, <1>3 DEF ToSet
    <2>2. c \in ToSet(t)
      BY <1>1, <1>2 DEF ToSet
    <2>3. \A x \in ToSet(s) : x \in ToSet(t)
      <3>1. \A k \in DOMAIN s : k + 1 \in DOMAIN t
        BY <1>1, <1>2
      <3> QED BY <3>1, <1>2 DEF ToSet
    <2> QED BY <2>1, <2>2, <2>3
  <1>8. c.pc = "tell" => Waiting(t)
    BY <1>2, <1>3 DEF Waiting
  <1> QED BY <1>2, <1>4, <1>5, <1>6, <1>7, <1>8 DEF Shape, t

\* What is below the call on top waits, and ends none of its requests.
LEMMA Under ==
  ASSUME NEW s, Shape(s), s # <<>>
  PROVE  /\ Head(s) \in CallOf /\ Shape(Tail(s)) /\ Waiting(Tail(s))
         /\ StackEnds(s) = EndsOf(Head(s)) \cup StackEnds(Tail(s))
         /\ EndsOf(Head(s)) \cap StackEnds(Tail(s)) = {}
         /\ ToSet(s) = {Head(s)} \cup ToSet(Tail(s))
         /\ Len(s) = Len(Tail(s)) + 1
  <1> DEFINE t == Tail(s)
  <1>1. s \in Seq(CallOf)
    BY DEF Shape
  <1>2. /\ Head(s) \in CallOf /\ Head(s) = s[1] /\ t \in Seq(CallOf)
        /\ Len(s) \in Nat \ {0} /\ Len(t) = Len(s) - 1
        /\ DOMAIN s = 1..Len(s) /\ DOMAIN t = 1..(Len(s) - 1)
        /\ \A i \in 1..(Len(s) - 1) : t[i] = s[i + 1]
        /\ \A i \in 2..Len(s) : s[i] = t[i - 1]
    BY <1>1, Below
  <1> HIDE DEF t
  <1>3. \A i \in DOMAIN t : i + 1 \in DOMAIN s /\ i + 1 > 1 /\ t[i] = s[i + 1] /\ i \in Nat
    BY <1>2
  <1>4. \A i \in DOMAIN s : i = 1 \/ (i - 1 \in DOMAIN t /\ s[i] = t[i - 1])
    BY <1>2
  <1>5. Waiting(t) /\ Deep(t)
    BY <1>3 DEF Waiting, Deep, Shape
  <1>6. Once(t)
    <2> SUFFICES ASSUME NEW i \in DOMAIN t, NEW j \in DOMAIN t,
                        NEW r \in EndsOf(t[i]) \cap EndsOf(t[j])
                 PROVE  i = j
      BY DEF Once
    <2>1. i + 1 = j + 1
      BY <1>3 DEF Once, Shape
    <2> QED BY <2>1, <1>3
  <1>7. 1 \in DOMAIN s
    BY <1>2
  <1>8. StackEnds(s) = EndsOf(Head(s)) \cup StackEnds(t)
    <2>1. \A r \in StackEnds(s) : r \in EndsOf(Head(s)) \cup StackEnds(t)
      BY <1>2, <1>4 DEF StackEnds, EndsOf
    <2>2. \A r \in EndsOf(Head(s)) : r \in StackEnds(s)
      BY <1>7, <1>2 DEF StackEnds, EndsOf
    <2>3. \A r \in StackEnds(t) : r \in StackEnds(s)
      BY <1>3 DEF StackEnds
    <2> QED BY <2>1, <2>2, <2>3
  <1>9. EndsOf(Head(s)) \cap StackEnds(t) = {}
    <2> SUFFICES ASSUME NEW r \in EndsOf(Head(s)), NEW i \in DOMAIN t,
                        r \in EndsOf(t[i])
                 PROVE  FALSE
      BY DEF StackEnds, EndsOf
    <2>1. i + 1 = 1
      BY <1>2, <1>3, <1>7 DEF Once, Shape
    <2> QED BY <2>1, <1>3
  <1>10. ToSet(s) = {Head(s)} \cup ToSet(t)
    <2>1. \A x \in ToSet(s) : x \in {Head(s)} \cup ToSet(t)
      BY <1>2, <1>4 DEF ToSet
    <2>2. Head(s) \in ToSet(s)
      BY <1>2, <1>7 DEF ToSet
    <2>3. \A x \in ToSet(t) : x \in ToSet(s)
      BY <1>3 DEF ToSet
    <2> QED BY <2>1, <2>2, <2>3
  <1> QED BY <1>2, <1>5, <1>6, <1>8, <1>9, <1>10 DEF Shape, t
-----------------------------------------------------------------------------
(* The inductive invariant                                                 *)

CommandOf == [type: {"synthesize", "cancel"}, id: Ids]
EventOf == WorkerFrames \cup {Local}

\* The parts of TypeOK.
TableTypes ==
  /\ running \in BOOLEAN /\ stopping \in BOOLEAN /\ handled \in BOOLEAN
  /\ active \subseteq Ids /\ told \subseteq active
  /\ outbound \in Seq(CommandOf) /\ Len(outbound) <= MaxOutbound
  /\ nextId \in 0..MaxId /\ sess \in 0..MaxStarts /\ starts \in 0..MaxStarts

ThreadTypes ==
  /\ wpc \in {"none", "wait", "send", "done"}
  /\ wcmd \in [type: {"none", "synthesize", "cancel"}, id: 0..MaxId]
  /\ dpc \in {"none", "loop", "check", "done"}

SessionTypes ==
  /\ sstate \in {"none", "ready", "failed", "stopping", "stopped", "exited"}
  /\ events \in Seq(EventOf) /\ overflowed \in BOOLEAN
  /\ transport \in {"none", "running", "closing", "exited"}

HistTypes ==
  /\ accepted \subseteq Ids /\ ended \subseteq Ids /\ repeated \in BOOLEAN
  /\ lastSent \in 0..MaxId

Types == TableTypes /\ ThreadTypes /\ SessionTypes /\ HistTypes

(***************************************************************************)
(* What a call in progress on thread t implies, wherever it is in the      *)
(* stack.  A call of stop() past its first critical section keeps the      *)
(* client down; past fail_all_requests there is no request; on the owner   *)
(* thread the threads it joined stay joined.                               *)
(***************************************************************************)
CallOK(t, c) ==
  /\ c.pc # "tell" => c.cbs = {}
  /\ c.sp # 0 => c.pc \in {"sstop", "tstop"}
  /\ t = "owner" => c.kind \in {"stop", "start"}
  /\ c.kind = "start" => /\ t = "owner" /\ c.pc \in {"joinw", "joind", "reap", "install"}
                         /\ starts < MaxStarts
  /\ c.pc \in {"reap", "install"} => c.kind = "start"
  /\ c.pc \in {"stop", "finish"} => c.kind = "stop"
  /\ c.pc = "joinw" => c.kind \in {"stop", "start"}
  /\ c.pc = "joind" => t = "owner"
  /\ c.kind = "stop" /\ c.pc # "stop" => ~running
  /\ c.kind = "stop" /\ c.pc \in {"tell", "finish"} => active = {}
  /\ t = "owner" /\ c.kind = "stop" =>
       /\ c.pc \in {"joind", "fail", "tell", "finish"} => wpc = "none"
       /\ c.pc \in {"fail", "tell", "finish"} => dpc = "none"

Stacks ==
  /\ DOMAIN calls = Threads
  /\ \A t \in Threads : Shape(calls[t]) /\ \A c \in ToSet(calls[t]) : CallOK(t, c)
  /\ \A c \in ToSet(calls["owner"]) : c.kind = "start" => Len(calls["owner"]) = 1
  /\ dpc # "loop" => calls["dispatcher"] = <<>>

\* A session exists only while the client is up or being stopped, requests only with one.
Down ==
  /\ sess # 0 => running \/ stopping
  /\ sess = 0 => active = {} /\ outbound = <<>>

\* OneTerminalCallback by thread, and ids that were never given are not yet accepted.
Account ==
  /\ ~repeated /\ ended \subseteq accepted
  /\ accepted \ ended = active \cup Committed("owner") \cup Committed("dispatcher")
  /\ active \cap Committed("owner") = {} /\ active \cap Committed("dispatcher") = {}
  /\ Committed("owner") \cap Committed("dispatcher") = {}
  /\ nextId # 0 => \A r \in accepted : r < nextId

Inv == Types /\ Stacks /\ Down /\ Account

\* The invariant implies the type invariant.
LEMMA InvTyped == Inv => TypeOK
  <1> SUFFICES ASSUME Inv PROVE TypeOK
    OBVIOUS
  <1>1. ASSUME NEW t \in Threads, NEW i \in DOMAIN calls[t] PROVE calls[t][i] \in CallOf
    BY DEF Inv, Stacks, Shape
  <1>2. ASSUME NEW i \in DOMAIN events PROVE events[i] = Local \/ events[i] \in WorkerFrames
    BY DEF Inv, Types, SessionTypes, EventOf
  <1>3. TableTypes /\ ThreadTypes /\ HistTypes /\ SessionTypes
    BY DEF Inv, Types
  <1> QED BY <1>1, <1>2, <1>3
        DEF TypeOK, TableTypes, ThreadTypes, HistTypes, SessionTypes, CommandOf

\* The invariant implies that each request has exactly one terminal callback.
LEMMA InvOnce == Inv => OneTerminalCallback
  <1>1. UNION {Committed(t) : t \in Threads} = Committed("owner") \cup Committed("dispatcher")
    BY DEF Threads
  <1> QED BY <1>1 DEF Inv, Account, OneTerminalCallback, Threads

\* The invariant implies that stop() leaves nothing behind.
LEMMA InvNothingLeft == Inv => NothingLeftBehind
  <1> SUFFICES ASSUME Inv, sess = 0, \A t \in Threads : Idle(t) PROVE accepted \subseteq ended
    BY DEF NothingLeftBehind, Inv, Down
  <1>1. Committed("owner") = {} /\ Committed("dispatcher") = {}
    BY DEF Committed, Idle, Threads
  <1> QED BY <1>1 DEF Inv, Down, Account

\* Initially.
LEMMA InvInit == Init => Inv
  <1> SUFFICES ASSUME Init PROVE Inv
    OBVIOUS
  <1>0. outbound \in Seq(CommandOf) /\ events \in Seq(EventOf) /\ Len(outbound) = 0
    BY DEF Init
  <1>a. 0 \in 0..MaxId /\ 1 \in 0..MaxId /\ 0 \in 0..MaxStarts /\ 0 <= MaxOutbound
    BY ClientAssumption
  <1>b. ThreadTypes
    BY <1>a DEF Init, ThreadTypes, NoCommand, Command
  <1>1. Types
    BY <1>0, <1>a, <1>b DEF Init, Types, TableTypes, SessionTypes, HistTypes
  <1>2. calls["owner"] = <<>> /\ calls["dispatcher"] = <<>> /\ DOMAIN calls = Threads
    BY DEF Init, Threads
  <1>3. Stacks
    BY <1>2, NoCalls DEF Stacks, Threads
  <1>4. Committed("owner") = {} /\ Committed("dispatcher") = {}
    BY <1>2 DEF Committed
  <1>5. Down /\ Account
    BY <1>4 DEF Init, Down, Account
  <1> QED BY <1>1, <1>3, <1>5 DEF Inv
-----------------------------------------------------------------------------
(* How a step moves the stacks                                             *)

\* A step that keeps what the calls in progress rely on.
Kept ==
  /\ running' => running
  /\ starts' = starts
  /\ active = {} /\ ~running => active' = {}
  /\ wpc = "none" => wpc' = "none"
  /\ dpc = "none" => dpc' = "none"
  /\ dpc = "loop" => dpc' = "loop" \/ calls["dispatcher"] = <<>>

\* Calls in progress stay in order under such a step.
LEMMA CallKept ==
  ASSUME Kept, NEW t, NEW c, CallOK(t, c)
  PROVE  CallOK(t, c)'
  BY DEF Kept, CallOK

\* The requests a thread is committed to end are those of its stack.
LEMMA CommittedIsStackEnds ==
  ASSUME NEW t
  PROVE  Committed(t) = StackEnds(calls[t]) /\ Committed(t)' = StackEnds(calls'[t])
  BY DEF Committed, StackEnds

\* A step that moves no thread's calls.
LEMMA CallsStay ==
  ASSUME Stacks, Kept, calls' = calls
  PROVE  Stacks' /\ \A t \in Threads : Committed(t)' = Committed(t)
  <1>1. \A t \in Threads : \A c \in ToSet(calls'[t]) : CallOK(t, c)'
    BY CallKept DEF Stacks
  <1>2. dpc' # "loop" => calls["dispatcher"] = <<>>
    BY DEF Kept, Stacks
  <1>3. Stacks'
    BY <1>1, <1>2 DEF Stacks
  <1> QED BY <1>3, CommittedIsStackEnds

\* A step that gives thread t the stack s.
LEMMA ThreadMoves ==
  ASSUME Stacks, Kept, NEW t \in Threads, NEW s,
         calls' = [calls EXCEPT ![t] = s],
         Shape(s), \A c \in ToSet(s) : CallOK(t, c)',
         t = "owner" => \A c \in ToSet(s) : c.kind = "start" => Len(s) = 1,
         t = "dispatcher" => dpc' = "loop" \/ s = <<>>
  PROVE  /\ Stacks' /\ calls'[t] = s
         /\ Committed(t)' = StackEnds(s)
         /\ \A u \in Threads \ {t} : calls'[u] = calls[u] /\ Committed(u)' = Committed(u)
  <1>1. DOMAIN calls' = Threads /\ calls'[t] = s /\ \A u \in Threads \ {t} : calls'[u] = calls[u]
    BY DEF Stacks
  <1>2. \A u \in Threads : Shape(calls'[u])
    BY <1>1 DEF Stacks
  <1>3. \A u \in Threads : \A c \in ToSet(calls'[u]) : CallOK(u, c)'
    BY <1>1, CallKept DEF Stacks
  <1>4. \A c \in ToSet(calls'["owner"]) : c.kind = "start" => Len(calls'["owner"]) = 1
    BY <1>1 DEF Stacks, Threads
  <1>5. dpc' # "loop" => calls'["dispatcher"] = <<>>
    BY <1>1 DEF Stacks, Threads, Kept
  <1>6. Stacks'
    BY <1>1, <1>2, <1>3, <1>4, <1>5 DEF Stacks
  <1> QED BY <1>1, <1>6, CommittedIsStackEnds

\* The call on top of thread t becomes d.
LEMMA TopMoves ==
  ASSUME Stacks, Kept, NEW t \in Threads, calls[t] # <<>>, NEW d \in CallOf,
         Step(t, d), CallOK(t, d)', d.kind = Top(t).kind,
         EndsOf(d) \cap StackEnds(Tail(calls[t])) = {}
  PROVE  /\ Stacks' /\ calls'[t] # <<>> /\ Top(t)' = d
         /\ calls'[t] = <<d>> \o Tail(calls[t])
         /\ Committed(t)' = EndsOf(d) \cup StackEnds(Tail(calls[t]))
         /\ \A u \in Threads \ {t} : calls'[u] = calls[u] /\ Committed(u)' = Committed(u)
  <1> DEFINE low == Tail(calls[t])
             s == <<d>> \o low
  <1>1. /\ Head(calls[t]) \in CallOf /\ Shape(low) /\ Waiting(low)
        /\ ToSet(calls[t]) = {Head(calls[t])} \cup ToSet(low)
        /\ Len(calls[t]) = Len(low) + 1
    BY Under DEF Stacks
  <1>2. /\ Shape(s) /\ s # <<>> /\ StackEnds(s) = EndsOf(d) \cup StackEnds(low)
        /\ ToSet(s) = {d} \cup ToSet(low) /\ Len(s) = Len(low) + 1
    BY <1>1, Over
  <1>3. calls' = [calls EXCEPT ![t] = s]
    BY DEF Step
  <1>4. Head(s) = d
    <2>1. low \in Seq(CallOf)
      BY <1>1 DEF Shape
    <2> QED BY <2>1, OnTop
  <1>5. t = "dispatcher" => dpc' = "loop"
    BY DEF Stacks, Kept
  <1> HIDE DEF s, low
  <1>6. \A c \in ToSet(s) : CallOK(t, c)'
    BY <1>1, <1>2, CallKept DEF Stacks
  <1>7. t = "owner" => \A c \in ToSet(s) : c.kind = "start" => Len(s) = 1
    BY <1>1, <1>2 DEF Stacks, Top
  <1>8. /\ Stacks' /\ calls'[t] = s
        /\ Committed(t)' = StackEnds(s)
        /\ \A u \in Threads \ {t} : calls'[u] = calls[u] /\ Committed(u)' = Committed(u)
    BY <1>2, <1>3, <1>5, <1>6, <1>7, ThreadMoves
  <1> QED BY <1>2, <1>4, <1>8 DEF s, low, Top

\* The call on top of thread t returns.
LEMMA TopReturns ==
  ASSUME Stacks, Kept, NEW t \in Threads, calls[t] # <<>>, Leave(t)
  PROVE  /\ Stacks' /\ calls'[t] = Tail(calls[t])
         /\ Committed(t)' = StackEnds(Tail(calls[t]))
         /\ \A u \in Threads \ {t} : calls'[u] = calls[u] /\ Committed(u)' = Committed(u)
  <1> DEFINE low == Tail(calls[t])
  <1>1. /\ Shape(low) /\ ToSet(calls[t]) = {Head(calls[t])} \cup ToSet(low)
        /\ Len(calls[t]) = Len(low) + 1
    BY Under DEF Stacks
  <1>2. calls' = [calls EXCEPT ![t] = low]
    BY DEF Leave
  <1>3. t = "dispatcher" => dpc' = "loop"
    BY DEF Stacks, Kept
  <1>4. Len(low) \in Nat /\ (ToSet(low) # {} => Len(low) # 0)
    <2>1. low \in Seq(CallOf)
      BY <1>1 DEF Shape
    <2> HIDE DEF low
    <2> QED BY <2>1, LenProperties DEF ToSet
  <1> HIDE DEF low
  <1>5. \A c \in ToSet(low) : CallOK(t, c)'
    BY <1>1, CallKept DEF Stacks
  <1>6. t = "owner" => \A c \in ToSet(low) : c.kind = "start" => Len(low) = 1
    <2> SUFFICES ASSUME t = "owner", NEW c \in ToSet(low), c.kind = "start" PROVE FALSE
      OBVIOUS
    <2>1. Len(calls[t]) = 1
      BY <1>1 DEF Stacks
    <2>2. Len(low) \in Nat /\ Len(low) # 0
      BY <1>4
    <2>3. Len(low) + 1 = 1
      BY <2>1, <1>1, Zenon
    <2> QED BY <2>2, <2>3
  <1> QED BY <1>1, <1>2, <1>3, <1>5, <1>6, ThreadMoves DEF low

\* Thread t, which is in no call, enters d.
LEMMA IdleEnters ==
  ASSUME Stacks, Kept, NEW t \in Threads, calls[t] = <<>>, NEW d \in CallOf,
         Enter(t, d), CallOK(t, d)', t = "dispatcher" => dpc' = "loop"
  PROVE  /\ Stacks' /\ calls'[t] # <<>> /\ ToSet(calls'[t]) = {d}
         /\ Committed(t) = {} /\ Committed(t)' = EndsOf(d)
         /\ \A u \in Threads \ {t} : calls'[u] = calls[u] /\ Committed(u)' = Committed(u)
  <1> DEFINE e == calls[t]
             s == <<d>> \o e
  <1>0. /\ Shape(e) /\ Waiting(e) /\ StackEnds(e) = {} /\ ToSet(e) = {} /\ Len(e) = 0
        /\ Committed(t) = {}
    BY NoCalls, CommittedIsStackEnds
  <1>1. /\ Shape(s) /\ s # <<>> /\ StackEnds(s) = EndsOf(d)
        /\ ToSet(s) = {d} /\ Len(s) = 1
    <2> HIDE DEF e
    <2>1. EndsOf(d) \cap StackEnds(e) = {}
      BY <1>0
    <2>2. /\ Shape(s) /\ s # <<>> /\ StackEnds(s) = EndsOf(d) \cup StackEnds(e)
          /\ ToSet(s) = {d} \cup ToSet(e) /\ Len(s) = Len(e) + 1
      BY <1>0, <2>1, Over, Zenon
    <2> HIDE DEF s
    <2> QED BY <1>0, <2>2
  <1>2. calls' = [calls EXCEPT ![t] = s]
    BY DEF Enter
  <1> HIDE DEF s
  <1>3. Stacks' /\ calls'[t] = s /\ Committed(t)' = StackEnds(s)
        /\ \A u \in Threads \ {t} : calls'[u] = calls[u] /\ Committed(u)' = Committed(u)
    BY <1>1, <1>2, ThreadMoves
  <1> QED BY <1>0, <1>1, <1>3
\* A step that neither gives nor ends a request and moves no commitment keeps the account.
LEMMA AccountStays ==
  ASSUME Account, UNCHANGED <<accepted, ended, repeated, active, nextId>>,
         \A t \in Threads : Committed(t)' = Committed(t)
  PROVE  Account'
  BY DEF Account, Threads

-----------------------------------------------------------------------------
(* The transport's callback thread                                         *)

\* A step of the session, which the client does not see before it dispatches the event.
LEMMA SessionMoves ==
  ASSUME Inv, UNCHANGED <<clientVars, threadVars, calls, histVars>>, SessionTypes'
  PROVE  Inv'
  <1> USE DEF clientVars, threadVars, histVars
  <1>1. Types'
    BY DEF Inv, Types, TableTypes, ThreadTypes, HistTypes
  <1>2. Kept
    BY DEF Kept
  <1>3. Stacks' /\ \A t \in Threads : Committed(t)' = Committed(t)
    BY <1>2, CallsStay DEF Inv
  <1>4. Down'
    BY DEF Inv, Down
  <1>5. Account'
    BY <1>3, AccountStays DEF Inv
  <1> QED BY <1>1, <1>3, <1>4, <1>5 DEF Inv

\* Events a frame or a local error becomes.
LEMMA EventTypes ==
  /\ Local \in EventOf
  /\ \A f \in Frames : Event(f.type, f.id) \in EventOf
  /\ Event("other", 0) \in EventOf
  <1>1. \A f \in Frames : Event(f.type, f.id) \in WorkerFrames
    BY ClientAssumption DEF WorkerFrames, Event
  <1>2. 0 \in 0..MaxId
    BY ClientAssumption
  <1>3. Event("other", 0) \in WorkerFrames
    BY <1>2 DEF WorkerFrames, Event
  <1> QED BY <1>1, <1>3 DEF EventOf

\* handle_bytes, handle_transport_error, handle_exit and the end of the process.
LEMMA SessionKeeps ==
  ASSUME Inv, Session \/ ReceiveExit
  PROVE  Inv'
  <1>0. SessionTypes
    BY DEF Inv, Types
  <1>1. \A e \in EventOf : Append(events, e) \in Seq(EventOf)
    BY <1>0 DEF SessionTypes
  <1>2. Failed \in {"none", "ready", "failed", "stopping", "stopped", "exited"}
    BY <1>0 DEF Failed, SessionTypes
  <1>3. UNCHANGED <<clientVars, threadVars, calls, histVars>> /\ SessionTypes'
    <2>1. CASE TransportError
      BY <2>1, <1>0, <1>1, <1>2, EventTypes DEF TransportError, EnqueueExempt, SessionTypes
    <2>2. CASE ProcessEnds
      BY <2>2, <1>0 DEF ProcessEnds, SessionTypes
    <2>3. CASE ReceiveExit
      BY <2>3, <1>0, <1>1, EventTypes DEF ReceiveExit, EnqueueExempt, SessionTypes
    <2>4. ASSUME NEW f \in Frames, ReceiveFrame(f)
          PROVE  UNCHANGED <<clientVars, threadVars, calls, histVars>> /\ SessionTypes'
      <3>1. UNCHANGED <<clientVars, threadVars, calls, histVars>>
        BY <2>4 DEF ReceiveFrame
      <3>2. CASE Allowed(f)
        <4>1. EnqueueRegular(Event(f.type, f.id)) /\ Event(f.type, f.id) \in EventOf
          BY <2>4, <3>2, EventTypes DEF ReceiveFrame
        <4> QED BY <4>1, <3>1, <1>0, <1>1, <1>2, EventTypes
              DEF EnqueueRegular, Overflow, SessionTypes
      <3>3. CASE ~Allowed(f)
        <4>1. sstate' = Failed /\ EnqueueExempt /\ transport' \in {transport, "closing"}
          BY <2>4, <3>3 DEF ReceiveFrame
        <4> QED BY <4>1, <3>1, <1>0, <1>1, <1>2, EventTypes DEF EnqueueExempt, SessionTypes
      <3> QED BY <3>2, <3>3
    <2> QED BY <2>1, <2>2, <2>3, <2>4 DEF Session
  <1> QED BY <1>3, SessionMoves
-----------------------------------------------------------------------------
(* Application threads and the writer thread                               *)

\* allocate_request_id_locked gives an id that was never accepted.
LEMMA FreshId ==
  ASSUME Inv, NEW requested \in 0..MaxId, NEW r \in Ids, Allocates(requested, r)
  PROVE  /\ r \notin accepted /\ r \notin active /\ r \notin ended
         /\ \A t \in Threads : r \notin Committed(t)
         /\ nextId' \in 0..MaxId
         /\ nextId' # 0 => r < nextId' /\ \A q \in accepted : q < nextId'
         /\ nextId # 0 /\ \A q \in accepted : q < r
  <1>1. /\ nextId # 0 /\ r >= nextId /\ nextId' = IF r = MaxId THEN 0 ELSE r + 1
        /\ \A q \in accepted : q < nextId
    BY DEF Allocates, Inv, Account
  <1>2. nextId \in Nat /\ r \in Nat /\ r <= MaxId /\ MaxId \in Nat /\ \A q \in accepted : q \in Nat
    BY ClientAssumption DEF Inv, Types, TableTypes, HistTypes, Ids
  <1>3. \A q \in accepted : q < r
    BY <1>1, <1>2
  <1>4. r \notin accepted
    BY <1>2, <1>3
  <1>5. nextId' \in 0..MaxId /\ (nextId' # 0 => r < nextId')
    BY <1>1, <1>2
  <1>6. nextId' # 0 => \A q \in accepted : q < nextId'
    BY <1>2, <1>3, <1>5
  <1> QED BY <1>1, <1>3, <1>4, <1>5, <1>6 DEF Inv, Account, Threads

\* synthesize_async accepts a request.
LEMMA SynthesizeKeeps ==
  ASSUME Inv, NEW requested \in 0..MaxId, Synthesize(requested)
  PROVE  Inv'
  <1>1. PICK r \in Ids :
          /\ CanSubmit /\ Allocates(requested, r)
          /\ Len(outbound) < MaxOutbound
          /\ active' = active \cup {r}
          /\ outbound' = Append(outbound, Command("synthesize", r))
          /\ accepted' = accepted \cup {r}
          /\ UNCHANGED <<running, stopping, handled, told, sess, starts>>
          /\ UNCHANGED <<threadVars, calls, sessionVars, ended, repeated, lastSent>>
    BY DEF Synthesize
  <1> USE DEF threadVars, sessionVars
  <1>2. /\ r \notin accepted /\ r \notin active /\ r \notin ended
        /\ \A t \in Threads : r \notin Committed(t)
        /\ nextId' \in 0..MaxId
        /\ nextId' # 0 => r < nextId' /\ \A q \in accepted : q < nextId'
    BY <1>1, FreshId
  <1>3. Command("synthesize", r) \in CommandOf
    BY DEF Command, CommandOf
  <1>4. outbound' \in Seq(CommandOf) /\ Len(outbound') <= MaxOutbound
    BY <1>1, <1>3, ClientAssumption DEF Inv, Types, TableTypes
  <1>5. Types'
    BY <1>1, <1>2, <1>4 DEF Inv, Types, TableTypes, ThreadTypes, SessionTypes, HistTypes
  <1>6. Kept
    BY <1>1 DEF Kept, CanSubmit
  <1>7. Stacks' /\ \A t \in Threads : Committed(t)' = Committed(t)
    BY <1>1, <1>6, CallsStay DEF Inv
  <1>8. Down'
    BY <1>1 DEF Inv, Down, CanSubmit
  <1>9. Account'
    BY <1>1, <1>2, <1>7 DEF Inv, Account, Threads
  <1> QED BY <1>5, <1>7, <1>8, <1>9 DEF Inv

\* synthesize_async refuses after the id is taken.
LEMMA RefusedKeeps ==
  ASSUME Inv, NEW requested \in 0..MaxId, SynthesizeRefused(requested)
  PROVE  Inv'
  <1>1. PICK r \in Ids :
          /\ CanSubmit /\ Allocates(requested, r)
          /\ UNCHANGED <<running, stopping, handled, active, told, outbound, sess, starts>>
          /\ UNCHANGED <<threadVars, calls, sessionVars, histVars>>
    BY DEF SynthesizeRefused
  <1> USE DEF threadVars, sessionVars, histVars
  <1>2. nextId' \in 0..MaxId /\ (nextId' # 0 => \A q \in accepted : q < nextId')
    BY <1>1, FreshId
  <1>3. Types'
    BY <1>1, <1>2 DEF Inv, Types, TableTypes, ThreadTypes, SessionTypes, HistTypes
  <1>4. Kept
    BY <1>1 DEF Kept
  <1>5. Stacks' /\ \A t \in Threads : Committed(t)' = Committed(t)
    BY <1>1, <1>4, CallsStay DEF Inv
  <1>6. Down'
    BY <1>1 DEF Inv, Down
  <1>7. Account'
    BY <1>1, <1>2, <1>5 DEF Inv, Account, Threads
  <1> QED BY <1>3, <1>5, <1>6, <1>7 DEF Inv

\* cancel.
LEMMA CancelKeeps ==
  ASSUME Inv, NEW r \in Ids, Cancel(r)
  PROVE  Inv'
  <1> USE DEF threadVars, sessionVars, histVars
  <1>1. Command("cancel", r) \in CommandOf
    BY DEF Command, CommandOf
  <1>2. outbound' \in Seq(CommandOf) /\ Len(outbound') <= MaxOutbound
    BY <1>1, ClientAssumption DEF Cancel, Inv, Types, TableTypes
  <1>3. Types'
    BY <1>2 DEF Cancel, Inv, Types, TableTypes, ThreadTypes, SessionTypes, HistTypes
  <1>4. Kept
    BY DEF Kept, Cancel
  <1>5. Stacks' /\ \A t \in Threads : Committed(t)' = Committed(t)
    BY <1>4, CallsStay DEF Inv, Cancel
  <1>6. Down'
    BY DEF Inv, Down, Cancel, CanSubmit
  <1>7. Account'
    BY <1>5, AccountStays DEF Inv, Cancel
  <1> QED BY <1>3, <1>5, <1>6, <1>7 DEF Inv

\* writer_loop.
LEMMA WriterKeeps ==
  ASSUME Inv, WriterThread
  PROVE  Inv'
  <1> USE DEF clientVars, sessionVars, histVars
  <1>0. TableTypes /\ ThreadTypes /\ SessionTypes /\ HistTypes
    BY DEF Inv, Types
  <1>1. CASE WriterTake
    <2>1. Types'
      <3>1. CASE outbound # <<>>
        <4>1. /\ Head(outbound) \in CommandOf /\ Tail(outbound) \in Seq(CommandOf)
              /\ Len(Tail(outbound)) <= MaxOutbound
          BY <1>0, <3>1, ClientAssumption DEF TableTypes
        <4>2. wcmd' = Head(outbound) /\ outbound' = Tail(outbound) /\ wpc' = "send"
          BY <1>1, <3>1 DEF WriterTake
        <4>3. CommandOf \subseteq [type: {"none", "synthesize", "cancel"}, id: 0..MaxId]
          <5>1. Ids \subseteq 0..MaxId
            BY ClientAssumption DEF Ids
          <5> QED BY <5>1 DEF CommandOf
        <4> QED BY <1>0, <1>1, <4>1, <4>2, <4>3
              DEF WriterTake, Types, TableTypes, ThreadTypes, SessionTypes, HistTypes
      <3>2. CASE outbound = <<>>
        BY <1>0, <1>1, <3>2
           DEF WriterTake, Types, TableTypes, ThreadTypes, SessionTypes, HistTypes
      <3> QED BY <3>1, <3>2
    <2>2. Kept
      BY <1>1 DEF Kept, WriterTake
    <2>3. Stacks' /\ \A t \in Threads : Committed(t)' = Committed(t)
      BY <1>1, <2>2, CallsStay DEF Inv, WriterTake
    <2>4. Down'
      BY <1>1 DEF Inv, Down, WriterTake
    <2>5. Account'
      BY <1>1, <2>3, AccountStays DEF Inv, WriterTake
    <2> QED BY <2>1, <2>3, <2>4, <2>5 DEF Inv
  <1>2. CASE WriterSend
    <2>1. Types'
      <3>1. lastSent' \in 0..MaxId
        BY <1>0, <1>2 DEF WriterSend, ThreadTypes, HistTypes
      <3>2. SessionTypes'
        <4>1. Append(events, Local) \in Seq(EventOf)
          BY <1>0, EventTypes DEF SessionTypes
        <4> QED BY <1>0, <1>2, <4>1 DEF WriterSend, SessionTypes, Failed, EnqueueExempt
      <3>3. ThreadTypes'
        <4>1. NoCommand \in [type: {"none", "synthesize", "cancel"}, id: 0..MaxId]
          <5>1. 0 \in 0..MaxId
            BY ClientAssumption
          <5> QED BY <5>1 DEF NoCommand, Command
        <4> QED BY <1>0, <1>2, <4>1 DEF WriterSend, ThreadTypes
      <3> QED BY <1>0, <1>2, <3>1, <3>2, <3>3 DEF WriterSend, Types, TableTypes, HistTypes
    <2>2. Kept
      BY <1>2 DEF Kept, WriterSend
    <2>3. Stacks' /\ \A t \in Threads : Committed(t)' = Committed(t)
      BY <1>2, <2>2, CallsStay DEF Inv, WriterSend
    <2>4. Down'
      BY <1>2 DEF Inv, Down, WriterSend
    <2>5. Account'
      BY <1>2, <2>3, AccountStays DEF Inv, WriterSend
    <2> QED BY <2>1, <2>3, <2>4, <2>5 DEF Inv
  <1> QED BY <1>1, <1>2 DEF WriterThread
-----------------------------------------------------------------------------
(* The dispatcher thread                                                   *)

\* A callback is determined by its kind and its request.
LEMMA Callbacks ==
  ASSUME NEW rs \in SUBSET Ids
  PROVE  /\ Ends(rs) \subseteq [cb: {"text", "audio", "end"}, id: rs]
         /\ \A r \in Ids : Callback("end", r) \in Ends(rs) <=> r \in rs
         /\ \A c \in Ends(rs) : c.cb = "end"
  <1>1. \A c \in Ends(rs) : \E r \in rs : c = [cb |-> "end", id |-> r]
    BY DEF Ends, Callback
  <1>2. Ends(rs) \subseteq [cb: {"text", "audio", "end"}, id: rs]
    BY <1>1
  <1>3. \A r \in rs : Callback("end", r) \in Ends(rs)
    BY DEF Ends
  <1>4. \A r : Callback("end", r) \in Ends(rs) => r \in rs
    <2> SUFFICES ASSUME NEW r, Callback("end", r) \in Ends(rs) PROVE r \in rs
      OBVIOUS
    <2>1. PICK q \in rs : Callback("end", r) = [cb |-> "end", id |-> q]
      BY <1>1
    <2>2. Callback("end", r).id = r
      BY DEF Callback
    <2> QED BY <2>1, <2>2
  <1> QED BY <1>1, <1>2, <1>3, <1>4

\* A handler takes rs out of the table and enters the callbacks cbs, which end rs.
LEMMA HandlerTakes ==
  ASSUME Inv, dpc = "loop", Idle("dispatcher"), events # <<>>, events' = Tail(events),
         UNCHANGED <<nextId, sess, starts, threadVars, sstate, overflowed, transport, histVars>>,
         NEW rs \in SUBSET active, NEW cbs \in SUBSET [cb: {"text", "audio", "end"}, id: active],
         \A r \in Ids : Callback("end", r) \in cbs <=> r \in rs,
         \A c \in cbs : c.cb = "text" => c.id \notin rs,
         Takes(rs, cbs)
  PROVE  Inv'
  <1> USE DEF threadVars, histVars
  <1>0. TableTypes /\ ThreadTypes /\ SessionTypes /\ HistTypes
    BY DEF Inv, Types
  <1>1. /\ active' = active \ rs
        /\ told' = (told \ rs) \cup {c.id : c \in {x \in cbs : x.cb = "text"}}
        /\ UNCHANGED <<running, stopping, handled, outbound>>
    BY DEF Takes
  <1>2. Types'
    <2>1. told' \subseteq active' /\ active' \subseteq Ids
      <3>1. \A c \in cbs : c.id \in active
        OBVIOUS
      <3> QED BY <1>0, <1>1, <3>1 DEF TableTypes
    <2>2. events' \in Seq(EventOf)
      BY <1>0 DEF SessionTypes
    <2> QED BY <1>0, <1>1, <2>1, <2>2 DEF Types, TableTypes, ThreadTypes, SessionTypes, HistTypes
  <1>3. Kept
    BY <1>1 DEF Kept
  <1>4. Down'
    BY <1>1 DEF Inv, Down
  <1>5. CASE cbs = {}
    <2>1. rs = {} /\ calls' = calls
      BY <1>5, <1>0 DEF Takes, TableTypes
    <2>2. Stacks' /\ \A t \in Threads : Committed(t)' = Committed(t)
      BY <1>3, <2>1, CallsStay DEF Inv
    <2>3. Account'
      BY <1>1, <2>1, <2>2, AccountStays DEF Inv
    <2> QED BY <1>2, <1>4, <2>2, <2>3 DEF Inv
  <1>6. CASE cbs # {}
    <2> DEFINE d == Call("event", "tell", 0, cbs)
    <2>1. Enter("dispatcher", d)
      BY <1>6 DEF Takes
    <2>2. d \in CallOf
      <3>1. cbs \subseteq [cb: {"text", "audio", "end"}, id: Ids]
        BY <1>0 DEF TableTypes
      <3>2. 0 \in 0..MaxStarts
        BY ClientAssumption
      <3> QED BY <3>1, <3>2 DEF Call, CallOf
    <2>3. CallOK("dispatcher", d)'
      BY DEF CallOK, Call
    <2>4. EndsOf(d) = rs
      BY <1>0 DEF EndsOf, Call, TableTypes
    <2> HIDE DEF d
    <2>5. calls["dispatcher"] = <<>> /\ "dispatcher" \in Threads /\ dpc' = "loop"
      BY DEF Idle, Threads
    <2>6. /\ Stacks' /\ Committed("dispatcher") = {} /\ Committed("dispatcher")' = rs
          /\ Committed("owner")' = Committed("owner")
      BY <1>3, <2>1, <2>2, <2>3, <2>4, <2>5, IdleEnters DEF Inv, Threads
    <2>7. Account'
      BY <1>1, <2>6 DEF Inv, Account
    <2> QED BY <1>2, <1>4, <2>6, <2>7 DEF Inv
  <1> QED BY <1>5, <1>6

\* handle_local_error.
LEMMA LocalErrorKeeps ==
  ASSUME Inv, dpc = "loop", Idle("dispatcher"), events # <<>>, events' = Tail(events),
         UNCHANGED <<nextId, sess, starts, threadVars, sstate, overflowed, transport, histVars>>,
         NEW e, HandleLocalError(e)
  PROVE  Inv'
  <1> USE DEF threadVars, histVars
  <1>0. TableTypes /\ ThreadTypes /\ SessionTypes /\ HistTypes
    BY DEF Inv, Types
  <1>1. active' = active /\ told' = told
    BY DEF HandleLocalError
  <1>2. events' \in Seq(EventOf)
    BY <1>0 DEF SessionTypes
  <1>3. CASE handled
    <2>1. UNCHANGED <<running, stopping, handled, outbound, calls>>
      BY <1>3 DEF HandleLocalError
    <2>2. Types'
      BY <1>0, <1>1, <1>2, <2>1 DEF Types, TableTypes, ThreadTypes, SessionTypes, HistTypes
    <2>3. Kept
      BY <1>1, <2>1 DEF Kept
    <2>4. Stacks' /\ \A t \in Threads : Committed(t)' = Committed(t)
      BY <2>1, <2>3, CallsStay DEF Inv
    <2>5. Down'
      BY <1>1, <2>1 DEF Inv, Down
    <2>6. Account'
      BY <1>1, <2>4, AccountStays DEF Inv
    <2> QED BY <2>2, <2>4, <2>5, <2>6 DEF Inv
  <1>4. CASE ~handled
    <2>0. PICK d \in CallOf : d = Call("error", "sstop", sess, {})
      BY <1>0 DEF CallOf, Call, TableTypes
    <2>1. /\ handled' = TRUE /\ running' = FALSE /\ stopping' = TRUE /\ outbound' = <<>>
          /\ Enter("dispatcher", d)
      BY <1>4, <2>0 DEF HandleLocalError
    <2>2. outbound' \in Seq(CommandOf) /\ Len(outbound') <= MaxOutbound
      BY <2>1, ClientAssumption
    <2>3. Types'
      BY <1>0, <1>1, <1>2, <2>1, <2>2 DEF Types, TableTypes, ThreadTypes, SessionTypes, HistTypes
    <2>4. CallOK("dispatcher", d)' /\ EndsOf(d) = {}
      BY <2>0, <2>1 DEF CallOK, Call, EndsOf
    <2>5. Kept
      BY <1>1, <2>1 DEF Kept
    <2>6. calls["dispatcher"] = <<>> /\ "dispatcher" \in Threads /\ dpc' = "loop"
      BY DEF Idle, Threads
    <2>7. /\ Stacks' /\ Committed("dispatcher") = {} /\ Committed("dispatcher")' = {}
          /\ Committed("owner")' = Committed("owner")
      BY <2>0, <2>1, <2>4, <2>5, <2>6, IdleEnters DEF Inv, Threads
    <2>8. Down'
      BY <1>1, <2>1 DEF Inv, Down
    <2>9. Account'
      BY <1>1, <2>7, AccountStays DEF Inv, Threads
    <2> QED BY <2>3, <2>7, <2>8, <2>9 DEF Inv
  <1> QED BY <1>3, <1>4

\* dispatcher_loop.
LEMMA DispatcherKeeps ==
  ASSUME Inv, Dispatcher
  PROVE  Inv'
  <1>0. TableTypes /\ ThreadTypes /\ SessionTypes /\ HistTypes
    BY DEF Inv, Types
  <1>1. CASE DispatchEvent
    <2> DEFINE e == Head(events)
    <2>1. /\ dpc = "loop" /\ Idle("dispatcher") /\ events # <<>> /\ events' = Tail(events)
          /\ UNCHANGED <<nextId, sess, starts, threadVars, sstate, overflowed, transport, histVars>>
          /\ HandleProgress(e) \/ HandleTerminal(e) \/ HandleIgnored(e) \/ HandleLocalError(e)
      BY <1>1 DEF DispatchEvent
    <2> HIDE DEF e
    <2>2. CASE HandleProgress(e)
      <3> DEFINE cbs == IF e.id \notin active THEN {}
                        ELSE TextOnce(e.id) \cup
                             IF e.type = "audio" THEN {Callback("audio", e.id)} ELSE {}
      <3>1. Takes({}, cbs)
        BY <2>2 DEF HandleProgress
      <3>2. /\ cbs \subseteq [cb: {"text", "audio", "end"}, id: active]
            /\ \A r \in Ids : Callback("end", r) \in cbs <=> r \in {}
            /\ \A c \in cbs : c.cb = "text" => c.id \notin {}
        BY DEF TextOnce, Callback
      <3> HIDE DEF cbs
      <3> QED BY <2>1, <3>1, <3>2, HandlerTakes
    <2>3. CASE HandleTerminal(e)
      <3> DEFINE rs == IF e.id = 0 THEN active ELSE active \cap {e.id}
      <3>1. Takes(rs, Ends(rs)) /\ rs \subseteq active
        BY <2>3 DEF HandleTerminal
      <3> HIDE DEF rs
      <3>2. /\ Ends(rs) \subseteq [cb: {"text", "audio", "end"}, id: active]
            /\ \A r \in Ids : Callback("end", r) \in Ends(rs) <=> r \in rs
            /\ \A c \in Ends(rs) : c.cb = "text" => c.id \notin rs
        <4>1. rs \subseteq Ids
          BY <1>0, <3>1 DEF TableTypes
        <4> QED BY <3>1, <4>1, Callbacks
      <3> QED BY <2>1, <3>1, <3>2, HandlerTakes
    <2>4. CASE HandleIgnored(e)
      <3>1. Takes({}, {})
        BY <2>4 DEF HandleIgnored
      <3> QED BY <2>1, <3>1, HandlerTakes
    <2>5. CASE HandleLocalError(e)
      BY <2>1, <2>5, LocalErrorKeeps
    <2> QED BY <2>1, <2>2, <2>3, <2>4, <2>5
  <1>2. CASE DispatchTimeout \/ DispatchCheck
    <2> USE DEF clientVars, sessionVars, histVars
    <2>1. /\ UNCHANGED <<wpc, wcmd, clientVars, calls, sessionVars, histVars>>
          /\ dpc' \in {"done", "check", "loop"} /\ dpc # "none"
          /\ dpc = "loop" => calls["dispatcher"] = <<>>
      BY <1>2 DEF DispatchTimeout, DispatchCheck, Idle
    <2>2. Types'
      BY <1>0, <2>1 DEF Types, TableTypes, ThreadTypes, SessionTypes, HistTypes
    <2>3. Kept
      BY <2>1 DEF Kept
    <2>4. Stacks' /\ \A t \in Threads : Committed(t)' = Committed(t)
      BY <2>1, <2>3, CallsStay DEF Inv
    <2>5. Down'
      BY <2>1 DEF Inv, Down
    <2>6. Account'
      BY <2>1, <2>4, AccountStays DEF Inv
    <2> QED BY <2>2, <2>4, <2>5, <2>6 DEF Inv
  <1> QED BY <1>1, <1>2 DEF Dispatcher
-----------------------------------------------------------------------------
(* Calls in progress                                                       *)

\* The call a thread is in.
LEMMA TopCall ==
  ASSUME Inv, NEW t \in Threads, calls[t] # <<>>
  PROVE  \E top \in CallOf :
           /\ top = Top(t) /\ CallOK(t, top)
           /\ Committed(t) = EndsOf(top) \cup StackEnds(Tail(calls[t]))
           /\ EndsOf(top) \cap StackEnds(Tail(calls[t])) = {}
  <1>1. Shape(calls[t]) /\ \A c \in ToSet(calls[t]) : CallOK(t, c)
    BY DEF Inv, Stacks
  <1>2. /\ Head(calls[t]) \in CallOf
        /\ StackEnds(calls[t]) = EndsOf(Head(calls[t])) \cup StackEnds(Tail(calls[t]))
        /\ EndsOf(Head(calls[t])) \cap StackEnds(Tail(calls[t])) = {}
        /\ ToSet(calls[t]) = {Head(calls[t])} \cup ToSet(Tail(calls[t]))
    BY <1>1, Under
  <1>3. PICK top \in CallOf : top = Head(calls[t])
    BY <1>2
  <1>4. top \in ToSet(calls[t])
    BY <1>2, <1>3
  <1>5. CallOK(t, top)
    BY <1>1, <1>4
  <1> QED BY <1>2, <1>3, <1>5, CommittedIsStackEnds DEF Top

\* A call advances without touching the requests.
LEMMA CallAdvances ==
  ASSUME Inv, Kept, NEW t \in Threads, calls[t] # <<>>, NEW d \in CallOf,
         Step(t, d), CallOK(t, d)', d.kind = Top(t).kind, EndsOf(d) = EndsOf(Top(t)),
         UNCHANGED <<accepted, ended, repeated, active, nextId>>
  PROVE  Stacks' /\ Account'
  <1>1. PICK top \in CallOf :
           /\ top = Top(t)
           /\ Committed(t) = EndsOf(top) \cup StackEnds(Tail(calls[t]))
           /\ EndsOf(top) \cap StackEnds(Tail(calls[t])) = {}
    BY TopCall
  <1>2. EndsOf(d) \cap StackEnds(Tail(calls[t])) = {}
    BY <1>1
  <1>3. /\ Stacks' /\ Committed(t)' = EndsOf(d) \cup StackEnds(Tail(calls[t]))
        /\ \A u \in Threads \ {t} : Committed(u)' = Committed(u)
    BY <1>2, TopMoves DEF Inv
  <1>4. \A u \in Threads : Committed(u)' = Committed(u)
    BY <1>1, <1>3
  <1> QED BY <1>3, <1>4, AccountStays DEF Inv

\* A call that is committed to nothing returns.
LEMMA CallReturns ==
  ASSUME Inv, Kept, NEW t \in Threads, calls[t] # <<>>, Leave(t), EndsOf(Top(t)) = {},
         UNCHANGED <<accepted, ended, repeated, active, nextId>>
  PROVE  Stacks' /\ Account'
  <1>1. Committed(t) = StackEnds(Tail(calls[t]))
    BY TopCall
  <1>2. /\ Stacks' /\ Committed(t)' = StackEnds(Tail(calls[t]))
        /\ \A u \in Threads \ {t} : Committed(u)' = Committed(u)
    BY TopReturns DEF Inv
  <1>3. \A u \in Threads : Committed(u)' = Committed(u)
    BY <1>1, <1>2
  <1> QED BY <1>2, <1>3, AccountStays DEF Inv

\* A call that has no callback to make ends nothing.
LEMMA NoEnds ==
  ASSUME NEW c, c.cbs = {}
  PROVE  EndsOf(c) = {}
  BY DEF EndsOf

\* The last callback of a call returned.
LEMMA ToldKeeps ==
  ASSUME Inv, NEW t \in Threads, Told(t)
  PROVE  Inv'
  <1> USE DEF clientVars, threadVars, sessionVars, histVars
  <1>1. /\ calls[t] # <<>> /\ Top(t).pc = "tell" /\ Top(t).cbs = {}
        /\ UNCHANGED <<clientVars, threadVars, sessionVars, histVars>>
    BY DEF Told, At, Idle
  <1>2. PICK top \in CallOf : top = Top(t) /\ CallOK(t, top)
    BY <1>1, TopCall
  <1>3. EndsOf(top) = {}
    BY <1>1, <1>2, NoEnds
  <1>4. Types' /\ Down'
    BY <1>1 DEF Inv, Types, TableTypes, ThreadTypes, SessionTypes, HistTypes, Down
  <1>5. Kept
    BY <1>1 DEF Kept
  <1>6. CASE top.kind = "stop"
    <2>1. PICK d \in CallOf : d = [top EXCEPT !.pc = "finish"]
      BY DEF CallOf
    <2>2. Step(t, d)
      BY <1>2, <1>6, <2>1 DEF Told, Move
    <2>3. d.kind = "stop" /\ d.pc = "finish" /\ d.cbs = {} /\ d.sp = top.sp
      BY <1>1, <1>2, <1>6, <2>1 DEF CallOf
    <2>4. CallOK(t, d)'
      <3>1. CallOK(t, top)'
        BY <1>2, <1>5, CallKept
      <3> QED BY <1>1, <1>2, <1>6, <2>3, <3>1 DEF CallOK
    <2>5. EndsOf(d) = {}
      BY <2>3, NoEnds
    <2> QED BY <1>1, <1>2, <1>3, <1>4, <1>5, <1>6, <2>2, <2>3, <2>4, <2>5, CallAdvances DEF Inv
  <1>7. CASE top.kind # "stop"
    <2>1. Leave(t)
      BY <1>2, <1>7 DEF Told
    <2> QED BY <1>1, <1>2, <1>3, <1>4, <1>5, <2>1, CallReturns DEF Inv
  <1> QED BY <1>6, <1>7

\* stop(), its first critical section.
LEMMA StopBeginKeeps ==
  ASSUME Inv, NEW t \in Threads, StopBegin(t)
  PROVE  Inv'
  <1> USE DEF threadVars, sessionVars, histVars
  <1>0. TableTypes /\ ThreadTypes /\ SessionTypes /\ HistTypes
    BY DEF Inv, Types
  <1>1. /\ calls[t] # <<>> /\ Top(t).pc = "stop"
        /\ running' = FALSE /\ stopping' = TRUE /\ outbound' = <<>>
        /\ UNCHANGED <<handled, active, told, nextId, sess, starts>>
        /\ UNCHANGED <<threadVars, sessionVars, histVars>>
    BY DEF StopBegin, At, Idle
  <1>2. PICK top \in CallOf : top = Top(t) /\ CallOK(t, top)
    BY <1>1, TopCall
  <1>3. top.kind = "stop" /\ top.cbs = {} /\ top.sp = 0 /\ top.pc = "stop"
    BY <1>1, <1>2 DEF CallOK
  <1>4. outbound' \in Seq(CommandOf) /\ Len(outbound') <= MaxOutbound
    BY <1>1, ClientAssumption
  <1>5. Types' /\ Down' /\ Kept
    <2>1. Types'
      <3>1. TableTypes'
        BY <1>0, <1>1, <1>4 DEF TableTypes
      <3>2. ThreadTypes' /\ SessionTypes' /\ HistTypes'
        BY <1>0, <1>1 DEF ThreadTypes, SessionTypes, HistTypes
      <3> QED BY <3>1, <3>2 DEF Types
    <2>2. Down'
      BY <1>1 DEF Inv, Down
    <2>3. Kept
      BY <1>1 DEF Kept
    <2> QED BY <2>1, <2>2, <2>3
  <1>6. PICK d \in CallOf : /\ Step(t, d) /\ d.kind = "stop" /\ d.cbs = {}
                            /\ \/ d.pc = "joinw" /\ d.sp = 0
                               \/ d.pc = "sstop" /\ d.sp = sess
    <2>1. CASE sess = 0
      <3>1. PICK d \in CallOf : d = [top EXCEPT !.pc = "joinw"]
        BY DEF CallOf
      <3>2. d.kind = "stop" /\ d.cbs = {} /\ d.pc = "joinw" /\ d.sp = 0
        BY <1>3, <3>1 DEF CallOf
      <3>3. Step(t, d)
        BY <1>2, <2>1, <3>1 DEF StopBegin, Move
      <3> QED BY <3>2, <3>3
    <2>2. CASE sess # 0
      <3>1. PICK d \in CallOf : d = [top EXCEPT !.pc = "sstop", !.sp = sess]
        BY <1>0 DEF CallOf, TableTypes
      <3>2. d.kind = "stop" /\ d.cbs = {} /\ d.pc = "sstop" /\ d.sp = sess
        BY <1>3, <3>1 DEF CallOf
      <3>3. Step(t, d)
        BY <1>2, <2>2, <3>1 DEF StopBegin
      <3> QED BY <3>2, <3>3
    <2> QED BY <2>1, <2>2
  <1>7. CallOK(t, d)'
    BY <1>1, <1>6 DEF CallOK
  <1>8. EndsOf(d) = {} /\ EndsOf(top) = {}
    BY <1>3, <1>6, NoEnds
  <1> QED BY <1>1, <1>2, <1>3, <1>5, <1>6, <1>7, <1>8, CallAdvances DEF Inv
\* WorkerSession::stop, and the transport's stop it waits for.
LEMMA SessionStopKeeps ==
  ASSUME Inv, NEW t \in Threads, SessionStop(t) \/ TransportStopped(t)
  PROVE  Inv'
  <1> USE DEF clientVars, threadVars, histVars
  <1>0. TableTypes /\ ThreadTypes /\ SessionTypes /\ HistTypes
    BY DEF Inv, Types
  <1>1. /\ calls[t] # <<>> /\ Top(t).pc \in {"sstop", "tstop"}
        /\ UNCHANGED <<clientVars, threadVars, histVars>>
    BY DEF SessionStop, TransportStopped, At, Idle
  <1>2. PICK top \in CallOf : top = Top(t) /\ CallOK(t, top)
    BY <1>1, TopCall
  <1>3. top.cbs = {} /\ top.kind \in {"stop", "error", "event"} /\ top.pc \in {"sstop", "tstop"}
    BY <1>1, <1>2 DEF CallOK, CallOf
  <1>4. SessionTypes'
    BY <1>0 DEF SessionStop, TransportStopped, SessionTypes, sessionVars
  <1>5. Types' /\ Down' /\ Kept
    <2>1. Types'
      BY <1>0, <1>1, <1>4 DEF Types, TableTypes, ThreadTypes, HistTypes
    <2>2. Down'
      BY <1>1 DEF Inv, Down
    <2>3. Kept
      BY <1>1 DEF Kept
    <2> QED BY <2>1, <2>2, <2>3
  <1>6. PICK d \in CallOf : /\ Step(t, d) /\ d.kind = top.kind /\ d.cbs = {}
                            /\ \/ d.pc = "tstop" /\ d.sp = top.sp
                               \/ /\ d.sp = 0
                                  /\ d.pc = IF top.kind = "stop" THEN "joinw" ELSE "fail"
    <2>1. CASE AfterSession(t)
      <3>1. PICK d \in CallOf :
              d = [top EXCEPT !.pc = IF top.kind = "stop" THEN "joinw" ELSE "fail", !.sp = 0]
        <4>1. 0 \in 0..MaxStarts
          BY ClientAssumption
        <4> QED BY <4>1 DEF CallOf
      <3>2. /\ d.kind = top.kind /\ d.cbs = {} /\ d.sp = 0
            /\ d.pc = IF top.kind = "stop" THEN "joinw" ELSE "fail"
        BY <1>3, <3>1 DEF CallOf
      <3>3. Step(t, d)
        BY <1>2, <2>1, <3>1 DEF AfterSession
      <3> QED BY <3>2, <3>3
    <2>2. CASE Move(t, "tstop")
      <3>1. PICK d \in CallOf : d = [top EXCEPT !.pc = "tstop"]
        BY DEF CallOf
      <3>2. d.kind = top.kind /\ d.cbs = {} /\ d.sp = top.sp /\ d.pc = "tstop"
        BY <1>3, <3>1 DEF CallOf
      <3>3. Step(t, d)
        BY <1>2, <2>2, <3>1 DEF Move
      <3> QED BY <3>2, <3>3
    <2> QED BY <2>1, <2>2 DEF SessionStop, TransportStopped
  <1>7. CallOK(t, d)'
    <2>1. CallOK(t, top)'
      BY <1>2, <1>5, CallKept
    <2> QED BY <1>3, <1>6, <2>1 DEF CallOK
  <1>8. EndsOf(d) = {} /\ EndsOf(top) = {}
    BY <1>3, <1>6, NoEnds
  <1> QED BY <1>1, <1>2, <1>5, <1>6, <1>7, <1>8, CallAdvances DEF Inv

\* join_threads.
LEMMA JoinKeeps ==
  ASSUME Inv, NEW t \in Threads, JoinWriter(t) \/ JoinDispatcher(t)
  PROVE  Inv'
  <1> USE DEF clientVars, sessionVars, histVars
  <1>0. TableTypes /\ ThreadTypes /\ SessionTypes /\ HistTypes
    BY DEF Inv, Types
  <1>1. /\ calls[t] # <<>> /\ Top(t).pc \in {"joinw", "joind"}
        /\ UNCHANGED <<wcmd, clientVars, sessionVars, histVars>>
        /\ \/ Top(t).pc = "joinw" /\ wpc' = "none" /\ dpc' = dpc
           \/ Top(t).pc = "joind" /\ dpc # "loop" /\ dpc' = "none" /\ wpc' = wpc
    BY DEF JoinWriter, JoinDispatcher, At, Idle
  <1>2. PICK top \in CallOf : top = Top(t) /\ CallOK(t, top)
    BY <1>1, TopCall
  <1>3. /\ top.cbs = {} /\ top.sp = 0 /\ top.pc \in {"joinw", "joind"}
        /\ top.pc = "joind" => t = "owner"
    BY <1>1, <1>2 DEF CallOK
  <1>4. ThreadTypes'
    BY <1>0, <1>1 DEF ThreadTypes
  <1>5. Types' /\ Down' /\ Kept
    <2>1. Types'
      BY <1>0, <1>1, <1>4 DEF Types, TableTypes, SessionTypes, HistTypes
    <2>2. Down'
      BY <1>1 DEF Inv, Down
    <2>3. Kept
      BY <1>1 DEF Kept
    <2> QED BY <2>1, <2>2, <2>3
  <1>6. PICK d \in CallOf :
          /\ Step(t, d) /\ d.kind = top.kind /\ d.cbs = {} /\ d.sp = 0
          /\ \/ /\ top.pc = "joinw"
                /\ d.pc = IF t = "dispatcher" THEN "fail" ELSE "joind"
             \/ /\ top.pc = "joind"
                /\ d.pc = IF top.kind = "start" THEN "reap" ELSE "fail"
    <2>1. PICK pc \in {"fail", "joind", "reap"} :
            /\ Move(t, pc)
            /\ \/ top.pc = "joinw" /\ pc = IF t = "dispatcher" THEN "fail" ELSE "joind"
               \/ top.pc = "joind" /\ pc = IF top.kind = "start" THEN "reap" ELSE "fail"
      BY <1>2 DEF JoinWriter, JoinDispatcher, At
    <2>2. PICK d \in CallOf : d = [top EXCEPT !.pc = pc]
      BY DEF CallOf
    <2>3. d.kind = top.kind /\ d.cbs = {} /\ d.sp = 0 /\ d.pc = pc
      BY <1>3, <2>2 DEF CallOf
    <2>4. Step(t, d)
      BY <1>2, <2>1, <2>2 DEF Move
    <2> QED BY <2>1, <2>3, <2>4
  <1>7. CallOK(t, d)'
    <2>1. CallOK(t, top)'
      BY <1>2, <1>5, CallKept
    <2>2. top.pc = "joinw" => wpc' = "none"
      BY <1>1, <1>2
    <2>3. top.pc = "joind" => dpc' = "none"
      BY <1>1, <1>2
    <2>4. t \in {"owner", "dispatcher"}
      BY DEF Threads
    <2> QED BY <1>3, <1>6, <2>1, <2>2, <2>3, <2>4 DEF CallOK
  <1>8. EndsOf(d) = {} /\ EndsOf(top) = {}
    BY <1>3, <1>6, NoEnds
  <1> QED BY <1>1, <1>2, <1>5, <1>6, <1>7, <1>8, CallAdvances DEF Inv

\* fail_all_requests: what was active is now committed to be ended by this call.
LEMMA FailAllKeeps ==
  ASSUME Inv, NEW t \in Threads, FailAll(t)
  PROVE  Inv'
  <1> USE DEF threadVars, sessionVars, histVars
  <1>0. TableTypes /\ ThreadTypes /\ SessionTypes /\ HistTypes
    BY DEF Inv, Types
  <1>1. /\ calls[t] # <<>> /\ Top(t).pc = "fail" /\ active' = {} /\ told' = {}
        /\ UNCHANGED <<running, stopping, handled, outbound, nextId, sess, starts>>
        /\ UNCHANGED <<threadVars, sessionVars, histVars>>
    BY DEF FailAll, At, Idle
  <1>2. PICK top \in CallOf :
          /\ top = Top(t) /\ CallOK(t, top)
          /\ Committed(t) = EndsOf(top) \cup StackEnds(Tail(calls[t]))
    BY <1>1, TopCall
  <1>3. top.cbs = {} /\ top.pc = "fail" /\ top.sp = 0 /\ top.kind # "start"
    BY <1>1, <1>2 DEF CallOK
  <1>4. Types' /\ Down' /\ Kept
    <2>1. Types'
      BY <1>0, <1>1 DEF Types, TableTypes, ThreadTypes, SessionTypes, HistTypes
    <2>2. Down'
      BY <1>1 DEF Inv, Down
    <2>3. Kept
      BY <1>1 DEF Kept
    <2> QED BY <2>1, <2>2, <2>3
  <1>5. PICK d \in CallOf : d = [top EXCEPT !.pc = "tell", !.cbs = Ends(active)]
    <2>1. Ends(active) \subseteq [cb: {"text", "audio", "end"}, id: Ids]
      BY <1>0, Callbacks DEF TableTypes
    <2> QED BY <2>1 DEF CallOf
  <1>6. Step(t, d)
    BY <1>2, <1>5 DEF FailAll
  <1>7. d.kind = top.kind /\ d.pc = "tell" /\ d.sp = 0 /\ d.cbs = Ends(active)
    BY <1>3, <1>5 DEF CallOf
  <1>8. CallOK(t, d)'
    <2>1. CallOK(t, top)'
      BY <1>2, <1>4, CallKept
    <2> QED BY <1>1, <1>3, <1>7, <2>1 DEF CallOK
  <1>9. EndsOf(d) = active
    BY <1>0, <1>7, Callbacks DEF EndsOf, TableTypes
  <1>10. Committed(t) = StackEnds(Tail(calls[t]))
    BY <1>2, <1>3, NoEnds
  <1>11. active \cap Committed(t) = {}
    BY DEF Inv, Account, Threads
  <1>12. /\ Stacks' /\ Committed(t)' = active \cup Committed(t)
         /\ \A u \in Threads \ {t} : Committed(u)' = Committed(u)
    BY <1>1, <1>2, <1>4, <1>6, <1>7, <1>8, <1>9, <1>10, <1>11, TopMoves DEF Inv
  <1>13. Account'
    BY <1>1, <1>12 DEF Inv, Account, Threads
  <1> QED BY <1>4, <1>12, <1>13 DEF Inv
\* A user callback stops the client: stop() on top of the call that made the callback.
LEMMA StopOnTop ==
  ASSUME Stacks, Kept, NEW t \in Threads, calls[t] # <<>>, Top(t).kind # "start",
         NEW d \in CallOf, d.pc = "tell", CallOK(t, d)', d.kind = Top(t).kind,
         EndsOf(d) \cap StackEnds(Tail(calls[t])) = {},
         NEW c \in CallOf, c = Call("stop", "stop", 0, {}),
         calls' = [calls EXCEPT ![t] = <<c, d>> \o Tail(@)]
  PROVE  /\ Stacks'
         /\ Committed(t)' = EndsOf(d) \cup StackEnds(Tail(calls[t]))
         /\ \A u \in Threads \ {t} : Committed(u)' = Committed(u)
  <1> DEFINE low == Tail(calls[t])
             m == <<d>> \o low
             s == <<c>> \o m
  <1>1. /\ Head(calls[t]) \in CallOf /\ Shape(low) /\ Waiting(low) /\ low \in Seq(CallOf)
        /\ ToSet(calls[t]) = {Head(calls[t])} \cup ToSet(low)
        /\ Len(calls[t]) = Len(low) + 1
    BY Under DEF Stacks, Shape
  <1>2. /\ Shape(m) /\ StackEnds(m) = EndsOf(d) \cup StackEnds(low)
        /\ ToSet(m) = {d} \cup ToSet(low) /\ Waiting(m) /\ Len(m) = Len(low) + 1
    BY <1>1, Over
  <1>3. calls' = [calls EXCEPT ![t] = s]
    <2>1. calls' = [calls EXCEPT ![t] = <<c, d>> \o low]
      OBVIOUS
    <2> HIDE DEF low
    <2>2. <<c, d>> \o low = s
      BY <1>1, TwoOnTop, Zenon
    <2> QED BY <2>1, <2>2, Zenon
  <1>4. t = "dispatcher" => dpc' = "loop"
    BY DEF Stacks, Kept
  <1> HIDE DEF m, low
  <1>5. EndsOf(c) = {} /\ c.kind = "stop"
    BY NoEnds DEF Call
  <1>6. /\ Shape(s) /\ StackEnds(s) = StackEnds(m) /\ ToSet(s) = {c} \cup ToSet(m)
    <2>1. EndsOf(c) \cap StackEnds(m) = {}
      BY <1>5
    <2> QED BY <1>2, <1>5, <2>1, Over
  <1> HIDE DEF s
  <1>7. CallOK(t, c)'
    BY DEF CallOK, Call
  <1>8. \A x \in ToSet(s) : CallOK(t, x)'
    BY <1>1, <1>2, <1>6, <1>7, CallKept DEF Stacks
  <1>9. t = "owner" => \A x \in ToSet(s) : x.kind # "start"
    <2> SUFFICES ASSUME t = "owner", NEW x \in ToSet(low), x.kind = "start" PROVE FALSE
      BY <1>2, <1>5, <1>6
    <2>1. Len(low) + 1 = 1
      BY <1>1 DEF Stacks
    <2>2. Len(low) \in Nat /\ Len(low) # 0
      BY <1>1, LenProperties DEF ToSet
    <2> QED BY <2>1, <2>2
  <1> QED BY <1>2, <1>3, <1>4, <1>6, <1>8, <1>9, ThreadMoves DEF low

\* One user callback, after which the call, or stop(), goes on.
LEMMA TellKeeps ==
  ASSUME Inv, NEW t \in Threads, Tell(t)
  PROVE  Inv'
  <1> USE DEF clientVars, threadVars, sessionVars
  <1>1. /\ calls[t] # <<>> /\ Top(t).pc = "tell"
        /\ UNCHANGED <<clientVars, threadVars, sessionVars, accepted, lastSent>>
    BY DEF Tell, At, Idle
  <1>2. PICK top \in CallOf :
          /\ top = Top(t) /\ CallOK(t, top)
          /\ Committed(t) = EndsOf(top) \cup StackEnds(Tail(calls[t]))
          /\ EndsOf(top) \cap StackEnds(Tail(calls[t])) = {}
    BY <1>1, TopCall
  <1>3. PICK x \in top.cbs :
          /\ LET rest == [top EXCEPT !.cbs = @ \ {x}]
             IN  \/ Step(t, rest)
                 \/ calls' = [calls EXCEPT ![t] =
                      <<Call("stop", "stop", 0, {}), rest>> \o Tail(@)]
          /\ IF x.cb = "end"
             THEN /\ ended' = ended \cup {x.id}
                  /\ repeated' = (repeated \/ x.id \in ended)
             ELSE UNCHANGED <<ended, repeated>>
    BY <1>2 DEF Tell
  <1>4. PICK d \in CallOf : d = [top EXCEPT !.cbs = @ \ {x}]
    BY DEF CallOf
  <1>5. /\ d.kind = top.kind /\ d.pc = "tell" /\ d.sp = top.sp /\ d.cbs = top.cbs \ {x}
        /\ top.cbs \subseteq [cb: {"text", "audio", "end"}, id: Ids]
    BY <1>1, <1>2, <1>4 DEF CallOf
  <1>6. Kept
    BY <1>1 DEF Kept
  <1>7. CallOK(t, d)' /\ top.kind # "start"
    <2>1. CallOK(t, top)'
      BY <1>2, <1>6, CallKept
    <2> QED BY <1>1, <1>2, <1>5, <2>1 DEF CallOK
  <1>8. EndsOf(d) \subseteq EndsOf(top)
    BY <1>5 DEF EndsOf
  <1>9. EndsOf(d) \cap StackEnds(Tail(calls[t])) = {}
    BY <1>2, <1>8
  <1>10. /\ Stacks'
         /\ Committed(t)' = EndsOf(d) \cup StackEnds(Tail(calls[t]))
         /\ \A u \in Threads \ {t} : Committed(u)' = Committed(u)
    <2>1. CASE Step(t, d)
      BY <1>1, <1>2, <1>5, <1>6, <1>7, <1>9, <2>1, TopMoves DEF Inv
    <2>2. CASE calls' = [calls EXCEPT ![t] = <<Call("stop", "stop", 0, {}), d>> \o Tail(@)]
      <3>1. PICK c \in CallOf : c = Call("stop", "stop", 0, {})
        <4>1. 0 \in 0..MaxStarts
          BY ClientAssumption
        <4> QED BY <4>1 DEF CallOf, Call
      <3>2. calls' = [calls EXCEPT ![t] = <<c, d>> \o Tail(@)]
        BY <2>2, <3>1
      <3> QED BY <1>1, <1>2, <1>5, <1>6, <1>7, <1>9, <3>1, <3>2, StopOnTop DEF Inv
    <2> QED BY <1>3, <1>4, <2>1, <2>2
  <1>11. CASE x.cb # "end"
    <2>1. EndsOf(d) = EndsOf(top)
      BY <1>5, <1>11 DEF EndsOf, Callback
    <2>2. UNCHANGED <<ended, repeated>>
      BY <1>3, <1>11
    <2>3. Account'
      <3>1. \A u \in Threads : Committed(u)' = Committed(u)
        BY <1>2, <1>10, <2>1
      <3> QED BY <1>1, <2>2, <3>1, AccountStays DEF Inv
    <2>4. Types' /\ Down'
      BY <1>1, <2>2 DEF Inv, Types, TableTypes, ThreadTypes, SessionTypes, HistTypes, Down
    <2> QED BY <1>10, <2>3, <2>4 DEF Inv
  <1>12. CASE x.cb = "end"
    <2>1. PICK r \in Ids : x = Callback("end", r) /\ x.id = r
      BY <1>5, <1>12 DEF Callback
    <2>2. EndsOf(d) = EndsOf(top) \ {r} /\ r \in EndsOf(top)
      <3>1. \A q : Callback("end", q) = x => q = r
        BY <2>1 DEF Callback
      <3> QED BY <1>5, <2>1, <3>1 DEF EndsOf
    <2>3. Committed(t)' = Committed(t) \ {r} /\ r \in Committed(t)
      BY <1>2, <1>10, <2>2
    <2>4. r \in accepted /\ r \notin ended /\ ~repeated
      BY <2>3 DEF Inv, Account, Threads
    <2>5. ended' = ended \cup {r}
      BY <1>3, <1>12, <2>1
    <2>6. ~repeated' /\ repeated' \in BOOLEAN
      <3>1. repeated' = (repeated \/ r \in ended)
        BY <1>3, <1>12, <2>1, Zenon
      <3>2. ~repeated'
        BY <2>4, <3>1, Zenon
      <3>3. repeated' = FALSE
        BY <2>4, <3>1, Zenon
      <3> QED BY <3>2, <3>3
    <2>7. Account'
      BY <1>1, <1>10, <2>3, <2>4, <2>5, <2>6 DEF Inv, Account, Threads
    <2>8. Types' /\ Down'
      BY <1>1, <2>5, <2>6 DEF Inv, Types, TableTypes, ThreadTypes, SessionTypes, HistTypes, Down
    <2> QED BY <1>10, <2>7, <2>8 DEF Inv
  <1> QED BY <1>11, <1>12

\* stop(), its last critical section.
LEMMA StopFinishKeeps ==
  ASSUME Inv, NEW t \in Threads, StopFinish(t)
  PROVE  Inv'
  <1> USE DEF threadVars, histVars
  <1>0. TableTypes /\ ThreadTypes /\ SessionTypes /\ HistTypes
    BY DEF Inv, Types
  <1>1. /\ calls[t] # <<>> /\ Top(t).pc = "finish" /\ Leave(t)
        /\ UNCHANGED <<active, told, nextId, starts, threadVars, histVars>>
        /\ \/ ResetSession /\ stopping' = FALSE /\ running' = FALSE
           \/ UNCHANGED <<sess, sessionVars, outbound, handled, stopping, running>>
    BY DEF StopFinish, At, Idle
  <1>2. PICK top \in CallOf : top = Top(t) /\ CallOK(t, top)
    BY <1>1, TopCall
  <1>3. EndsOf(top) = {} /\ active = {} /\ ~running
    BY <1>1, <1>2, NoEnds DEF CallOK
  <1>4. CASE ResetSession /\ stopping' = FALSE /\ running' = FALSE
    <2>1. <<>> \in Seq(CommandOf) /\ <<>> \in Seq(EventOf) /\ Len(<<>>) <= MaxOutbound
      BY ClientAssumption
    <2>2. 0 \in 0..MaxStarts
      BY ClientAssumption
    <2>3. Types' /\ Down' /\ Kept
      <3>1. TableTypes' /\ SessionTypes'
        BY <1>0, <1>1, <1>4, <2>1, <2>2 DEF ResetSession, TableTypes, SessionTypes
      <3>2. ThreadTypes' /\ HistTypes'
        BY <1>0, <1>1 DEF ThreadTypes, HistTypes
      <3>3. Down'
        BY <1>1, <1>3, <1>4 DEF Down, ResetSession
      <3>4. Kept
        BY <1>1, <1>4 DEF Kept
      <3> QED BY <3>1, <3>2, <3>3, <3>4 DEF Types
    <2> QED BY <1>1, <1>2, <1>3, <2>3, CallReturns DEF Inv
  <1>5. CASE UNCHANGED <<sess, sessionVars, outbound, handled, stopping, running>>
    <2>1. Types' /\ Down' /\ Kept
      BY <1>0, <1>1, <1>5 DEF Types, TableTypes, ThreadTypes, SessionTypes, HistTypes,
            sessionVars, Inv, Down, Kept
    <2> QED BY <1>1, <1>2, <1>3, <2>1, CallReturns DEF Inv
  <1> QED BY <1>1, <1>4, <1>5

\* A thread in a call.
LEMMA CallingKeeps ==
  ASSUME Inv, NEW t \in Threads, Calling(t)
  PROVE  Inv'
  BY TellKeeps, ToldKeeps, StopBeginKeeps, SessionStopKeeps, JoinKeeps, FailAllKeeps,
     StopFinishKeeps DEF Calling
-----------------------------------------------------------------------------
(* The owner thread                                                        *)

\* The owner calls stop() or start().
LEMMA OwnerEntersKeeps ==
  ASSUME Inv, OwnerStops \/ OwnerStarts
  PROVE  Inv'
  <1> USE DEF clientVars, threadVars, sessionVars, histVars
  <1>1. calls["owner"] = <<>> /\ UNCHANGED <<clientVars, threadVars, sessionVars, histVars>>
    BY DEF OwnerStops, OwnerStarts, OwnerMay, Idle
  <1>2. PICK d \in CallOf :
          /\ Enter("owner", d) /\ d.sp = 0 /\ d.cbs = {}
          /\ \/ d.kind = "stop" /\ d.pc = "stop"
             \/ d.kind = "start" /\ d.pc = "joinw" /\ starts < MaxStarts
    <2>1. 0 \in 0..MaxStarts
      BY ClientAssumption
    <2>2. Call("stop", "stop", 0, {}) \in CallOf /\ Call("start", "joinw", 0, {}) \in CallOf
      BY <2>1 DEF CallOf, Call
    <2> QED BY <2>2 DEF OwnerStops, OwnerStarts, Call
  <1>3. CallOK("owner", d)' /\ EndsOf(d) = {}
    BY <1>1, <1>2 DEF CallOK, EndsOf
  <1>4. Types' /\ Down' /\ Kept
    BY <1>1 DEF Inv, Types, TableTypes, ThreadTypes, SessionTypes, HistTypes, Down, Kept
  <1>5. /\ Stacks' /\ Committed("owner") = {} /\ Committed("owner")' = {}
        /\ Committed("dispatcher")' = Committed("dispatcher")
    BY <1>1, <1>2, <1>3, <1>4, IdleEnters DEF Inv, Threads
  <1>6. Account'
    BY <1>1, <1>5, AccountStays DEF Inv, Threads
  <1> QED BY <1>4, <1>5, <1>6 DEF Inv

\* reap_finished_threads.
LEMMA ReapKeeps ==
  ASSUME Inv, Reap
  PROVE  Inv'
  <1> USE DEF threadVars, histVars
  <1>0. TableTypes /\ ThreadTypes /\ SessionTypes /\ HistTypes /\ "owner" \in Threads
    BY DEF Inv, Types, Threads
  <1>1. /\ calls["owner"] # <<>> /\ Top("owner").pc = "reap" /\ Move("owner", "install")
        /\ UNCHANGED <<running, stopping, active, told, nextId, starts, threadVars, histVars>>
        /\ \/ ~running /\ ~stopping /\ ResetSession
           \/ UNCHANGED <<sess, sessionVars, outbound, handled>>
    BY DEF Reap, At, Idle
  <1>2. PICK top \in CallOf : top = Top("owner") /\ CallOK("owner", top)
    BY <1>0, <1>1, TopCall
  <1>3. PICK d \in CallOf : d = [top EXCEPT !.pc = "install"]
    BY DEF CallOf
  <1>4. /\ d.kind = top.kind /\ d.cbs = {} /\ top.cbs = {} /\ d.sp = 0 /\ d.pc = "install"
        /\ top.kind = "start"
    BY <1>1, <1>2, <1>3 DEF CallOf, CallOK
  <1>5. Step("owner", d)
    BY <1>1, <1>2, <1>3 DEF Move
  <1>6. Kept
    BY <1>1 DEF Kept
  <1>7. CallOK("owner", d)'
    <2>1. CallOK("owner", top)'
      BY <1>2, <1>6, CallKept
    <2> QED BY <1>4, <2>1 DEF CallOK
  <1>8. EndsOf(d) = {} /\ EndsOf(top) = {}
    BY <1>4, NoEnds
  <1>9. Stacks' /\ Account'
    BY <1>0, <1>1, <1>2, <1>4, <1>5, <1>6, <1>7, <1>8, CallAdvances
  <1>10. Types' /\ Down'
    <2>1. CASE ~running /\ ~stopping /\ ResetSession
      <3>1. <<>> \in Seq(CommandOf) /\ <<>> \in Seq(EventOf) /\ Len(<<>>) <= MaxOutbound
        BY ClientAssumption
      <3>2. 0 \in 0..MaxStarts
        BY ClientAssumption
      <3>3. TableTypes' /\ SessionTypes'
        BY <1>0, <1>1, <2>1, <3>1, <3>2 DEF ResetSession, TableTypes, SessionTypes
      <3>4. ThreadTypes' /\ HistTypes'
        BY <1>0, <1>1 DEF ThreadTypes, HistTypes
      <3>5. Down'
        BY <1>1, <2>1 DEF Inv, Down, ResetSession
      <3> QED BY <3>3, <3>4, <3>5 DEF Types
    <2>2. CASE UNCHANGED <<sess, sessionVars, outbound, handled>>
      BY <1>0, <1>1, <2>2 DEF Types, TableTypes, ThreadTypes, SessionTypes, HistTypes,
            sessionVars, Inv, Down
    <2> QED BY <1>1, <2>1, <2>2
  <1> QED BY <1>9, <1>10 DEF Inv

\* When start() installs a session no other call is in progress.
LEMMA StartAlone ==
  ASSUME Inv, At("owner", "install"), dpc = "none"
  PROVE  Tail(calls["owner"]) = <<>> /\ calls["dispatcher"] = <<>> /\ starts < MaxStarts
  <1>1. calls["owner"] # <<>> /\ Top("owner").pc = "install" /\ "owner" \in Threads
    BY DEF At, Idle, Threads
  <1>2. PICK top \in CallOf : top = Top("owner") /\ CallOK("owner", top)
    BY <1>1, TopCall
  <1>3. top.kind = "start" /\ starts < MaxStarts
    BY <1>1, <1>2 DEF CallOK
  <1>4. Shape(calls["owner"])
    BY <1>1 DEF Inv, Stacks
  <1>5. /\ ToSet(calls["owner"]) = {Head(calls["owner"])} \cup ToSet(Tail(calls["owner"]))
        /\ Len(calls["owner"]) = Len(Tail(calls["owner"])) + 1
        /\ Tail(calls["owner"]) \in Seq(CallOf)
    BY <1>1, <1>4, Under DEF Shape
  <1>6. Len(calls["owner"]) = 1
    BY <1>2, <1>3, <1>5 DEF Inv, Stacks, Top
  <1>7. Len(Tail(calls["owner"])) = 0
    BY <1>5, <1>6, LenProperties
  <1>8. Tail(calls["owner"]) = <<>>
    BY <1>5, <1>7, EmptySeq
  <1> QED BY <1>3, <1>8 DEF Inv, Stacks

\* start() installs a session, or returns without one.
LEMMA StartInstallKeeps ==
  ASSUME Inv, StartInstall
  PROVE  Inv'
  <1> USE DEF clientVars, threadVars, sessionVars, histVars
  <1>0. TableTypes /\ ThreadTypes /\ SessionTypes /\ HistTypes /\ "owner" \in Threads
    BY DEF Inv, Types, Threads
  <1>1. At("owner", "install") /\ Leave("owner") /\ calls["owner"] # <<>>
    BY DEF StartInstall, At, Idle
  <1>2. CASE UNCHANGED <<clientVars, threadVars, sessionVars, histVars>>
    <2>1. PICK top \in CallOf : top = Top("owner") /\ CallOK("owner", top)
      BY <1>0, <1>1, TopCall
    <2>2. EndsOf(top) = {}
      BY <1>1, <2>1, NoEnds DEF CallOK, At
    <2>3. Types' /\ Down' /\ Kept
      BY <1>0, <1>2 DEF Types, TableTypes, ThreadTypes, SessionTypes, HistTypes, Inv, Down, Kept
    <2> QED BY <1>0, <1>1, <1>2, <2>1, <2>2, <2>3, CallReturns DEF Inv
  <1>3. CASE /\ ~running /\ ~stopping /\ sess = 0 /\ wpc = "none" /\ dpc = "none"
             /\ starts' = starts + 1 /\ sess' = starts + 1
             /\ sstate' = "ready" /\ events' = <<Event("other", 0)>> /\ overflowed' = FALSE
             /\ transport' = "running"
             /\ active' = {} /\ told' = {} /\ outbound' = <<>> /\ nextId' = 1
             /\ running' = TRUE /\ stopping' = FALSE /\ handled' = FALSE
             /\ wpc' = "wait" /\ dpc' = "loop" /\ UNCHANGED wcmd
             /\ accepted' = {} /\ ended' = {} /\ lastSent' = 0 /\ UNCHANGED repeated
    <2>1. /\ Tail(calls["owner"]) = <<>> /\ calls["dispatcher"] = <<>>
          /\ starts < MaxStarts
      BY <1>1, <1>3, StartAlone
    <2>2. calls'["owner"] = <<>> /\ calls'["dispatcher"] = <<>> /\ DOMAIN calls' = Threads
      BY <1>1, <2>1 DEF Leave, Inv, Stacks, Threads
    <2>3. Stacks'
      BY <2>2, NoCalls DEF Stacks, Threads
    <2>4. Committed("owner")' = {} /\ Committed("dispatcher")' = {}
      BY <2>2, NoCalls, CommittedIsStackEnds
    <2>5. Down'
      BY <1>3 DEF Down
    <2>6. Account'
      BY <1>3, <2>4 DEF Inv, Account
    <2>7. /\ <<>> \in Seq(CommandOf) /\ Len(<<>>) <= MaxOutbound
          /\ 0 \in 0..MaxId /\ 1 \in 0..MaxId
      BY ClientAssumption
    <2>8. <<Event("other", 0)>> \in Seq(EventOf)
      BY EventTypes
    <2>9. starts + 1 \in 0..MaxStarts
      BY <1>0, <2>1, ClientAssumption DEF TableTypes
    <2>10. TableTypes'
      BY <1>3, <2>7, <2>9 DEF TableTypes
    <2>11. ThreadTypes' /\ HistTypes' /\ SessionTypes'
      BY <1>0, <1>3, <2>7, <2>8 DEF ThreadTypes, HistTypes, SessionTypes
    <2> QED BY <2>3, <2>5, <2>6, <2>10, <2>11 DEF Inv, Types
  <1> QED BY <1>2, <1>3 DEF StartInstall

\* A step that changes nothing.
LEMMA StutterKeeps ==
  ASSUME Inv, UNCHANGED vars
  PROVE  Inv'
  BY SessionMoves DEF vars, sessionVars, Inv, Types, SessionTypes

\* Every step keeps the invariant.
LEMMA InvStep ==
  ASSUME Inv, [Next]_vars
  PROVE  Inv'
  <1>1. CASE Application
    BY <1>1, SynthesizeKeeps, RefusedKeeps, CancelKeeps DEF Application
  <1>2. CASE Session \/ ReceiveExit
    BY <1>2, SessionKeeps
  <1>3. CASE WriterThread
    BY <1>3, WriterKeeps
  <1>4. CASE Dispatcher
    BY <1>4, DispatcherKeeps
  <1>5. CASE \E t \in Threads : Calling(t)
    BY <1>5, CallingKeeps
  <1>6. CASE OwnerStarts \/ OwnerStops
    BY <1>6, OwnerEntersKeeps
  <1>7. CASE Starting
    BY <1>7, ReapKeeps, StartInstallKeeps DEF Starting
  <1> QED BY <1>1, <1>2, <1>3, <1>4, <1>5, <1>6, <1>7, StutterKeeps DEF Next

\* The invariant holds in every reachable state.
LEMMA Invariance == Spec => []Inv
  BY InvInit, InvStep, PTL DEF Spec

\* Every variable of the client has its type, and the outbound queue never exceeds
\* max_outbound_commands.
THEOREM TypeCorrect == Spec => []TypeOK
  BY Invariance, InvTyped, PTL

\* Every accepted request gets exactly one terminal callback: none is lost between the
\* table of active requests and a callback, and none is made twice, whichever of the
\* dispatcher, a failing session and stop() on either thread ends the request.
THEOREM AnsweredOnce == Spec => []OneTerminalCallback
  BY Invariance, InvOnce, PTL

\* stop() leaves no request and no command behind.
THEOREM StopLeavesNothing == Spec => []NothingLeftBehind
  BY Invariance, InvNothingLeft, PTL
-----------------------------------------------------------------------------
(* How a step changes the calls in progress                                *)

\* The entries of a stack with one more call on top.
LEMMA EntriesOnTop ==
  ASSUME NEW S, NEW s \in Seq(S), NEW c \in S
  PROVE  ToSet(<<c>> \o s) = {c} \cup ToSet(s)
  <1> DEFINE t == <<c>> \o s
  <1>1. /\ Len(s) \in Nat /\ DOMAIN t = 1..(Len(s) + 1) /\ DOMAIN s = 1..Len(s) /\ t[1] = c
        /\ \A i \in 1..Len(s) : t[i + 1] = s[i]
        /\ \A i \in 2..(Len(s) + 1) : t[i] = s[i - 1]
    BY OnTop, LenProperties
  <1> HIDE DEF t
  <1>2. \A i \in DOMAIN t : i = 1 \/ (i - 1 \in DOMAIN s /\ t[i] = s[i - 1])
    BY <1>1
  <1>3. \A k \in DOMAIN s : k + 1 \in DOMAIN t
    BY <1>1
  <1>4. \A x \in ToSet(t) : x \in {c} \cup ToSet(s)
    BY <1>1, <1>2 DEF ToSet
  <1>5. c \in ToSet(t)
    BY <1>1 DEF ToSet
  <1>6. \A x \in ToSet(s) : x \in ToSet(t)
    BY <1>1, <1>3 DEF ToSet
  <1> QED BY <1>4, <1>5, <1>6 DEF t

Advances(t) ==
  /\ calls[t] # <<>> /\ sess' = sess
  /\ \E d \in CallOf : Step(t, d) /\ d.kind = Top(t).kind /\ d.sp \in {0, sess, Top(t).sp}

Interrupted(t) ==
  /\ calls[t] # <<>> /\ sess' = sess /\ MayStop(t)
  /\ \E d \in CallOf, c \in CallOf :
       /\ d.kind = Top(t).kind /\ d.sp = Top(t).sp
       /\ c.kind = "stop" /\ c.sp = 0
       /\ calls' = [calls EXCEPT ![t] = <<c, d>> \o Tail(@)]

Enters(t) ==
  /\ calls[t] = <<>> /\ sess' = sess
  /\ \E d \in CallOf : Enter(t, d) /\ d.sp \in {0, sess} /\ (t = "dispatcher" => d.kind # "stop")
  /\ t = "owner" => OwnerMay

Returns(t) ==
  /\ calls[t] # <<>> /\ Leave(t) /\ Top(t).kind # "stop"
  /\ \/ sess' = sess
     \/ t = "owner" /\ Tail(calls["owner"]) = <<>> /\ calls["dispatcher"] = <<>>

\* A call under way changes no session and keeps its kind.
LEMMA AdvanceForms ==
  ASSUME Inv, NEW t \in Threads,
         StopBegin(t) \/ SessionStop(t) \/ TransportStopped(t) \/ JoinWriter(t)
           \/ JoinDispatcher(t) \/ FailAll(t)
  PROVE  Advances(t)
  <1> USE DEF clientVars
  <1>1. calls[t] # <<>> /\ sess' = sess
    BY DEF StopBegin, SessionStop, TransportStopped, JoinWriter, JoinDispatcher, FailAll, At, Idle
  <1>2. PICK top \in CallOf : top = Top(t)
    BY <1>1, TopCall
  <1>3. sess \in 0..MaxStarts /\ 0 \in 0..MaxStarts /\ active \subseteq Ids
    BY ClientAssumption DEF Inv, Types, TableTypes
  <1>4. ASSUME NEW pc \in {"tstop", "joinw", "joind", "reap", "fail"}, Move(t, pc)
        PROVE  Advances(t)
    <2>1. PICK d \in CallOf : d = [top EXCEPT !.pc = pc]
      BY DEF CallOf
    <2>2. d.kind = top.kind /\ d.sp = top.sp
      BY <2>1 DEF CallOf
    <2>3. Step(t, d)
      BY <1>2, <1>4, <2>1 DEF Move
    <2> QED BY <1>1, <1>2, <2>2, <2>3 DEF Advances
  <1>5. ASSUME NEW pc \in {"sstop", "joinw", "fail"}, NEW sp \in {0, sess},
               Step(t, [top EXCEPT !.pc = pc, !.sp = sp])
        PROVE  Advances(t)
    <2>1. PICK d \in CallOf : d = [top EXCEPT !.pc = pc, !.sp = sp]
      BY <1>3 DEF CallOf
    <2>2. d.kind = top.kind /\ d.sp = sp
      BY <2>1 DEF CallOf
    <2> QED BY <1>1, <1>2, <1>5, <2>1, <2>2 DEF Advances
  <1>6. CASE AfterSession(t)
    BY <1>2, <1>5, <1>6 DEF AfterSession
  <1>7. CASE StopBegin(t)
    BY <1>2, <1>4, <1>5, <1>7 DEF StopBegin
  <1>8. CASE SessionStop(t) \/ TransportStopped(t)
    BY <1>4, <1>6, <1>8 DEF SessionStop, TransportStopped
  <1>9. CASE JoinWriter(t) \/ JoinDispatcher(t)
    BY <1>4, <1>9 DEF JoinWriter, JoinDispatcher
  <1>10. CASE FailAll(t)
    <2>1. PICK d \in CallOf : d = [top EXCEPT !.pc = "tell", !.cbs = Ends(active)]
      <3>1. Ends(active) \subseteq [cb: {"text", "audio", "end"}, id: Ids]
        BY <1>3, Callbacks
      <3> QED BY <3>1 DEF CallOf
    <2>2. d.kind = top.kind /\ d.sp = top.sp
      BY <2>1 DEF CallOf
    <2>3. Step(t, d)
      BY <1>2, <1>10, <2>1 DEF FailAll
    <2> QED BY <1>1, <1>2, <2>2, <2>3 DEF Advances
  <1> QED BY <1>7, <1>8, <1>9, <1>10

\* What a user callback does to the stack.
LEMMA TellForms ==
  ASSUME Inv, NEW t \in Threads, Tell(t)
  PROVE  Advances(t) \/ Interrupted(t)
  <1>1. calls[t] # <<>> /\ sess' = sess
    BY DEF Tell, At, Idle, clientVars
  <1>2. PICK top \in CallOf : top = Top(t)
    BY <1>1, TopCall
  <1>3. PICK x \in top.cbs :
          LET rest == [top EXCEPT !.cbs = @ \ {x}]
          IN  \/ Step(t, rest)
              \/ /\ MayStop(t)
                 /\ calls' = [calls EXCEPT ![t] =
                      <<Call("stop", "stop", 0, {}), rest>> \o Tail(@)]
    BY <1>2 DEF Tell
  <1>4. PICK d \in CallOf : d = [top EXCEPT !.cbs = @ \ {x}]
    BY DEF CallOf
  <1>5. d.kind = top.kind /\ d.sp = top.sp
    BY <1>4 DEF CallOf
  <1>6. PICK c \in CallOf : c = Call("stop", "stop", 0, {}) /\ c.kind = "stop" /\ c.sp = 0
    <2>1. 0 \in 0..MaxStarts
      BY ClientAssumption
    <2>2. Call("stop", "stop", 0, {}) \in CallOf
      BY <2>1 DEF CallOf, Call
    <2> QED BY <2>2 DEF Call
  <1>7. CASE Step(t, d)
    BY <1>1, <1>2, <1>5, <1>7 DEF Advances
  <1>8. CASE MayStop(t) /\ calls' = [calls EXCEPT ![t] = <<c, d>> \o Tail(@)]
    BY <1>1, <1>2, <1>5, <1>6, <1>8 DEF Interrupted
  <1> QED BY <1>3, <1>4, <1>6, <1>7, <1>8

\* Every step leaves the stacks alone or moves one of them in one of five ways.
LEMMA StackForms ==
  ASSUME Inv, [Next]_vars
  PROVE  \/ calls' = calls /\ sess' = sess
         \/ \E t \in Threads :
              Advances(t) \/ Interrupted(t) \/ Enters(t) \/ Returns(t) \/ StopFinish(t)
  <1> USE DEF clientVars
  <1>0. "owner" \in Threads /\ "dispatcher" \in Threads
    BY DEF Threads
  <1>a. sess \in 0..MaxStarts /\ 0 \in 0..MaxStarts /\ active \subseteq Ids
    BY ClientAssumption DEF Inv, Types, TableTypes
  <1>1. CASE Application
    BY <1>1 DEF Application, Synthesize, SynthesizeRefused, Cancel
  <1>2. CASE Session \/ ReceiveExit
    BY <1>2 DEF Session, TransportError, ProcessEnds, ReceiveFrame, ReceiveExit
  <1>3. CASE WriterThread
    BY <1>3 DEF WriterThread, WriterTake, WriterSend
  <1>4. CASE DispatchTimeout \/ DispatchCheck
    BY <1>4 DEF DispatchTimeout, DispatchCheck
  <1>5. CASE DispatchEvent
    <2>1. calls["dispatcher"] = <<>> /\ sess' = sess
      BY <1>5 DEF DispatchEvent, Idle
    <2>2. ASSUME NEW rs, NEW cbs \in SUBSET [cb: {"text", "audio", "end"}, id: Ids],
                 Takes(rs, cbs)
          PROVE  calls' = calls \/ Enters("dispatcher")
      <3>1. CASE cbs = {}
        BY <2>2, <3>1 DEF Takes
      <3>2. CASE cbs # {}
        <4>1. Enter("dispatcher", Call("event", "tell", 0, cbs))
          BY <2>2, <3>2 DEF Takes
        <4>2. PICK d \in CallOf : d = Call("event", "tell", 0, cbs)
          BY <1>a DEF CallOf, Call
        <4>3. d.kind = "event" /\ d.sp = 0
          BY <4>2 DEF Call
        <4> QED BY <2>1, <4>1, <4>2, <4>3 DEF Enters
      <3> QED BY <3>1, <3>2
    <2>3. PICK e : HandleProgress(e) \/ HandleTerminal(e) \/ HandleIgnored(e) \/ HandleLocalError(e)
      BY <1>5 DEF DispatchEvent
    <2>4. CASE HandleProgress(e)
      <3> DEFINE cbs == IF e.id \notin active THEN {}
                        ELSE TextOnce(e.id) \cup
                             IF e.type = "audio" THEN {Callback("audio", e.id)} ELSE {}
      <3>1. Takes({}, cbs)
        BY <2>4 DEF HandleProgress
      <3>2. cbs \in SUBSET [cb: {"text", "audio", "end"}, id: Ids]
        BY <1>a DEF TextOnce, Callback
      <3> HIDE DEF cbs
      <3> QED BY <1>0, <2>1, <2>2, <3>1, <3>2
    <2>5. CASE HandleTerminal(e)
      <3> DEFINE rs == IF e.id = 0 THEN active ELSE active \cap {e.id}
      <3>1. Takes(rs, Ends(rs)) /\ rs \in SUBSET Ids
        BY <1>a, <2>5 DEF HandleTerminal
      <3> HIDE DEF rs
      <3>2. Ends(rs) \in SUBSET [cb: {"text", "audio", "end"}, id: Ids]
        BY <3>1, Callbacks
      <3> QED BY <1>0, <2>1, <2>2, <3>1, <3>2
    <2>6. CASE HandleIgnored(e)
      BY <1>0, <2>1, <2>2, <2>6 DEF HandleIgnored
    <2>7. CASE HandleLocalError(e)
      <3>1. CASE handled
        BY <2>1, <2>7, <3>1 DEF HandleLocalError
      <3>2. CASE ~handled
        <4>1. Enter("dispatcher", Call("error", "sstop", sess, {}))
          BY <2>7, <3>2 DEF HandleLocalError
        <4>2. PICK d \in CallOf : d = Call("error", "sstop", sess, {})
          BY <1>a DEF CallOf, Call
        <4>3. d.kind = "error" /\ d.sp = sess
          BY <4>2 DEF Call
        <4> QED BY <1>0, <2>1, <4>1, <4>2, <4>3 DEF Enters
      <3> QED BY <3>1, <3>2
    <2> QED BY <2>3, <2>4, <2>5, <2>6, <2>7
  <1>6. ASSUME NEW t \in Threads, Calling(t)
        PROVE  Advances(t) \/ Interrupted(t) \/ Returns(t) \/ StopFinish(t)
    <2>1. CASE Told(t)
      <3>1. calls[t] # <<>> /\ sess' = sess
        BY <2>1 DEF Told, At, Idle
      <3>2. CASE Top(t).kind = "stop"
        <4>1. PICK top \in CallOf : top = Top(t)
          BY <3>1, TopCall
        <4>2. PICK d \in CallOf : d = [top EXCEPT !.pc = "finish"]
          BY DEF CallOf
        <4>3. d.kind = top.kind /\ d.sp = top.sp
          BY <4>2 DEF CallOf
        <4>4. Step(t, d)
          BY <2>1, <3>2, <4>1, <4>2 DEF Told, Move
        <4> QED BY <3>1, <4>1, <4>3, <4>4 DEF Advances
      <3>3. CASE Top(t).kind # "stop"
        BY <2>1, <3>1, <3>3 DEF Told, Returns
      <3> QED BY <3>2, <3>3
    <2> QED BY <1>6, <2>1, AdvanceForms, TellForms DEF Calling
  <1>7. CASE OwnerStarts \/ OwnerStops
    <2>1. calls["owner"] = <<>> /\ sess' = sess /\ OwnerMay
      BY <1>7 DEF OwnerStarts, OwnerStops, OwnerMay, Idle
    <2>2. PICK d \in CallOf : Enter("owner", d) /\ d.sp = 0
      <3>1. Call("stop", "stop", 0, {}) \in CallOf /\ Call("start", "joinw", 0, {}) \in CallOf
        BY <1>a DEF CallOf, Call
      <3> QED BY <1>7, <3>1 DEF OwnerStarts, OwnerStops, Call
    <2> QED BY <1>0, <2>1, <2>2 DEF Enters
  <1>8. CASE Reap
    <2>1. /\ calls["owner"] # <<>> /\ Move("owner", "install")
          /\ \/ ~running /\ ~stopping /\ sess' = 0
             \/ sess' = sess
      BY <1>8 DEF Reap, At, Idle, ResetSession
    <2>2. sess' = sess
      BY <2>1 DEF Inv, Down
    <2>3. PICK top \in CallOf : top = Top("owner")
      BY <1>0, <2>1, TopCall
    <2>4. PICK d \in CallOf : d = [top EXCEPT !.pc = "install"]
      BY DEF CallOf
    <2>5. d.kind = top.kind /\ d.sp = top.sp
      BY <2>4 DEF CallOf
    <2>6. Step("owner", d)
      BY <2>1, <2>3, <2>4 DEF Move
    <2>7. Advances("owner")
      BY <2>1, <2>2, <2>3, <2>5, <2>6 DEF Advances
    <2> QED BY <1>0, <2>7
  <1>9. CASE StartInstall
    <2>1. At("owner", "install") /\ Leave("owner") /\ (sess' = sess \/ dpc = "none")
          /\ calls["owner"] # <<>>
      BY <1>9 DEF StartInstall, At, Idle
    <2>2. PICK top \in CallOf : top = Top("owner") /\ CallOK("owner", top)
      BY <1>0, <2>1, TopCall
    <2>3. Top("owner").kind # "stop"
      BY <2>1, <2>2 DEF At, CallOK
    <2>4. dpc = "none" => Tail(calls["owner"]) = <<>> /\ calls["dispatcher"] = <<>>
      BY <2>1, StartAlone
    <2>5. Returns("owner")
      BY <2>1, <2>3, <2>4 DEF Returns
    <2> QED BY <1>0, <2>5
  <1>10. CASE UNCHANGED vars
    BY <1>10 DEF vars
  <1> QED BY <1>1, <1>2, <1>3, <1>4, <1>5, <1>6, <1>7, <1>8, <1>9, <1>10
        DEF Next, Dispatcher, Starting
\* stop() is in progress on a thread when one of its calls is one of stop().
LEMMA InStopEntries ==
  ASSUME NEW t
  PROVE  /\ InStop(t) <=> \E c \in ToSet(calls[t]) : c.kind = "stop"
         /\ InStop(t)' <=> \E c \in ToSet(calls'[t]) : c.kind = "stop"
  BY DEF InStop, ToSet

\* What each way of moving thread t does to the set of its calls.
LEMMA MovedEntries ==
  ASSUME Inv, NEW t \in Threads,
         Advances(t) \/ Interrupted(t) \/ Enters(t) \/ Returns(t) \/ StopFinish(t)
  PROVE  /\ \A u \in Threads \ {t} : calls'[u] = calls[u]
         /\ calls[t] # <<>> => /\ Top(t) \in CallOf
                               /\ ToSet(calls[t]) = {Top(t)} \cup ToSet(Tail(calls[t]))
                               /\ \A c \in ToSet(Tail(calls[t])) : c.pc = "tell"
         /\ Advances(t) =>
              \E d \in CallOf : /\ ToSet(calls'[t]) = {d} \cup ToSet(Tail(calls[t]))
                                /\ d.kind = Top(t).kind /\ d.sp \in {0, sess, Top(t).sp}
         /\ Interrupted(t) =>
              \E c, d \in CallOf : /\ ToSet(calls'[t]) = {c, d} \cup ToSet(Tail(calls[t]))
                                   /\ d.kind = Top(t).kind /\ d.sp = Top(t).sp
                                   /\ c.kind = "stop" /\ c.sp = 0
         /\ Enters(t) =>
              /\ ToSet(calls[t]) = {}
              /\ \E d \in CallOf : /\ ToSet(calls'[t]) = {d} /\ d.sp \in {0, sess}
                                   /\ t = "dispatcher" => d.kind # "stop"
         /\ Returns(t) \/ StopFinish(t) =>
              calls[t] # <<>> /\ ToSet(calls'[t]) = ToSet(Tail(calls[t]))
  <1>1. DOMAIN calls = Threads /\ Shape(calls[t])
    BY DEF Inv, Stacks
  <1>2. /\ \A u \in Threads \ {t} : calls'[u] = calls[u]
        /\ Returns(t) \/ StopFinish(t) => calls[t] # <<>> /\ calls'[t] = Tail(calls[t])
    BY <1>1 DEF Advances, Interrupted, Enters, Returns, StopFinish, Step, Enter, Leave, At, Idle
  <1>3. ASSUME calls[t] # <<>>
        PROVE  /\ Top(t) \in CallOf /\ Tail(calls[t]) \in Seq(CallOf)
               /\ ToSet(calls[t]) = {Top(t)} \cup ToSet(Tail(calls[t]))
               /\ \A c \in ToSet(Tail(calls[t])) : c.pc = "tell"
    <2>1. /\ Head(calls[t]) \in CallOf /\ Shape(Tail(calls[t])) /\ Waiting(Tail(calls[t]))
          /\ ToSet(calls[t]) = {Head(calls[t])} \cup ToSet(Tail(calls[t]))
      BY <1>1, <1>3, Under
    <2>2. \A c \in ToSet(Tail(calls[t])) : c.pc = "tell"
      BY <2>1 DEF Waiting, ToSet
    <2> QED BY <2>1, <2>2 DEF Top, Shape
  <1>4. ASSUME Advances(t)
        PROVE  \E d \in CallOf : /\ ToSet(calls'[t]) = {d} \cup ToSet(Tail(calls[t]))
                                 /\ d.kind = Top(t).kind /\ d.sp \in {0, sess, Top(t).sp}
    <2>1. PICK d \in CallOf : Step(t, d) /\ d.kind = Top(t).kind /\ d.sp \in {0, sess, Top(t).sp}
      BY <1>4 DEF Advances
    <2>2. calls'[t] = <<d>> \o Tail(calls[t]) /\ Tail(calls[t]) \in Seq(CallOf)
      BY <1>1, <1>3, <1>4, <2>1 DEF Step, Advances
    <2>3. ToSet(calls'[t]) = {d} \cup ToSet(Tail(calls[t]))
      BY <2>2, EntriesOnTop
    <2> QED BY <2>1, <2>3
  <1>5. ASSUME Interrupted(t)
        PROVE  \E c, d \in CallOf : /\ ToSet(calls'[t]) = {c, d} \cup ToSet(Tail(calls[t]))
                                    /\ d.kind = Top(t).kind /\ d.sp = Top(t).sp
                                    /\ c.kind = "stop" /\ c.sp = 0
    <2>1. PICK d \in CallOf, c \in CallOf :
            /\ d.kind = Top(t).kind /\ d.sp = Top(t).sp
            /\ c.kind = "stop" /\ c.sp = 0
            /\ calls' = [calls EXCEPT ![t] = <<c, d>> \o Tail(@)]
      BY <1>5 DEF Interrupted
    <2>2. Tail(calls[t]) \in Seq(CallOf)
      BY <1>3, <1>5 DEF Interrupted
    <2>3. calls'[t] = <<c>> \o (<<d>> \o Tail(calls[t]))
      <3>1. calls'[t] = <<c, d>> \o Tail(calls[t])
        BY <1>1, <2>1
      <3>2. <<c, d>> \o Tail(calls[t]) = <<c>> \o (<<d>> \o Tail(calls[t]))
        BY <2>2, TwoOnTop, Zenon
      <3> QED BY <3>1, <3>2, Zenon
    <2>4. <<d>> \o Tail(calls[t]) \in Seq(CallOf)
      BY <2>2, OnTop
    <2>5. ToSet(calls'[t]) = {c} \cup ToSet(<<d>> \o Tail(calls[t]))
      BY <2>3, <2>4, EntriesOnTop, Zenon
    <2>6. ToSet(<<d>> \o Tail(calls[t])) = {d} \cup ToSet(Tail(calls[t]))
      BY <2>2, EntriesOnTop, Zenon
    <2>7. ToSet(calls'[t]) = {c, d} \cup ToSet(Tail(calls[t]))
      BY <2>5, <2>6
    <2> QED BY <2>1, <2>7
  <1>6. ASSUME Enters(t)
        PROVE  /\ ToSet(calls[t]) = {}
               /\ \E d \in CallOf : /\ ToSet(calls'[t]) = {d} /\ d.sp \in {0, sess}
                                    /\ t = "dispatcher" => d.kind # "stop"
    <2>1. PICK d \in CallOf :
            Enter(t, d) /\ d.sp \in {0, sess} /\ (t = "dispatcher" => d.kind # "stop")
      BY <1>6 DEF Enters
    <2>2. ToSet(calls[t]) = {} /\ calls[t] \in Seq(CallOf)
      BY <1>1, <1>6, NoCalls DEF Enters, Shape
    <2>3. calls'[t] = <<d>> \o calls[t]
      BY <1>1, <2>1 DEF Enter
    <2>4. ToSet(calls'[t]) = {d} \cup ToSet(calls[t])
      BY <2>2, <2>3, EntriesOnTop, Zenon
    <2>5. ToSet(calls'[t]) = {d}
      BY <2>2, <2>4
    <2> QED BY <2>1, <2>2, <2>5
  <1> QED BY <1>2, <1>3, <1>4, <1>5, <1>6, Zenon

\* When stop() finishes on the owner thread the other threads are joined.
LEMMA FinishedAlone ==
  ASSUME Inv, StopFinish("owner")
  PROVE  dpc' = "none" /\ calls'["dispatcher"] = <<>> /\ wpc' = "none"
  <1>1. calls["owner"] # <<>> /\ Top("owner").pc = "finish" /\ "owner" \in Threads
    BY DEF StopFinish, At, Idle, Threads
  <1>2. PICK top \in CallOf : top = Top("owner") /\ CallOK("owner", top)
    BY <1>1, TopCall
  <1>3. wpc = "none" /\ dpc = "none"
    BY <1>1, <1>2 DEF CallOK
  <1>4. wpc' = "none" /\ dpc' = "none"
    BY <1>3 DEF StopFinish, threadVars
  <1> QED BY <1>3, <1>4 DEF Inv, Stacks, StopFinish, Leave, Threads

\* A step after which the owner is no longer in stop() is the end of stop().
LEMMA StopEnds ==
  ASSUME Inv, [Next]_vars, InStop("owner"), ~InStop("owner")'
  PROVE  dpc' = "none" /\ Idle("dispatcher")' /\ wpc' = "none"
  <1>1. PICK c \in ToSet(calls["owner"]) : c.kind = "stop"
    BY InStopEntries
  <1>2. \A x \in ToSet(calls'["owner"]) : x.kind # "stop"
    BY InStopEntries
  <1>3. PICK t \in Threads :
           Advances(t) \/ Interrupted(t) \/ Enters(t) \/ Returns(t) \/ StopFinish(t)
    BY <1>1, <1>2, StackForms
  <1>4. t = "owner"
    BY <1>1, <1>2, <1>3, MovedEntries DEF Threads
  <1>5. ~Advances(t)
    BY <1>1, <1>2, <1>3, <1>4, MovedEntries DEF Advances
  <1>6. ~Interrupted(t)
    BY <1>1, <1>2, <1>3, <1>4, MovedEntries
  <1>7. ~Enters(t)
    BY <1>1, <1>3, <1>4, MovedEntries
  <1>8. ~Returns(t)
    BY <1>1, <1>2, <1>3, <1>4, MovedEntries DEF Returns
  <1>9. StopFinish("owner")
    BY <1>3, <1>4, <1>5, <1>6, <1>7, <1>8
  <1> QED BY <1>9, FinishedAlone DEF Idle

\* stop() on the owner thread returns only when the writer and the dispatcher are joined
\* and no callback is in progress: no callback runs after it.
THEOREM StopIsFinal == Spec => NoCallbackAfterStop
  <1>1. Inv /\ [Next]_vars =>
          [InStop("owner") /\ ~InStop("owner")' =>
             dpc' = "none" /\ Idle("dispatcher")' /\ wpc' = "none"]_vars
    BY StopEnds
  <1> QED BY <1>1, Invariance, PTL DEF Spec, NoCallbackAfterStop
-----------------------------------------------------------------------------
(* The session outlives the calls into it                                  *)

(***************************************************************************)
(* When the application sees to it that no callback stops the client while *)
(* the owner starts or stops it: the dispatcher is in stop() only while    *)
(* the owner is idle, and a call points to the session that exists.        *)
(***************************************************************************)
Apart == InStop("dispatcher") => Idle("owner")

Pointing == \A t \in Threads : \A c \in ToSet(calls[t]) : c.sp \in {0, sess}

\* The two stay apart.
LEMMA ApartStep ==
  ASSUME SerialStops, Inv, Apart, [Next]_vars
  PROVE  Apart'
  <1> SUFFICES ASSUME InStop("dispatcher")' PROVE calls'["owner"] = <<>>
    BY DEF Apart, Idle
  <1>1. PICK c \in ToSet(calls'["dispatcher"]) : c.kind = "stop"
    BY InStopEntries
  <1>2. (\E x \in ToSet(calls["dispatcher"]) : x.kind = "stop") => calls["owner"] = <<>>
    BY InStopEntries DEF Apart, Idle
  <1>3. CASE calls' = calls
    BY <1>1, <1>2, <1>3
  <1>4. ASSUME NEW t \in Threads,
               Advances(t) \/ Interrupted(t) \/ Enters(t) \/ Returns(t) \/ StopFinish(t)
        PROVE  calls'["owner"] = <<>>
    <2>1. CASE t = "owner"
      <3>1. calls'["dispatcher"] = calls["dispatcher"]
        BY <1>4, <2>1, MovedEntries DEF Threads
      <3>2. calls["owner"] = <<>> /\ InStop("dispatcher")
        BY <1>1, <1>2, <3>1, InStopEntries
      <3>3. Enters("owner")
        BY <1>4, <2>1, <3>2, MovedEntries DEF Advances, Interrupted
      <3> QED BY <3>2, <3>3 DEF Enters, OwnerMay
    <2>2. CASE t = "dispatcher"
      <3>1. calls'["owner"] = calls["owner"]
        BY <1>4, <2>2, MovedEntries DEF Threads
      <3>2. CASE Interrupted(t)
        BY <2>2, <3>1, <3>2 DEF Interrupted, MayStop, Idle
      <3>3. CASE Advances(t)
        BY <1>1, <1>2, <1>4, <2>2, <3>1, <3>3, MovedEntries DEF Advances
      <3>4. CASE Returns(t) \/ StopFinish(t)
        BY <1>1, <1>2, <1>4, <2>2, <3>1, <3>4, MovedEntries
      <3>5. CASE Enters(t)
        BY <1>1, <1>4, <2>2, <3>5, MovedEntries
      <3> QED BY <1>4, <3>2, <3>3, <3>4, <3>5
    <2> QED BY <2>1, <2>2 DEF Threads
  <1> QED BY <1>3, <1>4, StackForms

\* What remains of a stack when its top call ends points to no session.
LEMMA WaitingPointsNowhere ==
  ASSUME Inv, NEW t \in Threads, calls[t] # <<>>
  PROVE  \A c \in ToSet(Tail(calls[t])) : c.sp = 0
  <1>1. Shape(calls[t]) /\ \A c \in ToSet(calls[t]) : CallOK(t, c)
    BY DEF Inv, Stacks
  <1>2. /\ Waiting(Tail(calls[t])) /\ ToSet(calls[t]) = {Head(calls[t])} \cup ToSet(Tail(calls[t]))
    BY <1>1, Under
  <1>3. \A c \in ToSet(Tail(calls[t])) : c.pc = "tell" /\ CallOK(t, c)
    BY <1>1, <1>2 DEF Waiting, ToSet
  <1> QED BY <1>3 DEF CallOK

\* A call keeps pointing to the session that exists.
LEMMA PointingStep ==
  ASSUME SerialStops, Inv, Apart, Pointing, [Next]_vars
  PROVE  Pointing'
  <1>1. CASE calls' = calls /\ sess' = sess
    BY <1>1 DEF Pointing
  <1>2. ASSUME NEW t \in Threads,
               Advances(t) \/ Interrupted(t) \/ Enters(t) \/ Returns(t) \/ StopFinish(t)
        PROVE  Pointing'
    <2>1. \A u \in Threads \ {t} : calls'[u] = calls[u]
      BY <1>2, MovedEntries
    <2>2. ASSUME sess' = sess, \A c \in ToSet(calls'[t]) : c.sp \in {0, sess}
          PROVE  Pointing'
      BY <2>1, <2>2 DEF Pointing
    <2>3. CASE Advances(t)
      <3>1. PICK d : /\ ToSet(calls'[t]) = {d} \cup ToSet(Tail(calls[t]))
                     /\ d.sp \in {0, sess, Top(t).sp}
        BY <1>2, <2>3, MovedEntries
      <3>2. Top(t).sp \in {0, sess} /\ \A c \in ToSet(Tail(calls[t])) : c.sp \in {0, sess}
        BY <1>2, <2>3, MovedEntries DEF Pointing, Advances
      <3> QED BY <2>2, <2>3, <3>1, <3>2 DEF Advances
    <2>4. CASE Interrupted(t)
      <3>0. \E c, d \in CallOf : /\ ToSet(calls'[t]) = {c, d} \cup ToSet(Tail(calls[t]))
                                /\ d.kind = Top(t).kind /\ d.sp = Top(t).sp
                                /\ c.kind = "stop" /\ c.sp = 0
        BY <2>4, MovedEntries
      <3>1. PICK c \in CallOf, d \in CallOf :
              ToSet(calls'[t]) = {c, d} \cup ToSet(Tail(calls[t])) /\ d.sp = Top(t).sp /\ c.sp = 0
        BY <3>0
      <3>2. Top(t).sp \in {0, sess} /\ \A x \in ToSet(Tail(calls[t])) : x.sp \in {0, sess}
        <4>1. ToSet(calls[t]) = {Top(t)} \cup ToSet(Tail(calls[t]))
          BY <1>2, <2>4, MovedEntries DEF Interrupted
        <4> QED BY <4>1 DEF Pointing
      <3> QED BY <2>2, <2>4, <3>1, <3>2 DEF Interrupted
    <2>5. CASE Enters(t)
      BY <1>2, <2>2, <2>5, MovedEntries DEF Enters
    <2>6. CASE Returns(t) \/ StopFinish(t)
      <3>1. \A c \in ToSet(calls'[t]) : c.sp = 0
        BY <1>2, <2>6, MovedEntries, WaitingPointsNowhere
      <3>2. CASE sess' = sess
        BY <2>2, <3>1, <3>2
      <3>3. CASE \A u \in Threads \ {t} : calls'[u] = <<>>
        BY <3>1, <3>3, NoCalls DEF Pointing
      <3>4. ASSUME Returns(t), sess' # sess PROVE \A u \in Threads \ {t} : calls'[u] = <<>>
        BY <2>1, <3>4 DEF Returns, Threads
      <3>5. ASSUME StopFinish(t) PROVE \A u \in Threads \ {t} : calls'[u] = <<>>
        <4>1. CASE t = "owner"
          BY <3>5, <4>1, FinishedAlone DEF Threads
        <4>2. CASE t = "dispatcher"
          <5>1. calls[t] # <<>> /\ Top(t).pc = "finish"
            BY <3>5 DEF StopFinish, At, Idle
          <5>2. PICK top \in CallOf : top = Top(t) /\ CallOK(t, top)
            BY <5>1, TopCall
          <5>3. Top(t).kind = "stop"
            BY <5>1, <5>2 DEF CallOK
          <5>4. InStop("dispatcher")
            BY <1>2, <4>2, <5>1, <5>3, MovedEntries, InStopEntries
          <5> QED BY <2>1, <4>2, <5>4 DEF Apart, Idle, Threads
        <4> QED BY <4>1, <4>2 DEF Threads
      <3> QED BY <2>6, <3>2, <3>3, <3>4, <3>5
    <2> QED BY <1>2, <2>3, <2>4, <2>5, <2>6
  <1> QED BY <1>1, <1>2, StackForms

\* qwen_tts_client.hpp: stop() "is safe to call from request callbacks", as long as the
\* owner is not starting or stopping the client at the same time: no thread is inside a
\* session that stop() or start() has destroyed.
THEOREM SessionIsSafe ==
  ASSUME SerialStops
  PROVE  Spec => []SessionOutlivesCalls
  <1>1. Init => Apart /\ Pointing
    BY NoCalls DEF Init, Apart, Pointing, Idle, Threads
  <1>2. Inv /\ Apart /\ Pointing /\ [Next]_vars => Apart' /\ Pointing'
    BY ApartStep, PointingStep
  <1>3. Pointing => SessionOutlivesCalls
    BY DEF Pointing, SessionOutlivesCalls, ToSet
  <1> QED BY <1>1, <1>2, <1>3, Invariance, PTL DEF Spec
-----------------------------------------------------------------------------
(* The order on the wire                                                   *)

Live == sstate = "ready" /\ transport = "running"

IsSynthesize(c) == c.type = "synthesize"

\* The writer thread holds a synthesize command; the highest id it has taken.
Holds == wpc = "send" /\ IsSynthesize(wcmd)

High == IF Holds THEN wcmd.id ELSE lastSent

\* What was sent, is held or is queued was accepted.
Queued ==
  /\ lastSent \in accepted \cup {0}
  /\ wpc = "send" => wcmd.type \in {"synthesize", "cancel"}
  /\ Holds => wcmd.id \in accepted
  /\ \A i \in DOMAIN outbound : IsSynthesize(outbound[i]) => outbound[i].id \in accepted

\* The writer's command and the queue behind it carry synthesize ids upwards, and every
\* cancel, also the next one, comes behind the synthesize of its request.
Upwards ==
  /\ Holds => wcmd.id > lastSent
  /\ \A i \in DOMAIN outbound : IsSynthesize(outbound[i]) => outbound[i].id > High
  /\ \A i, j \in DOMAIN outbound :
       IsSynthesize(outbound[i]) /\ IsSynthesize(outbound[j]) /\ j < i =>
         outbound[j].id < outbound[i].id

Behind ==
  /\ wpc = "send" /\ ~IsSynthesize(wcmd) => wcmd.id <= lastSent
  /\ \A i \in DOMAIN outbound : ~IsSynthesize(outbound[i]) =>
       \/ outbound[i].id <= High
       \/ \E j \in DOMAIN outbound :
            j < i /\ IsSynthesize(outbound[j]) /\ outbound[i].id <= outbound[j].id
  /\ running => \A r \in active :
       r <= High \/ \E j \in DOMAIN outbound : IsSynthesize(outbound[j]) /\ r <= outbound[j].id

Wire == Queued /\ (Live => Upwards /\ Behind)

\* A step that leaves the queue and the writer's command alone, or empties the queue.
Undisturbed ==
  /\ Live' => Live
  /\ UNCHANGED <<wcmd, lastSent, accepted>>
  /\ wpc' = wpc \/ (wpc # "send" /\ wpc' # "send")
  /\ \/ outbound' = outbound /\ (running' => running /\ active' \subseteq active)
     \/ outbound' = <<>> /\ ~running'

\* Such a step keeps the order.
LEMMA WireStays ==
  ASSUME Wire, Undisturbed
  PROVE  Wire'
  <1>1. /\ Holds' <=> Holds
        /\ High' = High
        /\ wpc' = "send" => wpc = "send"
    BY DEF Undisturbed, Holds, High, IsSynthesize
  <1>2. Queued'
    BY <1>1 DEF Wire, Queued, Undisturbed, IsSynthesize
  <1>3. ASSUME Live' PROVE Upwards' /\ Behind'
    <2>1. Upwards /\ Behind
      BY <1>3 DEF Wire, Undisturbed
    <2>2. Upwards'
      BY <1>1, <2>1 DEF Upwards, Undisturbed, IsSynthesize
    <2>3. Behind'
      BY <1>1, <2>1 DEF Behind, Undisturbed, IsSynthesize
    <2> QED BY <2>2, <2>3
  <1> QED BY <1>2, <1>3 DEF Wire

\* Steps of a thread in a call, of the session, of the dispatcher and of the owner.
LEMMA CallingUndisturbed ==
  ASSUME Inv, NEW t \in Threads, Calling(t)
  PROVE  Undisturbed
  <1> USE DEF clientVars, threadVars, sessionVars, histVars
  <1>1. CASE Tell(t) \/ Told(t)
    BY <1>1 DEF Tell, Told, Undisturbed, Live
  <1>2. CASE StopBegin(t)
    BY <1>2 DEF StopBegin, Undisturbed, Live
  <1>3. CASE SessionStop(t)
    BY <1>3 DEF SessionStop, Undisturbed, Live
  <1>4. CASE TransportStopped(t)
    BY <1>4 DEF TransportStopped, Undisturbed, Live
  <1>5. CASE JoinWriter(t) \/ JoinDispatcher(t)
    BY <1>5 DEF JoinWriter, JoinDispatcher, Undisturbed, Live
  <1>6. CASE FailAll(t)
    BY <1>6 DEF FailAll, Undisturbed, Live
  <1>7. CASE StopFinish(t)
    BY <1>7 DEF StopFinish, ResetSession, Undisturbed, Live
  <1> QED BY <1>1, <1>2, <1>3, <1>4, <1>5, <1>6, <1>7 DEF Calling

\* The others that do not touch the queue from below.
LEMMA OthersUndisturbed ==
  ASSUME Inv, Session \/ ReceiveExit \/ Dispatcher \/ OwnerStarts \/ OwnerStops \/ Reap
                \/ UNCHANGED vars
  PROVE  Undisturbed
  <1> USE DEF clientVars, threadVars, sessionVars, histVars
  <1>1. CASE Session \/ ReceiveExit
    <2>1. UNCHANGED <<clientVars, threadVars, histVars>>
      BY <1>1 DEF Session, TransportError, ProcessEnds, ReceiveFrame, ReceiveExit
    <2>2. Live' => Live
      <3>1. CASE TransportError \/ ProcessEnds \/ ReceiveExit
        BY <3>1 DEF TransportError, ProcessEnds, ReceiveExit, Live, Failed
      <3>2. ASSUME NEW f, ReceiveFrame(f) PROVE Live' => Live
        <4>1. CASE Allowed(f)
          BY <3>2, <4>1 DEF ReceiveFrame, EnqueueRegular, Overflow, Live, Failed
        <4>2. CASE ~Allowed(f)
          BY <3>2, <4>2 DEF ReceiveFrame, Live, Failed
        <4> QED BY <4>1, <4>2
      <3> QED BY <1>1, <3>1, <3>2 DEF Session
    <2> QED BY <2>1, <2>2 DEF Undisturbed
  <1>2. CASE DispatchTimeout \/ DispatchCheck
    BY <1>2 DEF DispatchTimeout, DispatchCheck, Undisturbed, Live
  <1>3. CASE DispatchEvent
    <2>1. UNCHANGED <<threadVars, sstate, transport, histVars>>
      BY <1>3 DEF DispatchEvent
    <2>2. PICK e : HandleProgress(e) \/ HandleTerminal(e) \/ HandleIgnored(e) \/ HandleLocalError(e)
      BY <1>3 DEF DispatchEvent
    <2>3. \/ outbound' = outbound /\ (running' => running /\ active' \subseteq active)
          \/ outbound' = <<>> /\ ~running'
      <3>1. ASSUME NEW rs, NEW cbs, Takes(rs, cbs)
            PROVE  outbound' = outbound /\ (running' => running /\ active' \subseteq active)
        BY <3>1 DEF Takes
      <3>2. CASE HandleLocalError(e)
        BY <3>2 DEF HandleLocalError
      <3>3. CASE HandleProgress(e)
        BY <3>1, <3>3 DEF HandleProgress
      <3>4. CASE HandleTerminal(e)
        BY <3>1, <3>4 DEF HandleTerminal
      <3>5. CASE HandleIgnored(e)
        BY <3>1, <3>5 DEF HandleIgnored
      <3> QED BY <2>2, <3>2, <3>3, <3>4, <3>5
    <2> QED BY <2>1, <2>3 DEF Undisturbed, Live
  <1>4. CASE OwnerStarts \/ OwnerStops
    BY <1>4 DEF OwnerStarts, OwnerStops, Undisturbed, Live
  <1>5. CASE Reap
    BY <1>5 DEF Reap, ResetSession, Undisturbed, Live
  <1>6. CASE UNCHANGED vars
    BY <1>6 DEF vars, Undisturbed, Live
  <1> QED BY <1>1, <1>2, <1>3, <1>4, <1>5, <1>6 DEF Dispatcher

\* A command at the back of the queue.
LEMMA BackOfQueue ==
  ASSUME Inv, NEW c \in CommandOf, outbound' = Append(outbound, c)
  PROVE  /\ Len(outbound) \in Nat /\ DOMAIN outbound = 1..Len(outbound)
         /\ DOMAIN outbound' = 1..(Len(outbound) + 1)
         /\ outbound'[Len(outbound) + 1] = c
         /\ \A i \in DOMAIN outbound : outbound'[i] = outbound[i] /\ outbound[i] \in CommandOf
  <1>1. outbound \in Seq(CommandOf)
    BY DEF Inv, Types, TableTypes
  <1> QED BY <1>1

\* A submission, accepted or refused, goes behind everything.
LEMMA SubmitWire ==
  ASSUME Inv, Wire, NEW requested \in 0..MaxId, Synthesize(requested) \/ SynthesizeRefused(requested)
  PROVE  Wire'
  <1> USE DEF threadVars, sessionVars, histVars
  <1>1. CASE SynthesizeRefused(requested)
    BY <1>1, WireStays DEF SynthesizeRefused, Undisturbed, Live
  <1>2. CASE Synthesize(requested)
    <2>1. PICK r \in Ids :
            /\ Allocates(requested, r)
            /\ active' = active \cup {r}
            /\ outbound' = Append(outbound, Command("synthesize", r))
            /\ accepted' = accepted \cup {r}
            /\ UNCHANGED <<running, wpc, wcmd, sstate, transport, lastSent>>
      BY <1>2 DEF Synthesize
    <2> DEFINE n == Len(outbound) + 1
               c == Command("synthesize", r)
    <2>2. c \in CommandOf /\ c.id = r /\ IsSynthesize(c)
      BY DEF Command, CommandOf, IsSynthesize
    <2>3. /\ Len(outbound) \in Nat /\ DOMAIN outbound = 1..Len(outbound)
          /\ DOMAIN outbound' = 1..n /\ outbound'[n] = c
          /\ \A i \in DOMAIN outbound : outbound'[i] = outbound[i]
      BY <2>1, <2>2, BackOfQueue
    <2>4. \A i \in DOMAIN outbound' : i = n \/ i \in DOMAIN outbound
      BY <2>3
    <2>5. \A i \in DOMAIN outbound : i \in DOMAIN outbound' /\ i < n /\ i # n
      BY <2>3
    <2>6. n \in DOMAIN outbound' /\ \A i \in DOMAIN outbound : ~(n < i)
      BY <2>3
    <2>7. \A q \in accepted : q < r
      BY <2>1, FreshId
    <2>8. (Holds' <=> Holds) /\ High' = High
      BY <2>1 DEF Holds, High, IsSynthesize
    <2>9. High < r /\ r <= r /\ r \in Nat
      <3>1. High \in accepted \cup {0} /\ r \in Nat /\ 0 < r
        BY ClientAssumption DEF Wire, Queued, High, Ids
      <3> QED BY <2>7, <3>1
    <2> HIDE DEF n, c
    <2>10. Queued'
      BY <2>1, <2>2, <2>3, <2>4, <2>8 DEF Wire, Queued, IsSynthesize
    <2>11. ASSUME Live' PROVE Upwards' /\ Behind'
      <3>1. Upwards /\ Behind /\ Queued
        BY <2>1, <2>11 DEF Wire, Live
      <3>2. Upwards'
        <4>1. ASSUME NEW i \in DOMAIN outbound', IsSynthesize(outbound'[i])
              PROVE  outbound'[i].id > High
          <5>1. CASE i = n
            <6>1. High \in Nat
              BY ClientAssumption DEF High, Holds, Inv, Types, ThreadTypes, HistTypes
            <6> QED BY <2>2, <2>3, <2>9, <5>1, <6>1
          <5>2. CASE i \in DOMAIN outbound
            BY <2>3, <3>1, <4>1, <5>2 DEF Upwards
          <5> QED BY <2>4, <5>1, <5>2
        <4>2. ASSUME NEW i \in DOMAIN outbound', NEW j \in DOMAIN outbound', j < i,
                     IsSynthesize(outbound'[i]), IsSynthesize(outbound'[j])
              PROVE  outbound'[j].id < outbound'[i].id
          <5>1. CASE i = n
            <6>1. j \in DOMAIN outbound
              BY <2>3, <2>4, <4>2, <5>1
            <6>2. outbound'[j].id \in accepted
              BY <2>3, <3>1, <4>2, <6>1 DEF Queued
            <6> QED BY <2>2, <2>3, <2>7, <5>1, <6>2
          <5>2. CASE i \in DOMAIN outbound
            <6>1. j \in DOMAIN outbound
              BY <2>4, <2>6, <4>2, <5>2
            <6> QED BY <2>3, <3>1, <4>2, <5>2, <6>1 DEF Upwards
          <5> QED BY <2>4, <5>1, <5>2
        <4> QED BY <2>1, <2>8, <3>1, <4>1, <4>2 DEF Upwards, IsSynthesize
      <3>3. Behind'
        <4>1. ASSUME NEW i \in DOMAIN outbound', ~IsSynthesize(outbound'[i])
              PROVE  \/ outbound'[i].id <= High
                     \/ \E j \in DOMAIN outbound' :
                          j < i /\ IsSynthesize(outbound'[j]) /\ outbound'[i].id <= outbound'[j].id
          <5>1. i \in DOMAIN outbound
            BY <2>2, <2>3, <2>4, <4>1
          <5> QED BY <2>3, <2>5, <3>1, <4>1, <5>1 DEF Behind
        <4>2. ASSUME running, NEW q \in active \cup {r}
              PROVE  q <= High \/ \E j \in DOMAIN outbound' :
                                     IsSynthesize(outbound'[j]) /\ q <= outbound'[j].id
          <5>1. CASE q = r
            BY <2>2, <2>3, <2>6, <2>9, <5>1
          <5>2. CASE q \in active
            BY <2>3, <2>5, <3>1, <4>2, <5>2 DEF Behind
          <5> QED BY <5>1, <5>2
        <4> QED BY <2>1, <2>8, <3>1, <4>1, <4>2 DEF Behind, IsSynthesize
      <3> QED BY <3>2, <3>3
    <2> QED BY <2>10, <2>11 DEF Wire
  <1> QED BY <1>1, <1>2

\* A cancel goes behind the synthesize of its request.
LEMMA CancelWire ==
  ASSUME Inv, Wire, NEW r \in Ids, Cancel(r)
  PROVE  Wire'
  <1> USE DEF threadVars, sessionVars, histVars
  <1>1. /\ running /\ r \in active
        /\ outbound' = Append(outbound, Command("cancel", r))
        /\ UNCHANGED <<running, active, wpc, wcmd, sstate, transport, lastSent, accepted>>
    BY DEF Cancel, CanSubmit
  <1> DEFINE n == Len(outbound) + 1
             c == Command("cancel", r)
  <1>2. c \in CommandOf /\ c.id = r /\ ~IsSynthesize(c)
    BY DEF Command, CommandOf, IsSynthesize
  <1>3. /\ Len(outbound) \in Nat /\ DOMAIN outbound = 1..Len(outbound)
        /\ DOMAIN outbound' = 1..n /\ outbound'[n] = c
        /\ \A i \in DOMAIN outbound : outbound'[i] = outbound[i]
    BY <1>1, <1>2, BackOfQueue
  <1>4. \A i \in DOMAIN outbound' : i = n \/ i \in DOMAIN outbound
    BY <1>3
  <1>5. \A i \in DOMAIN outbound : i \in DOMAIN outbound' /\ i < n
    BY <1>3
  <1>6. (Holds' <=> Holds) /\ High' = High
    BY <1>1 DEF Holds, High, IsSynthesize
  <1> HIDE DEF n, c
  <1>7. Queued'
    BY <1>1, <1>2, <1>3, <1>4, <1>6 DEF Wire, Queued, IsSynthesize
  <1>8. ASSUME Live' PROVE Upwards' /\ Behind'
    <2>1. Upwards /\ Behind
      BY <1>1, <1>8 DEF Wire, Live
    <2>2. \A i \in DOMAIN outbound' : IsSynthesize(outbound'[i]) => i \in DOMAIN outbound
      BY <1>2, <1>3, <1>4
    <2>3. Upwards'
      BY <1>1, <1>3, <1>6, <2>1, <2>2 DEF Upwards, IsSynthesize
    <2>4. ASSUME NEW i \in DOMAIN outbound', ~IsSynthesize(outbound'[i])
          PROVE  \/ outbound'[i].id <= High
                 \/ \E j \in DOMAIN outbound' :
                      j < i /\ IsSynthesize(outbound'[j]) /\ outbound'[i].id <= outbound'[j].id
      <3>1. CASE i = n
        BY <1>1, <1>2, <1>3, <1>5, <2>1, <3>1 DEF Behind
      <3>2. CASE i \in DOMAIN outbound
        BY <1>3, <1>5, <2>1, <2>4, <3>2 DEF Behind
      <3> QED BY <1>4, <3>1, <3>2
    <2>5. ASSUME NEW q \in active
          PROVE  q <= High \/ \E j \in DOMAIN outbound' :
                                 IsSynthesize(outbound'[j]) /\ q <= outbound'[j].id
      BY <1>1, <1>3, <1>5, <2>1 DEF Behind
    <2>6. Behind'
      BY <1>1, <1>6, <2>1, <2>4, <2>5 DEF Behind, IsSynthesize
    <2> QED BY <2>3, <2>6
  <1> QED BY <1>7, <1>8 DEF Wire
\* The writer takes the command at the front of the queue.
LEMMA TakeWire ==
  ASSUME Inv, Wire, WriterTake
  PROVE  Wire'
  <1> USE DEF sessionVars, histVars
  <1>1. CASE outbound = <<>>
    BY <1>1, WireStays DEF WriterTake, Undisturbed, Live
  <1>2. CASE outbound # <<>>
    <2>1. /\ wpc = "wait" /\ wpc' = "send" /\ wcmd' = Head(outbound) /\ outbound' = Tail(outbound)
          /\ UNCHANGED <<running, active, sstate, transport, lastSent, accepted>>
      BY <1>2 DEF WriterTake
    <2>2. outbound \in Seq(CommandOf)
      BY DEF Inv, Types, TableTypes
    <2>n. \A i \in DOMAIN outbound : outbound[i].id \in Nat
      <3>1. \A i \in DOMAIN outbound : outbound[i] \in CommandOf
        BY <2>2
      <3>2. Ids \subseteq Nat
        BY ClientAssumption DEF Ids
      <3> QED BY <3>1, <3>2 DEF CommandOf
    <2>3. /\ Head(outbound) \in CommandOf /\ Head(outbound) = outbound[1]
          /\ Len(outbound) \in Nat \ {0}
          /\ DOMAIN outbound = 1..Len(outbound) /\ DOMAIN outbound' = 1..(Len(outbound) - 1)
          /\ \A i \in 1..(Len(outbound) - 1) : outbound'[i] = outbound[i + 1]
      BY <1>2, <2>1, <2>2, Below
    <2>4. /\ 1 \in DOMAIN outbound /\ wcmd' = outbound[1]
          /\ \A i \in DOMAIN outbound' : /\ i + 1 \in DOMAIN outbound /\ outbound'[i] = outbound[i + 1]
                                         /\ 1 < i + 1
      BY <2>1, <2>3
    <2>5. /\ \A j \in DOMAIN outbound : j = 1 \/ (j - 1 \in DOMAIN outbound' /\ outbound'[j - 1] = outbound[j])
          /\ \A i \in DOMAIN outbound', j \in DOMAIN outbound : j < i + 1 => j - 1 < i
          /\ \A i, j \in DOMAIN outbound' : j < i => j + 1 < i + 1
          /\ \A j \in DOMAIN outbound : ~(j < 1)
      BY <2>3
    <2>6. ~Holds /\ High = lastSent
      BY <2>1 DEF Holds, High
    <2>7. High' = IF IsSynthesize(outbound[1]) THEN outbound[1].id ELSE lastSent
      BY <2>1, <2>4 DEF High, Holds, IsSynthesize
    <2>8. wcmd'.type \in {"synthesize", "cancel"} /\ (Holds' <=> IsSynthesize(outbound[1]))
      BY <2>1, <2>3, <2>4 DEF CommandOf, Holds, IsSynthesize
    <2>9. Queued'
      BY <2>1, <2>4, <2>8 DEF Wire, Queued, IsSynthesize
    <2>10. ASSUME Live' PROVE Upwards' /\ Behind'
      <3>1. Upwards /\ Behind
        BY <2>1, <2>10 DEF Wire, Live
      <3>2. IsSynthesize(outbound[1]) => outbound[1].id > lastSent
        BY <2>4, <2>6, <3>1 DEF Upwards
      <3>3. ~IsSynthesize(outbound[1]) => outbound[1].id <= lastSent
        BY <2>4, <2>5, <2>6, <3>1 DEF Behind
      <3>4. ASSUME NEW i \in DOMAIN outbound', IsSynthesize(outbound'[i])
            PROVE  outbound'[i].id > High'
        <4>1. CASE IsSynthesize(outbound[1])
          <5>1. outbound[1].id < outbound[i + 1].id
            BY <2>4, <3>1, <3>4, <4>1 DEF Upwards
          <5>2. outbound[1].id \in Nat /\ outbound[i + 1].id \in Nat
            BY <2>n, <2>4
          <5> QED BY <2>4, <2>7, <4>1, <5>1, <5>2
        <4>2. CASE ~IsSynthesize(outbound[1])
          BY <2>4, <2>6, <2>7, <3>1, <3>4, <4>2 DEF Upwards
        <4> QED BY <4>1, <4>2
      <3>5. ASSUME NEW i \in DOMAIN outbound', NEW j \in DOMAIN outbound', j < i,
                   IsSynthesize(outbound'[i]), IsSynthesize(outbound'[j])
            PROVE  outbound'[j].id < outbound'[i].id
        BY <2>4, <2>5, <3>1, <3>5 DEF Upwards
      <3>6. Upwards'
        <4>1. Holds' => wcmd'.id > lastSent'
          BY <2>1, <2>4, <2>8, <3>2
        <4> QED BY <3>4, <3>5, <4>1 DEF Upwards, IsSynthesize
      <3>7. ASSUME NEW q \in Nat, q <= High PROVE q <= High'
        <4>1. lastSent \in Nat /\ outbound[1].id \in Nat
          BY <2>n, <2>4, ClientAssumption DEF Inv, Types, HistTypes
        <4> QED BY <2>6, <2>7, <3>2, <3>7, <4>1
      <3>8. ASSUME NEW j \in DOMAIN outbound, IsSynthesize(outbound[j])
            PROVE  outbound[j].id <= High' \/ (j - 1 \in DOMAIN outbound' /\ outbound'[j - 1] = outbound[j])
        <4>1. outbound[1].id \in Nat
          BY <2>n, <2>4
        <4> QED BY <2>5, <2>7, <3>8, <4>1
      <3>9. ASSUME NEW i \in DOMAIN outbound', ~IsSynthesize(outbound'[i])
            PROVE  \/ outbound'[i].id <= High'
                   \/ \E j \in DOMAIN outbound' :
                        j < i /\ IsSynthesize(outbound'[j]) /\ outbound'[i].id <= outbound'[j].id
        <4>1. outbound[i + 1].id \in Nat /\ outbound'[i] = outbound[i + 1] /\ i + 1 \in DOMAIN outbound
          BY <2>n, <2>4
        <4>2. CASE outbound[i + 1].id <= High
          BY <3>7, <4>1, <4>2
        <4>3. ASSUME NEW j \in DOMAIN outbound, j < i + 1, IsSynthesize(outbound[j]),
                     outbound[i + 1].id <= outbound[j].id
              PROVE  \/ outbound'[i].id <= High'
                     \/ \E k \in DOMAIN outbound' :
                          k < i /\ IsSynthesize(outbound'[k]) /\ outbound'[i].id <= outbound'[k].id
          <5>1. CASE j = 1
            BY <2>7, <4>1, <4>3, <5>1
          <5>2. CASE j # 1
            BY <2>5, <4>1, <4>3, <5>2
          <5> QED BY <5>1, <5>2
        <4> QED BY <3>1, <3>9, <4>1, <4>2, <4>3 DEF Behind
      <3>10. ASSUME running, NEW q \in active
             PROVE  q <= High' \/ \E j \in DOMAIN outbound' :
                                     IsSynthesize(outbound'[j]) /\ q <= outbound'[j].id
        <4>1. q \in Nat
          BY ClientAssumption DEF Inv, Types, TableTypes, Ids
        <4>2. CASE q <= High
          BY <3>7, <4>1, <4>2
        <4>3. ASSUME NEW j \in DOMAIN outbound, IsSynthesize(outbound[j]), q <= outbound[j].id
              PROVE  q <= High' \/ \E k \in DOMAIN outbound' :
                                      IsSynthesize(outbound'[k]) /\ q <= outbound'[k].id
          <5>1. CASE j = 1
            BY <2>7, <4>3, <5>1
          <5>2. CASE j # 1
            BY <2>5, <4>3, <5>2
          <5> QED BY <5>1, <5>2
        <4> QED BY <3>1, <3>10, <4>2, <4>3 DEF Behind
      <3>11. Behind'
        <4>1. wpc' = "send" /\ ~IsSynthesize(wcmd') => wcmd'.id <= lastSent'
          BY <2>1, <2>4, <3>3
        <4> QED BY <2>1, <3>9, <3>10, <4>1 DEF Behind, IsSynthesize
      <3> QED BY <3>6, <3>11
    <2> QED BY <2>9, <2>10 DEF Wire
  <1> QED BY <1>1, <1>2

\* The writer sends, fails to send, or drops what it holds.
LEMMA SendWire ==
  ASSUME Inv, Wire, WriterSend
  PROVE  Wire'
  <1> USE DEF clientVars
  <1>1. /\ wpc = "send" /\ wpc' = "wait" /\ wcmd' = NoCommand
        /\ UNCHANGED <<outbound, running, active, transport, accepted>>
        /\ \/ lastSent' = IF IsSynthesize(wcmd) THEN wcmd.id ELSE lastSent
           \/ ~Live' /\ lastSent' = lastSent
    BY DEF WriterSend, IsSynthesize, Live, Failed
  <1>2. ~Holds' /\ High' = lastSent'
    BY <1>1 DEF Holds, High
  <1>3. Live' => Live /\ lastSent' = High
    BY <1>1 DEF WriterSend, Live, Failed, High, Holds
  <1>4. Queued'
    BY <1>1, <1>2 DEF Wire, Queued, Holds, IsSynthesize
  <1>5. ASSUME Live' PROVE Upwards' /\ Behind'
    <2>1. Upwards /\ Behind /\ High' = High
      BY <1>2, <1>3, <1>5 DEF Wire
    <2>2. Upwards'
      BY <1>1, <1>2, <2>1 DEF Upwards, IsSynthesize
    <2>3. Behind'
      BY <1>1, <2>1 DEF Behind, IsSynthesize
    <2> QED BY <2>2, <2>3
  <1> QED BY <1>4, <1>5 DEF Wire

\* A new session starts with an empty queue.
LEMMA InstallWire ==
  ASSUME Inv, Wire, StartInstall
  PROVE  Wire'
  <1> USE DEF clientVars, threadVars, sessionVars, histVars
  <1>1. CASE UNCHANGED <<clientVars, threadVars, sessionVars, histVars>>
    BY <1>1, WireStays DEF Undisturbed, Live
  <1>2. CASE /\ active' = {} /\ outbound' = <<>> /\ wpc' = "wait" /\ lastSent' = 0
    <2>1. ~Holds'
      BY <1>2 DEF Holds
    <2> QED BY <1>2, <2>1 DEF Wire, Queued, Upwards, Behind
  <1> QED BY <1>1, <1>2 DEF StartInstall

\* Every step keeps the order.
LEMMA WireStep ==
  ASSUME Inv, Wire, [Next]_vars
  PROVE  Wire'
  <1>1. CASE Application
    BY <1>1, SubmitWire, CancelWire DEF Application
  <1>2. CASE WriterThread
    BY <1>2, TakeWire, SendWire DEF WriterThread
  <1>3. CASE \E t \in Threads : Calling(t)
    BY <1>3, CallingUndisturbed, WireStays
  <1>4. CASE StartInstall
    BY <1>4, InstallWire
  <1>5. CASE Session \/ ReceiveExit \/ Dispatcher \/ OwnerStarts \/ OwnerStops \/ Reap
               \/ UNCHANGED vars
    BY <1>5, OthersUndisturbed, WireStays
  <1> QED BY <1>1, <1>2, <1>3, <1>4, <1>5 DEF Next, Starting

\* What reaches the worker respects its id policy: synthesize ids increase strictly and a
\* cancel never overtakes its synthesize, whatever ids the application asks for, and
\* whatever submissions are refused.
THEOREM SentInOrder == Spec => []WireOrder
  <1>1. Init => Wire
    BY DEF Init, Wire, Queued, Live, Holds, NoCommand, Command
  <1>2. Wire => WireOrder
    BY DEF Wire, WireOrder, Queued, Upwards, Behind, Holds, IsSynthesize, Live
  <1> QED BY <1>1, <1>2, WireStep, Invariance, PTL DEF Spec
=============================================================================
