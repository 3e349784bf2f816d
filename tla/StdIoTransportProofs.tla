------------------------ MODULE StdIoTransportProofs ------------------------
(***************************************************************************)
(* Three facts about StdIoTransport for every set of streams and senders,  *)
(* every queue limit and any number of launches, with stop() called from   *)
(* the callback thread at any time: stdin is never closed under a writer,  *)
(* an owner that returned from stop() finds no thread left, and callbacks  *)
(* come in order, the exit last.                                           *)
(*                                                                         *)
(* All rest on lifecycle_mutex_: only its holder launches, joins and       *)
(* forgets a process.                                                      *)
(***************************************************************************)
EXTENDS StdIoTransport, SequenceTheorems, FiniteSetTheorems, WellFoundedInduction, TLAPS

\* Positions at which a thread holds lifecycle_mutex_.
Inside == {"start_join", "start_reset", "start_thread", "start_process", "start_running",
           "start_watch", "fail", "stop_close", "stop_wait", "stop_join", "stop_reset",
           "stop_request", "stop_callback"}

\* The types the argument needs.
Types ==
  /\ pc = [t \in Threads |-> pc[t]] /\ spc = [t \in Senders |-> spc[t]]
  /\ rpc = [s \in Streams |-> rpc[s]] /\ launches \in Nat

\* A thread that is inside start() or stop() holds lifecycle_mutex_.
Exclusive == \A t \in Threads : pc[t] \in Inside => lifecycle = t

\* A sender holds write_mutex_ from its second look to the end of its write.
Writers == \A t \in Senders : spc[t] \in {"check", "write", "stuck"} => writing = t

\* The stdin of a running worker is open; it is closed only after the state moved on.
StdinOfRunning ==
  /\ state = "running" => stdinOpen
  /\ pc["owner"] = "start_running" => stdinOpen
  /\ \A t \in Threads : pc[t] \in {"stop_close", "stop_wait", "stop_join"}
                          => state # "running"

\* Where the exit watcher and the readers are while no process is owned.
Watched ==
  /\ process = 0 => wpc = None
  /\ pc["owner"] \in {"start_reset", "start_thread", "start_process", "start_running",
                      "start_watch", "fail"} => wpc = None
  /\ pc["owner"] = "start_running" => launches # 0
  /\ pc["owner"] = "start_watch" => process # 0
  /\ \A t \in Threads : pc[t] \in {"stop_reset", "stop_request", "stop_callback"}
                          => wpc = None
  /\ wpc # "wait" /\ pc["owner"] \notin {"start_running", "start_watch"}
       => \A s \in Streams : rpc[s] = "ended"

\* While the transport is quiet no thread of it exists.
Silence ==
  quiet => /\ pc["callback"] = "ended" /\ wpc = None
           /\ \A s \in Streams : rpc[s] = "ended"
           /\ pc["owner"] \notin {"start_thread", "start_process", "start_running",
                                  "start_watch", "fail"}

Inv == Types /\ Exclusive /\ Writers /\ StdinOfRunning /\ Watched /\ Silence
           /\ StdinOpenWhileWriting
-----------------------------------------------------------------------------
USE DEF Inv, Types, Exclusive, Writers, StdinOfRunning, Watched, Silence,
        StdinOpenWhileWriting, Inside, Threads, None

\* A transport that was never started satisfies the invariant.
LEMMA InitInv == Init => Inv
  BY DEF Init

USE DEF stateVars, queueVars, lockVars, sendVars, procVars, histVars

\* A launch opens stdin and starts the readers while the owner holds lifecycle_mutex_.
LEMMA LaunchInv == ASSUME Inv, StartProcess PROVE Inv'
  <1>1. pc["owner"] = "start_process" /\ pc' = [pc EXCEPT !["owner"] = "start_running"]
    BY DEF StartProcess, Move
  <1>2. launches' \in Nat /\ launches' # 0
    BY DEF StartProcess
  <1>3. Types' /\ Exclusive' /\ Writers' /\ StdinOpenWhileWriting'
    BY <1>1, <1>2 DEF StartProcess
  <1>4. StdinOfRunning'
    BY <1>1 DEF StartProcess
  <1>5. Watched' /\ Silence'
    BY <1>1, <1>2 DEF StartProcess
  <1> QED BY <1>3, <1>4, <1>5

\* Every step of start() keeps the invariant.
LEMMA StartInv ==
  ASSUME Inv,
         \/ StartCheck \/ StartJoin \/ StartReset \/ StartThread \/ StartProcess
         \/ StartProcessFails \/ StartRunning \/ StartWatch \/ FailStart
  PROVE  Inv'
  <1>1. CASE StartCheck
    BY <1>1 DEF StartCheck, Move
  <1>2. CASE StartJoin
    BY <1>2 DEF StartJoin, Move, RequestCallbackStop
  <1>3. CASE StartReset
    BY <1>3 DEF StartReset, Move
  <1>4. CASE StartThread
    BY <1>4 DEF StartThread
  <1>5. CASE StartProcess
    BY <1>5, LaunchInv
  <1>6. CASE StartProcessFails
    BY <1>6 DEF StartProcessFails, Move, RequestCallbackStop
  <1>7. CASE StartRunning
    BY <1>7 DEF StartRunning, Move
  <1>8. CASE StartWatch
    BY <1>8 DEF StartWatch, Move
  <1>9. CASE FailStart
    BY <1>9 DEF FailStart, Move
  <1> QED BY <1>1, <1>2, <1>3, <1>4, <1>5, <1>6, <1>7, <1>8, <1>9

\* Every step of stop() keeps the invariant, on whichever thread it runs.
LEMMA StopInv ==
  ASSUME Inv, NEW t \in Threads, StopRuns(t) \/ StopCallback
  PROVE  Inv'
  <1>1. CASE StopEnter(t)
    BY <1>1 DEF StopEnter, Move, BeginStopping
  <1>2. CASE StopCloseStdin(t)
    BY <1>2, TransportAssumption DEF StopCloseStdin, Move
  <1>3. CASE StopWait(t)
    BY <1>3 DEF StopWait, Move
  <1>4. CASE StopJoin(t)
    BY <1>4 DEF StopJoin, Move
  <1>5. CASE StopReset(t)
    BY <1>5 DEF StopReset, Move
  <1>6. CASE StopRequest(t)
    BY <1>6 DEF StopRequest, Move, RequestCallbackStop
  <1>7. CASE StopCallback
    BY <1>7 DEF StopCallback, Move
  <1> QED BY <1>1, <1>2, <1>3, <1>4, <1>5, <1>6, <1>7 DEF StopRuns

\* Every step of send() keeps the invariant.
LEMMA SendInv ==
  ASSUME Inv, NEW t \in Senders,
         SendRuns(t) \/ SendCall(t) \/ SendWritten(t) \/ SendWriteFails(t)
  PROVE  Inv'
  <1>1. CASE SendCall(t)
    BY <1>1 DEF SendCall, SendTo
  <1>2. CASE SendLock(t)
    BY <1>2, TransportAssumption DEF SendLock, SendTo
  <1>3. CASE SendCheck(t)
    BY <1>3 DEF SendCheck, SendTo
  <1>4. CASE SendWritten(t)
    BY <1>4 DEF SendWritten, SendTo
  <1>5. CASE SendWriteFails(t)
    BY <1>5 DEF SendWriteFails, SendTo
  <1>6. CASE SendReport(t)
    BY <1>6 DEF SendReport, SendTo
  <1>7. CASE SendOverflow(t)
    BY <1>7 DEF SendOverflow, SendTo, StopAfterOverflow, BeginStopping
  <1> QED BY <1>1, <1>2, <1>3, <1>4, <1>5, <1>6, <1>7 DEF SendRuns

\* Every step of a reader keeps the invariant.
LEMMA ReaderInv ==
  ASSUME Inv, NEW s \in Streams, ReaderRuns(s) \/ ReaderReads(s)
  PROVE  Inv'
  <1>1. CASE ReaderReads(s)
    BY <1>1 DEF ReaderReads
  <1>2. CASE ReaderOverflow(s)
    BY <1>2 DEF ReaderOverflow, StopAfterOverflow, BeginStopping
  <1>3. CASE ReaderEnds(s)
    BY <1>3 DEF ReaderEnds
  <1> QED BY <1>1, <1>2, <1>3 DEF ReaderRuns

\* Every step of the specification keeps the invariant.
LEMMA NextInv == Inv /\ [Next]_vars => Inv'
  <1> SUFFICES ASSUME Inv, [Next]_vars PROVE Inv'
    OBVIOUS
  <1>1. CASE OwnerRuns
    BY <1>1, StartInv, StopInv DEF OwnerRuns
  <1>2. CASE OwnerCalls("stop") \/ OwnerCalls("start")
    BY <1>2 DEF OwnerCalls, Move
  <1>3. CASE CallbackTake
    BY <1>3 DEF CallbackTake, Move
  <1>4. CASE CallbackDispatch
    BY <1>4 DEF CallbackDispatch, Move
  <1>5. CASE HandlerReturns
    BY <1>5 DEF HandlerReturns, Move
  <1>6. CASE HandlerStops
    BY <1>6 DEF HandlerStops, Move
  <1>7. CASE StopRuns("callback")
    BY <1>7, StopInv
  <1>8. CASE \E t \in Senders : SendRuns(t) \/ SendCall(t) \/ SendWritten(t) \/ SendWriteFails(t)
    BY <1>8, SendInv
  <1>9. CASE \E s \in Streams : ReaderRuns(s) \/ ReaderReads(s)
    BY <1>9, ReaderInv
  <1>10. CASE WatcherExit
    BY <1>10 DEF WatcherExit
  <1>11. CASE WatcherReports
    BY <1>11 DEF WatcherReports
  <1>12. CASE ProcessEnds
    BY <1>12 DEF ProcessEnds
  <1>13. CASE UNCHANGED vars
    BY <1>13 DEF vars
  <1> HIDE DEF Inv
  <1> QED
    BY <1>1, <1>2, <1>3, <1>4, <1>5, <1>6, <1>7, <1>8, <1>9, <1>10, <1>11, <1>12, <1>13
    DEF Next, CallbackRuns, WatcherRuns

\* stop() closes the worker's stdin only when no send() is writing to it, however many
\* threads send and wherever stop() is called from.
THEOREM StdinNeverClosedUnderWriter == Spec => []StdinOpenWhileWriting
  <1>1. Inv => StdinOpenWhileWriting
    OBVIOUS
  <1> HIDE DEF Inv, StdinOpenWhileWriting
  <1> QED BY InitInv, NextInv, <1>1, PTL DEF Spec

\* When stop() has returned to the owner, callback thread, exit watcher and readers are
\* gone, although a handler may have called stop() itself at any time before.
THEOREM StoppedIsQuiet == Spec => []QuietAfterStop
  <1>1. Inv => QuietAfterStop
    BY DEF QuietAfterStop
  <1> HIDE DEF Inv
  <1> QED BY InitInv, NextInv, <1>1, PTL DEF Spec
-----------------------------------------------------------------------------
(* The order of the callbacks                                              *)

\* The waiting events are in order.
InOrder(q) ==
  \A i, j \in 1..Len(q) : i < j =>
    /\ q[i] = "exit" => q[j] \notin Streams
    /\ q[i] = "overflow" => q[j] = "exit"

\* The callback thread has taken an event of kind k and not yet called its handler.
Taken(k) == pc["callback"] = "dispatch" /\ event = k

\* An event of kind k is waiting, taken or delivered.
Out(k) == k \in ToSet(queue) \/ Taken(k) \/ k \in heard

(***************************************************************************)
(* The queue follows the callback thread: without the thread it is empty   *)
(* and refuses events, with it the handlers are set; it accepts events as  *)
(* long as an exit watcher may report.                                     *)
(***************************************************************************)
QueueLives ==
  /\ queue \in Seq(Kinds)
  /\ pc["callback"] = "ended" => queue = <<>> /\ ~accepting
  /\ pc["callback"] # "ended" => handlers
  /\ stopRequested => ~accepting
  /\ pc["owner"] = "start_thread" => pc["callback"] = "ended" /\ heard = {} /\ handlers
  /\ pc["owner"] \in {"start_process", "start_running", "start_watch"} => accepting
  /\ wpc \in {"wait", "report"} => accepting

\* The exit comes after the readers and the watcher, the overflow while the queue is closed.
ExitLast ==
  Out("exit") =>
    /\ wpc \in {None, "ended"}
    /\ pc["owner"] \notin {"start_thread", "start_process", "start_running", "start_watch"}

OverflowLast == Out("overflow") => overflowed /\ pc["owner"] # "start_thread"

Ordered ==
  /\ InOrder(queue)
  /\ Taken("exit") \/ "exit" \in heard => ToSet(queue) \cap Streams = {}
  /\ Taken("overflow") \/ "overflow" \in heard => ToSet(queue) \subseteq {"exit"}

\* A process that was started has an exit to be reported, or its exit was.
Reported == watched => wpc \in {"wait", "report"} \/ Out("exit")

OrderInv == QueueLives /\ ExitLast /\ OverflowLast /\ Ordered /\ Reported
HIDE DEF Inv, Types, Exclusive, Writers, StdinOfRunning, Watched, Silence,
         StdinOpenWhileWriting, Inside

\* Kinds of events are told apart.
LEMMA KindsDiffer ==
  /\ "exit" \in Kinds /\ "overflow" \in Kinds /\ "error" \in Kinds /\ Streams \subseteq Kinds
  /\ "exit" \notin Streams /\ "overflow" \notin Streams /\ "error" \notin Streams
  BY TransportAssumption DEF Kinds

\* push_back keeps the order of the queue.
LEMMA AppendInOrder ==
  ASSUME NEW q \in Seq(Kinds), InOrder(q), NEW e \in Kinds,
         e \in Streams => "exit" \notin ToSet(q),
         e # "exit" => "overflow" \notin ToSet(q)
  PROVE  /\ Append(q, e) \in Seq(Kinds) /\ InOrder(Append(q, e))
         /\ ToSet(Append(q, e)) = ToSet(q) \cup {e}
  <1> DEFINE n == Len(q) + 1
             a == Append(q, e)
  <1>1. /\ a \in Seq(Kinds) /\ Len(a) = n /\ Len(q) \in Nat
        /\ DOMAIN q = 1..Len(q) /\ DOMAIN a = 1..n /\ a[n] = e
        /\ \A i \in 1..Len(q) : a[i] = q[i]
    OBVIOUS
  <1> HIDE DEF a
  <1>2. \A i \in 1..n : i = n \/ i \in 1..Len(q)
    BY <1>1
  <1>3. ToSet(a) = ToSet(q) \cup {e}
    <2>1. n \in DOMAIN a /\ \A i \in DOMAIN q : i \in DOMAIN a
      BY <1>1
    <2> HIDE DEF n
    <2> QED BY <1>1, <1>2, <2>1 DEF ToSet
  <1>4. InOrder(a)
    <2> SUFFICES ASSUME NEW i \in 1..n, NEW j \in 1..n, i < j
                 PROVE  (a[i] = "exit" => a[j] \notin Streams) /\ (a[i] = "overflow" => a[j] = "exit")
      BY <1>1 DEF InOrder
    <2>1. i \in 1..Len(q)
      BY <1>1
    <2>2. CASE j = n
      <3>1. q[i] \in ToSet(q) /\ a[i] = q[i] /\ a[j] = e
        BY <1>1, <2>1, <2>2 DEF ToSet
      <3> QED BY <3>1
    <2>3. CASE j \in 1..Len(q)
      BY <1>1, <2>1, <2>3 DEF InOrder
    <2> QED BY <1>2, <2>2, <2>3
  <1> QED BY <1>1, <1>3, <1>4 DEF a

\* pop_front keeps the order, and what follows an exit or an overflow is as it should be.
LEMMA TailInOrder ==
  ASSUME NEW q \in Seq(Kinds), InOrder(q), q # <<>>
  PROVE  /\ Tail(q) \in Seq(Kinds) /\ InOrder(Tail(q)) /\ Head(q) \in Kinds
         /\ ToSet(q) = {Head(q)} \cup ToSet(Tail(q))
         /\ Head(q) = "exit" => ToSet(Tail(q)) \cap Streams = {}
         /\ Head(q) = "overflow" => ToSet(Tail(q)) \subseteq {"exit"}
  <1> DEFINE t == Tail(q)
  <1>1. /\ t \in Seq(Kinds) /\ Len(q) \in Nat \ {0} /\ Len(t) = Len(q) - 1
        /\ DOMAIN q = 1..Len(q) /\ DOMAIN t = 1..(Len(q) - 1)
        /\ \A i \in 1..(Len(q) - 1) : t[i] = q[i + 1]
        /\ Head(q) = q[1] /\ Head(q) \in Kinds
    OBVIOUS
  <1> HIDE DEF t
  <1>2. \A i \in DOMAIN t : i + 1 \in DOMAIN q /\ t[i] = q[i + 1] /\ 1 < i + 1
    BY <1>1
  <1>3. \A i \in DOMAIN q : i = 1 \/ (i - 1 \in DOMAIN t /\ t[i - 1] = q[i])
    BY <1>1
  <1>4. 1 \in DOMAIN q
    BY <1>1
  <1>5. ToSet(q) = {Head(q)} \cup ToSet(t)
    <2>1. \A x \in ToSet(q) : x \in {Head(q)} \cup ToSet(t)
      BY <1>1, <1>3 DEF ToSet
    <2>2. Head(q) \in ToSet(q)
      BY <1>1, <1>4 DEF ToSet
    <2>3. \A x \in ToSet(t) : x \in ToSet(q)
      BY <1>2 DEF ToSet
    <2> QED BY <2>1, <2>2, <2>3
  <1>6. InOrder(t)
    <2> SUFFICES ASSUME NEW i \in DOMAIN t, NEW j \in DOMAIN t, i < j
                 PROVE  (t[i] = "exit" => t[j] \notin Streams) /\ (t[i] = "overflow" => t[j] = "exit")
      BY <1>1 DEF InOrder
    <2>1. i + 1 \in 1..Len(q) /\ j + 1 \in 1..Len(q) /\ i + 1 < j + 1
      BY <1>1
    <2> QED BY <1>2, <2>1 DEF InOrder
  <1>7. ASSUME NEW x \in ToSet(t)
        PROVE  (Head(q) = "exit" => x \notin Streams) /\ (Head(q) = "overflow" => x = "exit")
    <2>1. PICK i \in DOMAIN t : x = t[i]
      BY DEF ToSet
    <2>2. 1 \in 1..Len(q) /\ i + 1 \in 1..Len(q) /\ 1 < i + 1 /\ x = q[i + 1]
      BY <1>1, <2>1
    <2> QED BY <1>1, <2>2 DEF InOrder
  <1> QED BY <1>1, <1>5, <1>6, <1>7 DEF t

\* enqueue_event on any thread but the callback thread's own.
LEMMA EnqueueOrder ==
  ASSUME OrderInv, NEW e \in Kinds \ {"overflow"}, NEW big, Enqueue(e, big),
         UNCHANGED <<pc, event, heard>>, e \in Streams => ~Out("exit")
  PROVE  /\ queue' \in Seq(Kinds) /\ Ordered'
         /\ UNCHANGED <<accepting, stopRequested>>
         /\ ~accepting => queue' = queue
         /\ ToSet(queue) \subseteq ToSet(queue')
         /\ ToSet(queue') \subseteq ToSet(queue) \cup {e, "overflow"}
         /\ Out("overflow")' => overflowed'
         /\ accepting /\ e = "exit" => "exit" \in ToSet(queue')
  <1>0. QueueLives /\ ExitLast /\ OverflowLast /\ Ordered
    BY DEF OrderInv
  <1>1. UNCHANGED <<accepting, stopRequested>>
    BY DEF Enqueue
  <1>2. CASE queue' = queue /\ (overflowed => overflowed') /\ (~accepting \/ e # "exit")
    <2>1. Ordered'
      BY <1>0, <1>2 DEF Ordered, Taken, InOrder
    <2>2. Out("overflow")' => overflowed'
      BY <1>0, <1>2 DEF OverflowLast, Out, Taken
    <2> QED BY <1>0, <1>1, <1>2, <2>1, <2>2 DEF QueueLives
  <1>3. ASSUME NEW k \in Kinds, accepting, queue' = Append(queue, k),
               k \in Streams => ~Out("exit"), k # "exit" => ~overflowed,
               k \in {e, "overflow"}, e = "exit" => k = e,
               overflowed \/ k = "overflow" => overflowed'
        PROVE  /\ queue' \in Seq(Kinds) /\ Ordered'
               /\ ~accepting => queue' = queue
               /\ ToSet(queue) \subseteq ToSet(queue')
               /\ ToSet(queue') \subseteq ToSet(queue) \cup {e, "overflow"}
               /\ Out("overflow")' => overflowed'
               /\ e = "exit" => "exit" \in ToSet(queue')
    <2>1. k # "exit" => ~Out("overflow")
      BY <1>0, <1>3 DEF OverflowLast
    <2>2. /\ queue' \in Seq(Kinds) /\ InOrder(queue') /\ ToSet(queue') = ToSet(queue) \cup {k}
      BY <1>0, <1>3, <2>1, AppendInOrder DEF QueueLives, Ordered, Out
    <2>3. Ordered'
      <3>1. Taken("exit")' \/ "exit" \in heard' => ToSet(queue') \cap Streams = {}
        BY <1>0, <1>3, <2>2, KindsDiffer DEF Ordered, Taken, Out
      <3>2. Taken("overflow")' \/ "overflow" \in heard' => ToSet(queue') \subseteq {"exit"}
        BY <1>0, <2>1, <2>2 DEF Ordered, Taken, Out
      <3> QED BY <2>2, <3>1, <3>2 DEF Ordered
    <2>4. Out("overflow")' => overflowed'
      <3>1. Out("overflow")' => Out("overflow") \/ k = "overflow"
        BY <2>2 DEF Out, Taken
      <3>2. Out("overflow") \/ k = "overflow" => overflowed'
        BY <1>0, <1>3 DEF OverflowLast
      <3> QED BY <3>1, <3>2
    <2> QED BY <1>3, <2>2, <2>3, <2>4
  <1>4. CASE ~accepting \/ (overflowed /\ e # "exit")
    <2>1. ~Overflows(e, big)
      BY <1>4 DEF Overflows
    <2>2. queue' = queue /\ overflowed' = overflowed
      BY <1>4, <2>1 DEF Enqueue
    <2> QED BY <1>2, <1>4, <2>2
  <1>5. CASE ~(~accepting \/ (overflowed /\ e # "exit")) /\ Overflows(e, big)
    <2>1. queue' = Append(queue, "overflow") /\ overflowed' = TRUE /\ accepting /\ ~overflowed
          /\ e # "exit"
      BY <1>5 DEF Enqueue, Overflows
    <2>2. overflowed'
      BY <2>1
    <2> QED BY <1>1, <1>3, <2>1, <2>2, KindsDiffer
  <1>6. CASE ~(~accepting \/ (overflowed /\ e # "exit")) /\ ~Overflows(e, big)
    <2>1. queue' = Append(queue, e) /\ overflowed' = overflowed
      BY <1>6 DEF Enqueue
    <2>2. overflowed \/ e = "overflow" => overflowed'
      <3>1. e # "overflow"
        OBVIOUS
      <3> QED BY <2>1, <3>1
    <2> QED BY <1>1, <1>3, <1>6, <2>1, <2>2
  <1> QED BY <1>4, <1>5, <1>6
USE DEF Inv, Types, Exclusive, Watched, Silence, Inside

\* Steps that neither queue, take nor deliver an exit or an overflow.
LEMMA SameEvents ==
  ASSUME OrderInv, UNCHANGED <<queue, heard>>,
         Taken("exit")' <=> Taken("exit"), Taken("overflow")' <=> Taken("overflow")
  PROVE  /\ Ordered'
         /\ Out("exit")' <=> Out("exit")
         /\ Out("overflow")' <=> Out("overflow")
  BY DEF OrderInv, Ordered, InOrder, Out

\* The steps of start() that leave the queue alone.
LEMMA StartOrder ==
  ASSUME Inv, OrderInv, StartCheck \/ StartProcess \/ StartRunning \/ StartWatch
  PROVE  OrderInv'
  <1>1. /\ UNCHANGED <<queueVars, event, heard, handlers>>
        /\ \E n \in OwnerPcs : pc' = [pc EXCEPT !["owner"] = n]
    BY DEF StartCheck, StartProcess, StartRunning, StartWatch, Move, OwnerPcs
  <1>2. pc'["callback"] = pc["callback"]
    BY <1>1
  <1>3. /\ Ordered' /\ (Out("exit")' <=> Out("exit")) /\ (Out("overflow")' <=> Out("overflow"))
    BY <1>1, <1>2, SameEvents DEF Taken
  <1> HIDE DEF Inv
  <1>4. CASE StartCheck
    <2>1. pc'["owner"] \in {"idle", "start_join"} /\ UNCHANGED <<wpc, watched>>
      BY <1>4 DEF StartCheck, Move, Inv
    <2> QED BY <1>1, <1>2, <1>3, <2>1 DEF OrderInv, QueueLives, ExitLast, OverflowLast, Reported
  <1>5. CASE StartProcess \/ StartRunning
    <2>1. /\ pc["owner"] \in {"start_process", "start_running"}
          /\ pc'["owner"] \in {"start_running", "start_watch"} /\ UNCHANGED <<wpc, watched>>
      BY <1>5 DEF StartProcess, StartRunning, Move, Inv
    <2> QED BY <1>1, <1>2, <1>3, <2>1 DEF OrderInv, QueueLives, ExitLast, OverflowLast, Reported
  <1>6. CASE StartWatch
    <2>1. pc["owner"] = "start_watch" /\ pc'["owner"] = "idle" /\ wpc' = "wait" /\ watched'
      BY <1>6 DEF StartWatch, Move, Inv
    <2> QED BY <1>1, <1>2, <1>3, <2>1 DEF OrderInv, QueueLives, ExitLast, OverflowLast, Reported
  <1> QED BY <1>4, <1>5, <1>6

\* start() asks the old callback thread to end, or a new one that has nothing to report.
LEMMA StartAsksOrder ==
  ASSUME Inv, OrderInv, StartJoin \/ StartProcessFails
  PROVE  OrderInv'
  <1>1. /\ UNCHANGED <<queue, overflowed, event, heard, handlers, watched>>
        /\ pc'["callback"] = pc["callback"] /\ ~accepting'
        /\ pc'["owner"] \in {"start_reset", "fail"} /\ wpc' = None /\ wpc \in {None, "ended"}
    BY DEF StartJoin, StartProcessFails, RequestCallbackStop, Move
  <1>2. /\ Ordered' /\ (Out("exit")' <=> Out("exit")) /\ (Out("overflow")' <=> Out("overflow"))
    BY <1>1, SameEvents DEF Taken
  <1> HIDE DEF Inv
  <1> QED BY <1>1, <1>2 DEF OrderInv, QueueLives, ExitLast, OverflowLast, Reported

\* A new start begins with nothing waiting and nothing told.
LEMMA StartAnewOrder ==
  ASSUME Inv, OrderInv, StartReset \/ StartThread
  PROVE  OrderInv'
  <1>1. CASE StartReset
    <2>1. /\ UNCHANGED <<queueVars, wpc>> /\ heard' = {} /\ handlers' /\ ~watched'
          /\ pc["callback"] = "ended" /\ pc'["callback"] = "ended" /\ wpc = None
          /\ pc'["owner"] = "start_thread"
      BY <1>1 DEF StartReset, Move
    <2>2. queue = <<>> /\ ~accepting
      BY <2>1 DEF OrderInv, QueueLives
    <2> HIDE DEF Inv
    <2>3. ~Out("exit")' /\ ~Out("overflow")' /\ Ordered'
      <3>1. queue' = <<>> /\ ToSet(<<>>) = {}
        BY <2>1, <2>2 DEF ToSet
      <3> QED BY <2>1, <3>1 DEF Out, Taken, Ordered, InOrder
    <2> QED BY <2>1, <2>2, <2>3
        DEF OrderInv, QueueLives, ExitLast, OverflowLast, Reported
  <1>2. CASE StartThread
    <2>1. /\ UNCHANGED <<wpc, heard, watched, handlers>>
          /\ queue' = <<>> /\ accepting' /\ ~stopRequested'
          /\ pc["owner"] = "start_thread" /\ wpc = None
          /\ pc'["callback"] = "wait" /\ pc'["owner"] = "start_process"
      BY <1>2 DEF StartThread
    <2>2. queue = <<>> /\ heard = {} /\ handlers /\ pc["callback"] = "ended"
      BY <2>1 DEF OrderInv, QueueLives
    <2> HIDE DEF Inv
    <2>3. /\ ~Out("exit")' /\ ~Out("overflow")' /\ Ordered' /\ ~Out("exit")
          /\ queue' \in Seq(Kinds)
      <3>1. queue' = <<>> /\ ToSet(<<>>) = {}
        BY <2>1, <2>2 DEF ToSet
      <3>2. queue' \in Seq(Kinds)
        BY <2>1, <2>2 DEF OrderInv, QueueLives
      <3> QED BY <2>1, <2>2, <3>1, <3>2 DEF Out, Taken, Ordered, InOrder
    <2> QED BY <2>1, <2>2, <2>3
        DEF OrderInv, QueueLives, ExitLast, OverflowLast, Reported
  <1> QED BY <1>1, <1>2

\* The handlers are cleared once the callback thread has ended.
LEMMA ClearedOrder ==
  ASSUME Inv, OrderInv, FailStart \/ StopCallback
  PROVE  OrderInv'
  <1>1. /\ UNCHANGED <<queueVars, wpc, heard, watched>>
        /\ pc["callback"] = "ended" /\ pc'["callback"] = "ended"
        /\ pc'["owner"] = "idle"
    BY DEF FailStart, StopCallback, Move
  <1>2. /\ Ordered' /\ (Out("exit")' <=> Out("exit")) /\ (Out("overflow")' <=> Out("overflow"))
    BY <1>1, SameEvents DEF Taken
  <1> HIDE DEF Inv
  <1> QED BY <1>1, <1>2 DEF OrderInv, QueueLives, ExitLast, OverflowLast, Reported
\* No step of stop() loses an event, and the queue is closed only after the exit watcher.
LEMMA StopOrder ==
  ASSUME Inv, OrderInv, NEW t \in Threads, StopRuns(t)
  PROVE  OrderInv'
  <1>1. /\ UNCHANGED <<queue, overflowed, event, heard, handlers, watched>>
        /\ pc[t] \in StopPcs
        /\ \E n \in StopPcs \cup {"wait"} : pc' = [pc EXCEPT ![t] = n]
        /\ wpc' = wpc \/ (wpc \in {None, "ended"} /\ wpc' = None)
    BY DEF StopRuns, StopEnter, StopCloseStdin, StopWait, StopJoin, StopReset, StopRequest,
           Move, RequestCallbackStop, StopPcs
  <1>2. /\ accepting' = accepting /\ stopRequested' = stopRequested
        \/ /\ ~accepting' /\ wpc = None /\ wpc' = None
           /\ pc["owner"] \notin {"start_thread", "start_process", "start_running", "start_watch"}
    BY DEF StopRuns, StopEnter, StopCloseStdin, StopWait, StopJoin, StopReset, StopRequest,
           Move, RequestCallbackStop
  <1>3. /\ pc["callback"] # "dispatch" => pc'["callback"] # "dispatch"
        /\ pc["callback"] = "dispatch" => pc'["callback"] = "dispatch"
        /\ pc["callback"] = "ended" <=> pc'["callback"] = "ended"
        /\ pc'["owner"] = pc["owner"] \/ pc'["owner"] \in StopPcs \cup {"wait"}
    BY <1>1 DEF StopPcs
  <1>4. /\ Ordered' /\ (Out("exit")' <=> Out("exit")) /\ (Out("overflow")' <=> Out("overflow"))
    BY <1>1, <1>3, SameEvents DEF Taken
  <1> HIDE DEF Inv
  <1>5. QueueLives'
    BY <1>1, <1>2, <1>3 DEF OrderInv, QueueLives, StopPcs
  <1> QED BY <1>1, <1>3, <1>4, <1>5 DEF OrderInv, ExitLast, OverflowLast, Reported, StopPcs

\* The callback thread takes the oldest event, and ends only when none is left.
LEMMA TakeOrder ==
  ASSUME Inv, OrderInv, CallbackTake
  PROVE  OrderInv'
  <1>1. /\ UNCHANGED <<accepting, stopRequested, overflowed, heard, handlers, watched, wpc>>
        /\ pc["callback"] = "wait" /\ pc'["owner"] = pc["owner"]
    BY DEF CallbackTake, Move
  <1>2. QueueLives /\ ExitLast /\ OverflowLast /\ Ordered /\ Reported
    BY DEF OrderInv
  <1>3. CASE queue # <<>> /\ event' = Head(queue) /\ queue' = Tail(queue) /\ Move("callback", "dispatch")
    <2>1. pc'["callback"] = "dispatch"
      BY <1>3 DEF Move
    <2> HIDE DEF Inv
    <2>2. /\ queue' \in Seq(Kinds) /\ InOrder(queue')
          /\ ToSet(queue) = {event'} \cup ToSet(queue')
          /\ event' = "exit" => ToSet(queue') \cap Streams = {}
          /\ event' = "overflow" => ToSet(queue') \subseteq {"exit"}
      BY <1>2, <1>3, TailInOrder DEF QueueLives, Ordered
    <2>3. /\ Out("exit")' <=> Out("exit")
          /\ Out("overflow")' <=> Out("overflow")
      BY <1>1, <2>1, <2>2 DEF Out, Taken
    <2>4. Ordered'
      BY <1>1, <1>2, <2>1, <2>2 DEF Ordered, Taken
    <2>5. QueueLives'
      BY <1>1, <1>2, <2>1, <2>2 DEF QueueLives
    <2> QED BY <1>1, <1>2, <2>3, <2>4, <2>5 DEF OrderInv, ExitLast, OverflowLast, Reported
  <1>4. CASE queue = <<>> /\ stopRequested /\ Move("callback", "ended") /\ UNCHANGED <<event, queue>>
    <2>1. pc'["callback"] = "ended" /\ UNCHANGED queue
      BY <1>4 DEF Move
    <2>2. /\ Ordered' /\ (Out("exit")' <=> Out("exit")) /\ (Out("overflow")' <=> Out("overflow"))
      BY <1>1, <2>1, SameEvents DEF Taken
    <2> HIDE DEF Inv
    <2>3. QueueLives'
      BY <1>1, <1>2, <1>4, <2>1 DEF QueueLives
    <2> QED BY <1>1, <1>2, <2>2, <2>3 DEF OrderInv, ExitLast, OverflowLast, Reported
  <1> QED BY <1>3, <1>4 DEF CallbackTake

\* The handler of an event that was taken is there to be called.
LEMMA DispatchOrder ==
  ASSUME Inv, OrderInv, CallbackDispatch
  PROVE  OrderInv'
  <1>1. /\ UNCHANGED <<queueVars, event, handlers, watched, wpc>>
        /\ pc["callback"] = "dispatch" /\ pc'["owner"] = pc["owner"]
        /\ pc'["callback"] \in {"handler", "wait"}
    BY DEF CallbackDispatch, Move
  <1>2. QueueLives /\ ExitLast /\ OverflowLast /\ Ordered /\ Reported
    BY DEF OrderInv
  <1> HIDE DEF Inv
  <1>3. heard' = heard \cup ({event} \cap {"exit", "overflow"})
    BY <1>1, <1>2 DEF CallbackDispatch, QueueLives
  <1>4. /\ Out("exit")' <=> Out("exit")
        /\ Out("overflow")' <=> Out("overflow")
    BY <1>1, <1>3 DEF Out, Taken
  <1>5. Ordered'
    BY <1>1, <1>2, <1>3 DEF Ordered, Taken, InOrder
  <1>6. QueueLives'
    BY <1>1, <1>2 DEF QueueLives
  <1> QED BY <1>1, <1>2, <1>4, <1>5, <1>6 DEF OrderInv, ExitLast, OverflowLast, Reported

\* A handler returns or calls stop(), and the owner calls start() or stop().
LEMMA CallsOrder ==
  ASSUME Inv, OrderInv,
         HandlerReturns \/ HandlerStops \/ OwnerCalls("stop") \/ OwnerCalls("start")
  PROVE  OrderInv'
  <1>1. /\ UNCHANGED <<queueVars, heard, handlers, watched, wpc>>
        /\ pc'["owner"] \in {pc["owner"], "stop", "start"}
        /\ \/ UNCHANGED event /\ pc'["callback"] = pc["callback"]
           \/ pc["callback"] = "handler" /\ pc'["callback"] \in {"wait", "stop"}
    BY DEF HandlerReturns, HandlerStops, OwnerCalls, Move
  <1>2. /\ Ordered' /\ (Out("exit")' <=> Out("exit")) /\ (Out("overflow")' <=> Out("overflow"))
    BY <1>1, SameEvents DEF Taken
  <1> HIDE DEF Inv
  <1>3. QueueLives'
    BY <1>1 DEF OrderInv, QueueLives
  <1> QED BY <1>1, <1>2, <1>3 DEF OrderInv, ExitLast, OverflowLast, Reported

\* Steps of the senders, the readers, the watcher and the worker that report nothing.
LEMMA ElsewhereOrder ==
  ASSUME OrderInv,
         UNCHANGED <<queueVars, event, heard, handlers, watched, pc>>,
         wpc' = wpc \/ (wpc = "wait" /\ wpc' = "report")
  PROVE  OrderInv'
  <1>1. /\ Ordered' /\ (Out("exit")' <=> Out("exit")) /\ (Out("overflow")' <=> Out("overflow"))
    BY SameEvents DEF Taken
  <1>2. QueueLives'
    BY DEF OrderInv, QueueLives
  <1> QED BY <1>1, <1>2 DEF OrderInv, ExitLast, OverflowLast, Reported

\* A report on whichever thread, and the watcher's last step.
LEMMA ReportOrder ==
  ASSUME Inv, OrderInv, NEW e \in Kinds \ {"overflow"}, NEW big, Enqueue(e, big),
         UNCHANGED <<event, heard, handlers, watched, pc>>,
         \/ e \notin Streams /\ e # "exit" /\ wpc' = wpc
         \/ e \in Streams /\ ~Out("exit") /\ wpc' = wpc
         \/ e = "exit" /\ wpc = "report" /\ wpc' = "ended"
  PROVE  OrderInv'
  <1>1. QueueLives /\ ExitLast /\ OverflowLast /\ Ordered /\ Reported
    BY DEF OrderInv
  <1>2. /\ queue' \in Seq(Kinds) /\ Ordered'
        /\ UNCHANGED <<accepting, stopRequested>>
        /\ ~accepting => queue' = queue
        /\ ToSet(queue) \subseteq ToSet(queue')
        /\ ToSet(queue') \subseteq ToSet(queue) \cup {e, "overflow"}
        /\ Out("overflow")' => overflowed'
        /\ accepting /\ e = "exit" => "exit" \in ToSet(queue')
    <2>1. e \in Streams => ~Out("exit")
      BY KindsDiffer
    <2> QED BY <2>1, EnqueueOrder
  <1>3. QueueLives'
    BY <1>1, <1>2 DEF QueueLives
  <1>4. /\ Out("exit") => Out("exit")'
        /\ Out("exit")' => Out("exit") \/ e = "exit"
        /\ ~accepting => (Out("overflow")' => Out("overflow"))
    BY <1>2 DEF Out, Taken
  <1>5. wpc = "report" => pc["owner"] \notin {"start_thread", "start_process", "start_running",
                                             "start_watch"}
    OBVIOUS
  <1> HIDE DEF Inv
  <1>6. ExitLast'
    BY <1>1, <1>4, <1>5, KindsDiffer DEF ExitLast
  <1>7. OverflowLast'
    BY <1>1, <1>2, <1>4 DEF OverflowLast, QueueLives
  <1>8. Reported'
    BY <1>1, <1>2, <1>4 DEF Reported, QueueLives, Out
  <1> QED BY <1>2, <1>3, <1>6, <1>7, <1>8 DEF OrderInv

\* Every step of send() keeps the order.
LEMMA SendOrder ==
  ASSUME Inv, OrderInv, NEW t \in Senders,
         SendRuns(t) \/ SendCall(t) \/ SendWritten(t) \/ SendWriteFails(t)
  PROVE  OrderInv'
  <1>1. UNCHANGED <<event, heard, handlers, watched, pc, wpc>>
    BY DEF SendRuns, SendCall, SendLock, SendCheck, SendWritten, SendWriteFails, SendReport,
           SendOverflow, StopAfterOverflow
  <1>2. UNCHANGED queueVars \/ Enqueue("error", FALSE)
    BY DEF SendRuns, SendCall, SendLock, SendCheck, SendWritten, SendWriteFails, SendReport,
           SendOverflow
  <1>3. CASE UNCHANGED queueVars
    BY <1>1, <1>3, ElsewhereOrder
  <1>4. CASE Enqueue("error", FALSE)
    BY <1>1, <1>4, ReportOrder, KindsDiffer
  <1> QED BY <1>2, <1>3, <1>4

\* Every step of a reader keeps the order: it reads only while the watcher waits for it.
LEMMA ReaderOrder ==
  ASSUME Inv, OrderInv, NEW s \in Streams, ReaderRuns(s) \/ ReaderReads(s)
  PROVE  OrderInv'
  <1>1. UNCHANGED <<event, heard, handlers, watched, pc, wpc>>
    BY DEF ReaderRuns, ReaderReads, ReaderOverflow, ReaderEnds, StopAfterOverflow
  <1>2. CASE ReaderRuns(s)
    <2>1. UNCHANGED queueVars
      BY <1>2 DEF ReaderRuns, ReaderOverflow, ReaderEnds
    <2> QED BY <1>1, <2>1, ElsewhereOrder
  <1>3. CASE ReaderReads(s)
    <2>1. PICK big \in BOOLEAN : Enqueue(s, big)
      BY <1>3 DEF ReaderReads
    <2>2. wpc = "wait" \/ pc["owner"] \in {"start_running", "start_watch"}
      BY <1>3 DEF ReaderReads
    <2>3. ~Out("exit")
      BY <2>2 DEF OrderInv, ExitLast
    <2> QED BY <1>1, <2>1, <2>3, ReportOrder, KindsDiffer
  <1> QED BY <1>2, <1>3

\* The watcher reports the exit once the readers are gone.
LEMMA WatcherOrder ==
  ASSUME Inv, OrderInv, WatcherExit \/ WatcherReports \/ ProcessEnds
  PROVE  OrderInv'
  <1>1. UNCHANGED <<event, heard, handlers, watched, pc>>
    BY DEF WatcherExit, WatcherReports, ProcessEnds
  <1>2. CASE WatcherExit \/ ProcessEnds
    <2>1. UNCHANGED queueVars /\ (wpc' = wpc \/ (wpc = "wait" /\ wpc' = "report"))
      BY <1>2 DEF WatcherExit, ProcessEnds
    <2> QED BY <1>1, <2>1, ElsewhereOrder
  <1>3. CASE WatcherReports
    <2>1. Enqueue("exit", FALSE) /\ wpc = "report" /\ wpc' = "ended"
      BY <1>3 DEF WatcherReports
    <2> QED BY <1>1, <2>1, ReportOrder, KindsDiffer
  <1> QED BY <1>2, <1>3

\* Every step of the specification keeps the order.
LEMMA NextOrder == Inv /\ OrderInv /\ [Next]_vars => OrderInv'
  <1> SUFFICES ASSUME Inv, OrderInv, [Next]_vars PROVE OrderInv'
    OBVIOUS
  <1> HIDE DEF Inv
  <1>1. CASE OwnerRuns
    BY <1>1, StartOrder, StartAsksOrder, StartAnewOrder, ClearedOrder, StopOrder DEF OwnerRuns
  <1>2. CASE OwnerCalls("stop") \/ OwnerCalls("start") \/ HandlerStops
    BY <1>2, CallsOrder
  <1>3. CASE CallbackRuns
    BY <1>3, TakeOrder, DispatchOrder, CallsOrder, StopOrder DEF CallbackRuns
  <1>4. CASE \E t \in Senders : SendRuns(t) \/ SendCall(t) \/ SendWritten(t) \/ SendWriteFails(t)
    BY <1>4, SendOrder
  <1>5. CASE \E s \in Streams : ReaderRuns(s) \/ ReaderReads(s)
    BY <1>5, ReaderOrder
  <1>6. CASE WatcherRuns \/ ProcessEnds
    BY <1>6, WatcherOrder DEF WatcherRuns
  <1>7. CASE UNCHANGED vars
    BY <1>7, ElsewhereOrder DEF vars
  <1> QED BY <1>1, <1>2, <1>3, <1>4, <1>5, <1>6, <1>7 DEF Next

\* No output of the worker is delivered after its exit, nothing but the exit after the
\* overflow diagnostic, and an owner whose stop() returned was told of the exit of the
\* process it had started, although the queue was closed and joined meanwhile.
THEOREM ToldInOrder == Spec => []CallbackOrder
  <1>1. Init => OrderInv
    <2> SUFFICES ASSUME Init PROVE OrderInv
      OBVIOUS
    <2>1. /\ queue = <<>> /\ ToSet(<<>>) = {} /\ heard = {} /\ wpc = None /\ ~watched
          /\ ~accepting /\ pc["callback"] = "ended" /\ pc["owner"] = "idle"
      BY DEF Init, ToSet
    <2>2. queue \in Seq(Kinds)
      BY <2>1
    <2> QED BY <2>1, <2>2
        DEF OrderInv, QueueLives, ExitLast, OverflowLast, Ordered, InOrder, Reported, Out, Taken
  <1>2. Inv /\ OrderInv => CallbackOrder
    <2> SUFFICES ASSUME Inv, OrderInv PROVE CallbackOrder
      OBVIOUS
    <2>1. ASSUME quiet, watched PROVE "exit" \in heard
      <3>1. pc["callback"] = "ended" /\ wpc = None
        BY <2>1
      <3>2. Out("exit") /\ queue = <<>>
        BY <2>1, <3>1 DEF OrderInv, Reported, QueueLives
      <3>3. ToSet(<<>>) = {}
        BY DEF ToSet
      <3> QED BY <3>1, <3>2, <3>3 DEF Out, Taken
    <2> HIDE DEF Inv
    <2> QED BY <2>1 DEF CallbackOrder, OrderInv, Ordered, InOrder
  <1> HIDE DEF Inv
  <1> QED BY InitInv, NextInv, NextOrder, <1>1, <1>2, PTL DEF Spec
=============================================================================
