------------------------- MODULE NativeWorkerProofs -------------------------
(***************************************************************************)
(* Proofs about the native worker, for every number of request ids, every  *)
(* admission limit, every output queue capacity and every set of inputs    *)
(* and faults.                                                             *)
(***************************************************************************)
EXTENDS NativeWorker, QtbFramesProofs

(***************************************************************************)
(* The strengthening.  A thread that is handing over frames has one, and   *)
(* does not come back to that point; accepted ids never exceed the         *)
(* high-water mark, which is why a new one cannot be in the table.         *)
(***************************************************************************)
HandOver ==
  /\ rpc = "send" => rout # <<>>
  /\ rnext # "send"
  /\ enext \in {"synthesize", "chunk_sent", "take", "done"}

IdsBelowHighWater == Accepted \subseteq 1..highWater

Table == TableTypeOK /\ SlotAccounting /\ IdsBelowHighWater

Control ==
  /\ ReaderTypeOK /\ EngineTypeOK /\ FlagTypeOK /\ WriterTypeOK /\ HistTypeOK
  /\ HandOver

Inv == Control /\ Table

-----------------------------------------------------------------------------
(* Lemmas about the parts of actions                                       *)

\* The placeholder of an engine thread that hands over nothing is a frame.
LEMMA NoFrameType == NoFrame \in OutFrame
  <1>1. 0 \in 0..MaxId
    BY MaxIdAssumption
  <1> QED BY <1>1, FrameType DEF NoFrame, SessionKinds

\* Handing a frame to OutputWriter::send keeps the queue within max_frames_.
LEMMA AcceptType ==
  ASSUME WriterTypeOK, HistTypeOK, NEW f \in OutFrame, Accept(f)
  PROVE  WriterTypeOK' /\ HistTypeOK'
  <1>1. WriterTypeOK'
    BY NativeAssumption DEF WriterTypeOK, Accept
  <1>2. acked' \in BOOLEAN
    BY DEF HistTypeOK, Accept
  <1>3. trail' \in Trails
    BY RecordType DEF HistTypeOK, Trails, Accept
  <1> QED BY <1>1, <1>2, <1>3 DEF HistTypeOK, Trails

\* A step that leaves the table and the engine thread alone, but for the cancelled flags.
LEMMA TableKept ==
  ASSUME Table, UNCHANGED <<pending, active, admitted, highWater, terminal>>,
         cancelled' \subseteq Ids, Running' = Running
  PROVE  Table'
  <1>1. TableTypeOK'
    BY DEF Table, TableTypeOK
  <1>2. SlotAccounting'
    BY DEF Table, SlotAccounting
  <1>3. IdsBelowHighWater'
    BY DEF Table, IdsBelowHighWater, Accepted
  <1> QED BY <1>1, <1>2, <1>3 DEF Table

\* fail_fatal changes nothing but fatal_error_ and the cancelled flags.
LEMMA FailFatalKeeps ==
  ASSUME Table, FlagTypeOK, FailFatal, Running' = Running
  PROVE  Table' /\ FlagTypeOK'
  <1>1. cancelled' \subseteq Ids
    BY DEF FailFatal, Table, TableTypeOK
  <1>2. Table'
    BY <1>1, TableKept DEF FailFatal
  <1>3. FlagTypeOK'
    BY DEF FailFatal, FlagTypeOK
  <1> QED BY <1>2, <1>3

\* Running depends on the engine thread alone.
LEMMA RunningKept == UNCHANGED engineVars => Running' = Running
  BY DEF engineVars, Running, EngineBusy

\* A handler leaves the reader with frames to hand over or past them, and the engine
\* thread, the writer and the history alone.
LEMMA ReplyKeeps ==
  ASSUME Control, FlagTypeOK', NEW fs \in Seq(OutFrame), NEW next \in ReaderPcs \ {"send"},
         Reply(fs, next)
  PROVE  Control' /\ Running' = Running
  <1>1. UNCHANGED <<engineVars, writerVars, histVars>>
    BY DEF Reply
  <1>2. ReaderTypeOK' /\ (rpc' = "send" => rout' # <<>>) /\ rnext' # "send"
    BY DEF Reply, ReaderTypeOK, ReaderPcs
  <1>3. EngineTypeOK' /\ enext' = enext
    BY <1>1 DEF engineVars, EngineTypeOK, Control
  <1>4. WriterTypeOK' /\ HistTypeOK'
    BY <1>1 DEF writerVars, histVars, WriterTypeOK, HistTypeOK, Control
  <1> QED BY <1>1, <1>2, <1>3, <1>4, RunningKept DEF Control, HandOver

\* No frame at all, or one frame, is a sequence of frames.
LEMMA ShortReplies ==
  /\ <<>> \in Seq(OutFrame)
  /\ \A f \in OutFrame : <<f>> \in Seq(OutFrame)
  OBVIOUS

\* Ids are finitely many, so active_ has a size.
LEMMA ActiveFinite ==
  ASSUME TableTypeOK
  PROVE  IsFiniteSet(active) /\ Cardinality(active) \in Nat
  <1>1. IsFiniteSet(Ids)
    BY MaxIdAssumption, FS_Interval DEF Ids
  <1> QED BY <1>1, FS_Subset, FS_CardinalityType DEF TableTypeOK

-----------------------------------------------------------------------------
(* The reader thread preserves the invariant                               *)

\* A handler that answers with at most one frame and leaves the table alone.
LEMMA AnswerOnly ==
  ASSUME Inv, NEW fs \in Seq(OutFrame), Reply(fs, "parse"),
         UNCHANGED tableVars, FlagTypeOK'
  PROVE  Inv'
  <1>1. Control' /\ Running' = Running
    BY ReplyKeeps DEF Inv, ReaderPcs
  <1>2. Table'
    BY <1>1, TableKept DEF Inv, tableVars, Table, TableTypeOK
  <1> QED BY <1>1, <1>2 DEF Inv

\* The handlers that admit, end or flag no request.
LEMMA PlainHandlers ==
  ASSUME Inv, NEW f \in Inputs,
         \/ HandleInvalid(f) \/ HandleHello(f) \/ HandlePing(f)
         \/ RejectSynthesize(f) \/ CancelInactive(f)
  PROVE  Inv'
  <1> USE DEF Inv, Control
  <1>1. f.id \in 0..MaxId
    BY NativeAssumption DEF ClientFrame
  <1>2. <<Frame("reject", f.id)>> \in Seq(OutFrame)
    BY <1>1, FrameType, ShortReplies DEF SessionKinds
  <1>3. CASE HandleInvalid(f)
    BY <1>3, <1>2, AnswerOnly DEF HandleInvalid, FlagTypeOK, flagVars
  <1>4. CASE HandleHello(f)
    <2>1. <<Frame("ready", 0)>> \in Seq(OutFrame)
      BY MaxIdAssumption, FrameType, ShortReplies DEF SessionKinds
    <2> QED BY <1>4, <2>1, AnswerOnly DEF HandleHello, FlagTypeOK
  <1>5. CASE HandlePing(f)
    <2>1. <<Frame("pong", 0)>> \in Seq(OutFrame)
      BY MaxIdAssumption, FrameType, ShortReplies DEF SessionKinds
    <2> QED BY <1>5, <2>1, AnswerOnly DEF HandlePing, FlagTypeOK, flagVars
  <1>6. CASE RejectSynthesize(f)
    BY <1>6, <1>2, AnswerOnly DEF RejectSynthesize, FlagTypeOK, flagVars
  <1>7. CASE CancelInactive(f)
    <2> DEFINE fs == IF f.id = 0 \/ f.id > highWater THEN <<Frame("reject", f.id)>> ELSE <<>>
    <2>1. fs \in Seq(OutFrame)
      BY <1>2, ShortReplies
    <2>2. Reply(fs, "parse") /\ UNCHANGED tableVars /\ FlagTypeOK'
      BY <1>7 DEF CancelInactive, FlagTypeOK, flagVars
    <2> QED BY <2>1, <2>2, AnswerOnly
  <1> QED BY <1>3, <1>4, <1>5, <1>6, <1>7

\* handle_synthesize takes one slot for an id that no table entry can have.
LEMMA AdmitPreserves ==
  ASSUME Inv, NEW f \in Inputs, AdmitSynthesize(f)
  PROVE  Inv'
  <1> DEFINE r == f.id
  <1> USE DEF Inv
  <1>1. r \in Ids /\ r \notin active /\ r > highWater /\ highWater \in 0..MaxId
    BY NativeAssumption DEF AdmitSynthesize, Duplicate, ClientFrame, Ids, Table, TableTypeOK
  <1>2. /\ highWater' = r /\ admitted' = admitted + 1 /\ active' = active \cup {r}
        /\ pending' = Append(pending, r) /\ cancelled' = cancelled /\ terminal' = terminal
        /\ admitted < MaxAdmitted
        /\ UNCHANGED flagVars /\ Reply(<<Frame("queued", r)>>, "parse")
    BY DEF AdmitSynthesize
  <1>3. Control' /\ Running' = Running
    <2>1. <<Frame("queued", r)>> \in Seq(OutFrame)
      BY <1>1, FrameType, ShortReplies DEF LifecycleKinds, Ids
    <2>2. FlagTypeOK'
      BY <1>2 DEF flagVars, FlagTypeOK, Control
    <2> QED BY <1>2, <2>1, <2>2, ReplyKeeps DEF ReaderPcs
  <1>4. /\ pending' \in Seq(Ids) /\ IsInjective(pending')
        /\ ToSet(pending') = ToSet(pending) \cup {r}
    <2>1. r \notin ToSet(pending)
      BY <1>1 DEF Table, SlotAccounting
    <2> QED BY <1>1, <1>2, <2>1, EntriesOfAppend DEF Table, TableTypeOK, SlotAccounting
  <1> HIDE DEF r
  <1>5. Cardinality(active') = admitted + 1
    BY <1>1, <1>2, ActiveFinite, FS_AddElement DEF Table, SlotAccounting
  <1>6. TableTypeOK'
    BY <1>1, <1>2, <1>4 DEF Table, TableTypeOK, Ids
  <1>7. IdsBelowHighWater'
    BY <1>1, <1>2 DEF Table, IdsBelowHighWater, Accepted, Ids
  <1>8. active' \cap terminal' = {}
    BY <1>1, <1>2 DEF Table, SlotAccounting, IdsBelowHighWater, Accepted
  <1>9. SlotAccounting'
    <2>1. admitted' <= MaxAdmitted
      BY <1>2, NativeAssumption DEF Table, TableTypeOK
    <2>2. active' = ToSet(pending') \cup Running' /\ Running' \cap ToSet(pending') = {}
      BY <1>1, <1>2, <1>3, <1>4 DEF Table, SlotAccounting
    <2> QED BY <1>2, <1>4, <1>5, <1>8, <2>1, <2>2 DEF SlotAccounting
  <1> QED BY <1>3, <1>6, <1>7, <1>9 DEF Table

\* cancel of a waiting request takes it out of the queue and gives its slot back.
LEMMA CancelQueuedPreserves ==
  ASSUME Inv, NEW f \in Inputs, CancelQueued(f)
  PROVE  Inv'
  <1> DEFINE r == f.id
  <1> USE DEF Inv
  <1>1. r \in active /\ r \in Ids /\ r \notin terminal
    BY DEF CancelQueued, Table, TableTypeOK, SlotAccounting
  <1>2. /\ cancelled' = cancelled \cup {r} /\ terminal' = terminal \cup {r}
        /\ active' = active \ {r} /\ admitted' = admitted - 1
        /\ highWater' = highWater
        /\ UNCHANGED flagVars /\ Reply(<<Frame("cancelled", r)>>, "parse")
    BY <1>1 DEF CancelQueued
  <1>3. PICK i \in DOMAIN pending : pending[i] = r /\ pending' = RemoveAt(pending, i)
    BY DEF CancelQueued
  <1>4. Control' /\ Running' = Running
    <2>1. <<Frame("cancelled", r)>> \in Seq(OutFrame)
      BY <1>1, FrameType, ShortReplies DEF LifecycleKinds, Terminals, Ids
    <2>2. FlagTypeOK'
      BY <1>2 DEF flagVars, FlagTypeOK, Control
    <2> QED BY <1>2, <2>1, <2>2, ReplyKeeps DEF ReaderPcs
  <1>5. /\ pending' \in Seq(Ids) /\ IsInjective(pending')
        /\ ToSet(pending') = ToSet(pending) \ {r} /\ r \in ToSet(pending)
    <2>1. i \in 1..Len(pending)
      BY <1>3, LenProperties DEF Table, TableTypeOK
    <2> QED BY <1>3, <2>1, EntriesOfRemoveAt, EntriesInSet
            DEF Table, TableTypeOK, SlotAccounting
  <1> HIDE DEF r
  <1>6. Cardinality(active') = admitted - 1 /\ admitted - 1 \in Nat
    <2>1. IsFiniteSet(active) /\ IsFiniteSet(active \ {r})
          /\ Cardinality(active \ {r}) = Cardinality(active) - 1
      BY <1>1, ActiveFinite, FS_RemoveElement DEF Table
    <2>2. Cardinality(active \ {r}) \in Nat
      BY <2>1, FS_CardinalityType
    <2> QED BY <1>2, <2>1, <2>2 DEF Table, SlotAccounting
  <1>7. TableTypeOK'
    BY <1>1, <1>2, <1>5, <1>6 DEF Table, TableTypeOK
  <1>8. IdsBelowHighWater'
    BY <1>1, <1>2 DEF Table, IdsBelowHighWater, Accepted
  <1>9. SlotAccounting'
    <2>1. admitted' <= MaxAdmitted
      <3>1. admitted \in Nat /\ admitted <= MaxAdmitted /\ MaxAdmitted \in Nat
        BY NativeAssumption DEF Table, TableTypeOK, SlotAccounting
      <3> QED BY <1>2, <3>1
    <2>2. active' = ToSet(pending') \cup Running' /\ Running' \cap ToSet(pending') = {}
          /\ active' \cap terminal' = {}
      BY <1>2, <1>4, <1>5 DEF Table, SlotAccounting
    <2> QED BY <1>2, <1>5, <1>6, <2>1, <2>2 DEF SlotAccounting
  <1> QED BY <1>4, <1>7, <1>8, <1>9 DEF Table

\* cancel of the running request only sets its flag.
LEMMA CancelRunningPreserves ==
  ASSUME Inv, NEW f \in Inputs, CancelRunning(f)
  PROVE  Inv'
  <1> USE DEF Inv
  <1>1. /\ Reply(<<>>, "parse") /\ UNCHANGED flagVars
        /\ UNCHANGED <<pending, active, admitted, highWater, terminal>>
        /\ cancelled' \subseteq Ids
    BY DEF CancelRunning, Table, TableTypeOK
  <1>2. FlagTypeOK'
    BY <1>1 DEF flagVars, FlagTypeOK, Control
  <1>3. Control' /\ Running' = Running
    BY <1>1, <1>2, ReplyKeeps, ShortReplies DEF ReaderPcs
  <1> QED BY <1>1, <1>3, TableKept

\* request_shutdown ends every waiting request: the table keeps the running one.
LEMMA DrainPreserves ==
  ASSUME Inv, NEW ack \in BOOLEAN, DrainPending(ack)
  PROVE  Inv'
  <1> DEFINE frames == [i \in 1..Len(pending) |-> Frame("cancelled", pending[i])]
  <1> USE DEF Inv
  <1>1. /\ pending \in Seq(Ids) /\ ToSet(pending) \subseteq Ids
        /\ ToSet(pending) \subseteq active /\ ToSet(pending) \cap terminal = {}
    BY EntriesInSet DEF Table, TableTypeOK, SlotAccounting
  <1>2. Keep(pending, Ids \ terminal) = pending
    BY <1>1 DEF Keep
  <1>3. /\ pending' = <<>> /\ terminal' = terminal \cup ToSet(pending)
        /\ active' = active \ ToSet(pending) /\ admitted' = admitted - Len(pending)
        /\ cancelled' = cancelled \cup ToSet(pending) \cup active
        /\ highWater' = highWater
        /\ Reply(frames, "enqueued")
    BY <1>2 DEF DrainPending
  <1>4. FlagTypeOK'
    BY DEF DrainPending, FlagTypeOK, Control
  <1>5. frames \in Seq(OutFrame)
    <2>1. Len(pending) \in Nat /\ \A i \in 1..Len(pending) : pending[i] \in Ids
      BY <1>1, LenProperties, ElementOfSeq
    <2>2. \A i \in 1..Len(pending) : Frame("cancelled", pending[i]) \in OutFrame
      BY <2>1, FrameType DEF LifecycleKinds, Terminals, Ids
    <2> QED BY <2>1, <2>2
  <1>6. Control' /\ Running' = Running
    <2> HIDE DEF frames
    <2> QED BY <1>3, <1>4, <1>5, ReplyKeeps DEF ReaderPcs
  <1>7. Cardinality(active') = admitted - Len(pending) /\ Cardinality(active') \in Nat
    <2>1. IsFiniteSet(active) /\ Cardinality(active) = admitted
      BY ActiveFinite DEF Table, SlotAccounting
    <2>2. active \cap ToSet(pending) = ToSet(pending)
      BY <1>1
    <2>3. Cardinality(ToSet(pending)) = Len(pending)
      BY <1>1, CountOfEntries DEF Table, SlotAccounting
    <2>4. IsFiniteSet(active')
      BY <2>1, <1>3, FS_Difference
    <2>5. Cardinality(active \ ToSet(pending))
            = Cardinality(active) - Cardinality(active \cap ToSet(pending))
      BY <2>1, FS_Difference
    <2>6. Cardinality(active') = admitted - Len(pending)
      BY <1>3, <2>1, <2>2, <2>3, <2>5
    <2> QED BY <2>4, <2>6, FS_CardinalityType
  <1>8. TableTypeOK'
    BY <1>1, <1>3, <1>7 DEF Table, TableTypeOK
  <1>9. IdsBelowHighWater'
    BY <1>1, <1>3 DEF Table, IdsBelowHighWater, Accepted
  <1>10. SlotAccounting'
    <2>1. admitted' <= MaxAdmitted
      <3>1. Len(pending) \in Nat
        BY <1>1, LenProperties
      <3>2. admitted \in Nat /\ admitted <= MaxAdmitted /\ MaxAdmitted \in Nat
        BY NativeAssumption DEF Table, TableTypeOK, SlotAccounting
      <3> QED BY <1>3, <3>1, <3>2
    <2>2. active' = Running'
      BY <1>3, <1>6 DEF Table, SlotAccounting
    <2>3. active' \cap terminal' = {}
      BY <1>3 DEF Table, SlotAccounting
    <2> QED BY <1>3, <1>7, <2>1, <2>2, <2>3, EntriesOfEmpty DEF SlotAccounting
  <1> QED BY <1>6, <1>8, <1>9, <1>10 DEF Table

\* Every handler preserves the invariant.
LEMMA HandlePreserves ==
  ASSUME Inv, NEW f \in Inputs, Handle(f)
  PROVE  Inv'
  <1>1. CASE HandleShutdown(f)
    BY <1>1, DrainPreserves DEF HandleShutdown
  <1> QED BY <1>1, PlainHandlers, AdmitPreserves, CancelQueuedPreserves,
             CancelRunningPreserves DEF Handle

\* A step of the reader that only moves it on, away from a hand-over.
LEMMA GotoPreserves ==
  ASSUME Inv, NEW pc \in ReaderPcs \ {"send"}, Goto(pc),
         UNCHANGED <<engineVars, tableVars, histVars>>, FlagTypeOK', WriterTypeOK'
  PROVE  Inv'
  <1> USE DEF Inv
  <1>1. ReaderTypeOK' /\ (rpc' = "send" => rout' # <<>>) /\ rnext' # "send"
    BY DEF Goto, ReaderTypeOK, Control, HandOver
  <1>2. EngineTypeOK' /\ HistTypeOK' /\ enext' = enext
    BY DEF engineVars, histVars, EngineTypeOK, HistTypeOK, Control
  <1>3. Table'
    BY RunningKept, TableKept DEF tableVars, Table, TableTypeOK
  <1> QED BY <1>1, <1>2, <1>3 DEF Control, HandOver

\* The reader hands over the frames of its handler one at a time.
LEMMA ReaderSendPreserves ==
  ASSUME Inv, ReaderSend
  PROVE  Inv'
  <1> USE DEF Inv
  <1>1. rout \in Seq(OutFrame) /\ rout # <<>> /\ UNCHANGED engineVars
    BY DEF ReaderSend, Control, HandOver, ReaderTypeOK
  <1>2. /\ Head(rout) \in OutFrame /\ rout' \in Seq(OutFrame)
        /\ (Len(rout) # 1 => rout' # <<>>)
    <2>1. /\ Head(rout) \in OutFrame /\ Tail(rout) \in Seq(OutFrame)
          /\ Len(Tail(rout)) = Len(rout) - 1 /\ Len(rout) \in Nat \ {0}
      BY <1>1, HeadTailProperties, EmptySeq
    <2>2. Tail(rout) = <<>> => Len(rout) = 1
      BY <2>1
    <2> QED BY <2>1, <2>2 DEF ReaderSend
  <1>3. /\ ReaderTypeOK' /\ (rpc' = "send" => rout' # <<>>) /\ rnext' # "send"
    BY <1>2 DEF ReaderSend, ReaderTypeOK, ReaderPcs, Control, HandOver
  <1>4. WriterTypeOK' /\ HistTypeOK' /\ FlagTypeOK' /\ Table'
    <2>1. CASE Accept(Head(rout)) /\ UNCHANGED <<tableVars, flagVars>>
      <3>1. WriterTypeOK' /\ HistTypeOK'
        BY <2>1, <1>2, AcceptType DEF Control
      <3>2. Table'
        BY <2>1, <1>1, RunningKept, TableKept DEF tableVars, Table, TableTypeOK
      <3> QED BY <2>1, <3>1, <3>2 DEF flagVars, FlagTypeOK, Control
    <2>2. CASE Refused
      <3>1. WriterTypeOK' /\ HistTypeOK'
        BY <2>2 DEF Refused, writerVars, histVars, WriterTypeOK, HistTypeOK, Control
      <3> QED BY <2>2, <3>1, <1>1, RunningKept, FailFatalKeeps DEF Refused, Control
    <2> QED BY <2>1, <2>2 DEF ReaderSend
  <1>5. EngineTypeOK' /\ enext' = enext
    BY <1>1 DEF engineVars, EngineTypeOK, Control
  <1> QED BY <1>3, <1>4, <1>5 DEF Control, HandOver

\* Every step of the reader thread preserves the invariant.
LEMMA ReaderPreserves ==
  ASSUME Inv, ReaderRun \/ ReaderInput
  PROVE  Inv'
  <1> USE DEF Inv, ReaderPcs
  <1>1. UNCHANGED <<flagVars, writerVars>> => FlagTypeOK' /\ WriterTypeOK'
    BY DEF Control, FlagTypeOK, flagVars, WriterTypeOK, writerVars
  <1>2. CASE ReaderCheck
    BY <1>2, <1>1, GotoPreserves DEF ReaderCheck
  <1>3. CASE ReaderNeedMoreData
    BY <1>3, <1>1, GotoPreserves DEF ReaderNeedMoreData
  <1>4. CASE ReaderSend
    BY <1>4, ReaderSendPreserves
  <1>5. CASE ReaderClose
    <2>1. CASE shutdown
      BY <1>5, <2>1, <1>1, ReplyKeeps, ShortReplies, TableKept
      DEF ReaderClose, tableVars, Table, TableTypeOK, Reply
    <2>2. CASE ~shutdown
      BY <1>5, <2>2, DrainPreserves DEF ReaderClose
    <2> QED BY <2>1, <2>2
  <1>6. CASE ReaderEnqueued
    <2>1. FlagTypeOK' /\ WriterTypeOK'
      BY <1>6 DEF ReaderEnqueued, Control, FlagTypeOK, WriterTypeOK, writerVars
    <2> QED BY <1>6, <2>1, GotoPreserves DEF ReaderEnqueued
  <1>7. CASE ReaderJoin
    <2>1. FlagTypeOK' /\ WriterTypeOK'
      BY <1>7 DEF ReaderJoin, Control, FlagTypeOK, flagVars, WriterTypeOK
    <2> QED BY <1>7, <2>1, GotoPreserves DEF ReaderJoin
  <1>8. CASE ReaderExit
    BY <1>8, <1>1, GotoPreserves DEF ReaderExit
  <1>9. CASE ReaderRead
    BY <1>9, <1>1, GotoPreserves DEF ReaderRead
  <1>10. CASE ReaderFramingError
    <2>1. Table' /\ FlagTypeOK'
      BY <1>10, RunningKept, FailFatalKeeps DEF ReaderFramingError, Control
    <2>2. ReaderTypeOK' /\ (rpc' = "send" => rout' # <<>>) /\ rnext' # "send"
      BY <1>10 DEF ReaderFramingError, ReaderTypeOK, Control, HandOver
    <2>3. EngineTypeOK' /\ HistTypeOK' /\ WriterTypeOK' /\ enext' = enext
      BY <1>10 DEF ReaderFramingError, engineVars, histVars, writerVars, EngineTypeOK,
                   HistTypeOK, WriterTypeOK, Control
    <2> QED BY <2>1, <2>2, <2>3 DEF Control, HandOver
  <1>11. CASE \E f \in Inputs : Handle(f)
    BY <1>11, HandlePreserves
  <1> QED BY <1>2, <1>3, <1>4, <1>5, <1>6, <1>7, <1>8, <1>9, <1>10, <1>11
          DEF ReaderRun, ReaderInput

-----------------------------------------------------------------------------
(* The engine and writer threads preserve the invariant                    *)

\* A step of the engine thread that keeps the request it runs, if any.
LEMMA EngineKeeps ==
  ASSUME Inv, EngineTypeOK', enext' \in {"synthesize", "chunk_sent", "take", "done"},
         Running' = Running, UNCHANGED <<readerVars, tableVars, flagVars, writerVars, histVars>>
  PROVE  Inv'
  <1> USE DEF Inv
  <1>1. Table'
    BY TableKept DEF tableVars, Table, TableTypeOK
  <1>2. ReaderTypeOK' /\ FlagTypeOK' /\ WriterTypeOK' /\ HistTypeOK'
    BY DEF readerVars, flagVars, writerVars, histVars, ReaderTypeOK, FlagTypeOK,
           WriterTypeOK, HistTypeOK, Control
  <1>3. HandOver'
    BY DEF readerVars, HandOver, Control
  <1> QED BY <1>1, <1>2, <1>3 DEF Control

\* take_next_request moves the oldest waiting request to the engine thread.
LEMMA TakePreserves ==
  ASSUME Inv, TakeRequest
  PROVE  Inv'
  <1> USE DEF Inv
  <1>1. CASE pending = <<>>
    <2>1. Running' = Running /\ pending' = pending
      BY <1>1 DEF TakeRequest, Running, EngineBusy
    <2>2. EngineTypeOK' /\ enext' = enext
      BY <1>1 DEF TakeRequest, EngineTypeOK, EnginePcs, Control
    <2>3. UNCHANGED <<readerVars, tableVars, flagVars, writerVars, histVars>>
      BY <1>1 DEF TakeRequest, tableVars
    <2> QED BY <2>1, <2>2, <2>3, EngineKeeps DEF Control, HandOver
  <1>2. CASE pending # <<>>
    <2>1. /\ eslot' = Head(pending) /\ pending' = Tail(pending) /\ epc' = "begin"
          /\ UNCHANGED <<chunks, eout, enext, active, admitted, highWater, cancelled, terminal>>
          /\ UNCHANGED <<readerVars, flagVars, writerVars, histVars>>
          /\ Running = {} /\ Running' = {Head(pending)}
      BY <1>2 DEF TakeRequest, Running, EngineBusy
    <2>2. /\ Head(pending) \in Ids /\ pending' \in Seq(Ids) /\ IsInjective(pending')
          /\ ToSet(pending') = ToSet(pending) \ {Head(pending)}
          /\ Head(pending) \in ToSet(pending)
      BY <1>2, <2>1, EntriesOfTail DEF Table, TableTypeOK, SlotAccounting
    <2>3. SlotAccounting'
      BY <2>1, <2>2 DEF Table, SlotAccounting
    <2>4. TableTypeOK' /\ IdsBelowHighWater'
      BY <2>1, <2>2 DEF Table, TableTypeOK, IdsBelowHighWater, Accepted
    <2>5. EngineTypeOK'
      BY <2>1, <2>2 DEF EngineTypeOK, EnginePcs, Control, Ids
    <2>6. ReaderTypeOK' /\ FlagTypeOK' /\ WriterTypeOK' /\ HistTypeOK' /\ HandOver'
      BY <2>1 DEF readerVars, flagVars, writerVars, histVars, ReaderTypeOK, FlagTypeOK,
                  WriterTypeOK, HistTypeOK, HandOver, Control
    <2> QED BY <2>3, <2>4, <2>5, <2>6 DEF Table, Control
  <1> QED BY <1>1, <1>2

\* terminalize takes the running request out of the table and gives its slot back.
LEMMA TerminalizePreserves ==
  ASSUME Inv, EngineBusy, NEW kind \in Terminals, Terminalize(kind)
  PROVE  Inv'
  <1> USE DEF Inv
  <1>1. /\ Running = {eslot} /\ eslot \in active /\ eslot \in Ids /\ eslot \notin terminal
        /\ eslot \notin ToSet(pending)
    BY DEF Running, Table, TableTypeOK, SlotAccounting
  <1>2. Cardinality(active \ {eslot}) = admitted - 1 /\ admitted - 1 \in Nat
    <2>1. /\ IsFiniteSet(active \ {eslot})
          /\ Cardinality(active \ {eslot}) = Cardinality(active) - 1
      BY <1>1, ActiveFinite, FS_RemoveElement DEF Table
    <2>2. Cardinality(active \ {eslot}) \in Nat
      BY <2>1, FS_CardinalityType
    <2> QED BY <2>1, <2>2 DEF Table, SlotAccounting
  <1>3. /\ terminal' = terminal \cup {eslot} /\ active' = active \ {eslot}
        /\ admitted' = IF admitted > 0 THEN admitted - 1 ELSE admitted
        /\ epc' = "send" /\ enext' = "take" /\ eout' = Frame(kind, eslot)
        /\ eslot' = 0 /\ chunks' = 0
        /\ UNCHANGED <<pending, highWater, cancelled>>
        /\ UNCHANGED <<readerVars, flagVars, writerVars, histVars>>
    BY <1>1 DEF Terminalize, EngineSends
  <1>4. admitted' = admitted - 1
    BY <1>2, <1>3 DEF Table, TableTypeOK
  <1>5. Running' = {}
    BY <1>3 DEF Running, EngineBusy
  <1>6. SlotAccounting'
    <2>1. admitted' <= MaxAdmitted
      <3>1. admitted \in Nat /\ admitted <= MaxAdmitted /\ MaxAdmitted \in Nat
        BY NativeAssumption DEF Table, TableTypeOK, SlotAccounting
      <3> QED BY <3>1, <1>4
    <2>2. active' = ToSet(pending') \cup Running' /\ active' \cap terminal' = {}
      BY <1>1, <1>3, <1>5 DEF Table, SlotAccounting
    <2> QED BY <1>2, <1>3, <1>4, <1>5, <2>1, <2>2 DEF Table, SlotAccounting
  <1>7. TableTypeOK' /\ IdsBelowHighWater'
    BY <1>1, <1>2, <1>3, <1>4 DEF Table, TableTypeOK, IdsBelowHighWater, Accepted
  <1>8. EngineTypeOK'
    <2>1. Frame(kind, eslot) \in OutFrame
      <3>1. kind \in LifecycleKinds \cup SessionKinds
        BY DEF LifecycleKinds
      <3>2. eslot \in 0..MaxId
        BY DEF Control, EngineTypeOK
      <3> QED BY <3>1, <3>2, FrameType
    <2> QED BY <1>3, <2>1, MaxIdAssumption, NativeAssumption DEF EngineTypeOK, EnginePcs
  <1>9. ReaderTypeOK' /\ FlagTypeOK' /\ WriterTypeOK' /\ HistTypeOK' /\ HandOver'
    BY <1>3 DEF readerVars, flagVars, writerVars, histVars, ReaderTypeOK, FlagTypeOK,
                WriterTypeOK, HistTypeOK, HandOver, Control
  <1> QED BY <1>6, <1>7, <1>8, <1>9 DEF Table, Control

\* The engine thread hands over its frame and goes on where its caller does.
LEMMA EngineSendPreserves ==
  ASSUME Inv, EngineSend
  PROVE  Inv'
  <1> USE DEF Inv
  <1>1. /\ eout \in OutFrame /\ NoFrame \in OutFrame
        /\ enext \in {"synthesize", "chunk_sent", "take", "done"}
    BY NoFrameType DEF Control, EngineTypeOK, HandOver
  <1>2. /\ epc = "send" /\ eout' = NoFrame /\ enext' = "take"
        /\ UNCHANGED <<eslot, chunks, readerVars>>
        /\ epc' = enext \/ (enext = "chunk_sent" /\ epc' = "stopped")
    BY DEF EngineSend
  <1>3. Running' = Running
    BY <1>1, <1>2 DEF Running, EngineBusy
  <1>4. EngineTypeOK'
    BY <1>1, <1>2 DEF EngineTypeOK, EnginePcs, Control
  <1>5. ReaderTypeOK' /\ HandOver'
    BY <1>2 DEF readerVars, ReaderTypeOK, HandOver, Control
  <1>6. CASE Accept(eout) /\ UNCHANGED <<tableVars, flagVars>>
    <2>1. WriterTypeOK' /\ HistTypeOK'
      BY <1>1, <1>6, AcceptType DEF Control
    <2>2. Table' /\ FlagTypeOK'
      BY <1>3, <1>6, TableKept DEF tableVars, flagVars, Table, TableTypeOK, FlagTypeOK, Control
    <2> QED BY <1>4, <1>5, <2>1, <2>2 DEF Control
  <1>7. CASE Refused
    <2>1. WriterTypeOK' /\ HistTypeOK'
      BY <1>7 DEF Refused, writerVars, histVars, WriterTypeOK, HistTypeOK, Control
    <2>2. Table' /\ FlagTypeOK'
      BY <1>3, <1>7, FailFatalKeeps DEF Refused, Control
    <2> QED BY <1>4, <1>5, <2>1, <2>2 DEF Control
  <1> QED BY <1>6, <1>7 DEF EngineSend

\* Every step of the engine thread preserves the invariant.
LEMMA EnginePreserves ==
  ASSUME Inv, Engine
  PROVE  Inv'
  <1> USE DEF Inv
  <1>1. CASE TakeRequest
    BY <1>1, TakePreserves
  <1>2. CASE BeginRequest
    <2>1. CASE eslot \in cancelled
      BY <1>2, <2>1, TerminalizePreserves DEF BeginRequest, EngineBusy, Terminals
    <2>2. CASE eslot \notin cancelled
      <3>1. Frame("started", eslot) \in OutFrame
        BY FrameType DEF Control, EngineTypeOK, LifecycleKinds
      <3>2. EngineTypeOK' /\ Running' = Running /\ enext' = "synthesize"
        BY <1>2, <2>2, <3>1 DEF BeginRequest, EngineSends, EngineTypeOK, EnginePcs, Control,
                                Running, EngineBusy
      <3> QED BY <1>2, <2>2, <3>2, EngineKeeps DEF BeginRequest
    <2> QED BY <2>1, <2>2
  <1>3. CASE EngineSend
    BY <1>3, EngineSendPreserves
  <1>4. CASE EngineChunk
    <2>1. Frame("audio", eslot) \in OutFrame
      BY FrameType DEF Control, EngineTypeOK, LifecycleKinds
    <2>2. chunks' \in 0..MaxChunks
      BY <1>4, NativeAssumption DEF EngineChunk, EngineTypeOK, Control
    <2>3. /\ EngineTypeOK' /\ Running' = Running
          /\ enext' \in {"synthesize", "chunk_sent", "take", "done"}
      BY <1>4, <2>1, <2>2 DEF EngineChunk, EngineSends, EngineTypeOK, EnginePcs, Control,
                              HandOver, Running, EngineBusy
    <2> QED BY <1>4, <2>3, EngineKeeps DEF EngineChunk
  <1>5. CASE EngineChunkSent
    <2>1. EngineTypeOK' /\ Running' = Running /\ enext' = enext
      BY <1>5 DEF EngineChunkSent, EngineTypeOK, EnginePcs, Control, Running, EngineBusy
    <2> QED BY <1>5, <2>1, EngineKeeps DEF EngineChunkSent, Control, HandOver
  <1>6. CASE EngineInvalidChunk
    <2>1. EngineTypeOK' /\ Running' = Running
      BY <1>6 DEF EngineInvalidChunk, EngineTypeOK, EnginePcs, Control, Running, EngineBusy
    <2>2. Table' /\ FlagTypeOK'
      BY <1>6, <2>1, FailFatalKeeps DEF EngineInvalidChunk, Control
    <2>3. ReaderTypeOK' /\ WriterTypeOK' /\ HistTypeOK' /\ HandOver'
      BY <1>6 DEF EngineInvalidChunk, readerVars, writerVars, histVars, ReaderTypeOK,
                  WriterTypeOK, HistTypeOK, HandOver, Control
    <2> QED BY <2>1, <2>2, <2>3 DEF Control
  <1>7. CASE \E outcome \in Terminals : SynthesizeReturns(outcome)
    BY <1>7, TerminalizePreserves DEF SynthesizeReturns, EngineBusy
  <1>8. CASE EngineAck
    <2>1. Frame("shutdown_ack", 0) \in OutFrame
      BY MaxIdAssumption, FrameType DEF SessionKinds
    <2>2. /\ EngineTypeOK' /\ Running' = Running
          /\ enext' \in {"synthesize", "chunk_sent", "take", "done"}
      BY <1>8, <2>1 DEF EngineAck, EngineSends, EngineTypeOK, EnginePcs, Control, HandOver,
                        Running, EngineBusy
    <2> QED BY <1>8, <2>2, EngineKeeps DEF EngineAck
  <1> QED BY <1>1, <1>2, <1>3, <1>4, <1>5, <1>6, <1>7, <1>8 DEF Engine

\* Every step of the writer thread preserves the invariant.
LEMMA WriterPreserves ==
  ASSUME Inv, Writer
  PROVE  Inv'
  <1> USE DEF Inv
  <1>1. UNCHANGED <<readerVars, engineVars, tableVars, flagVars, histVars>>
    BY DEF Writer, WriterWrite, WriterFail, WriterExit
  <1>2. WriterTypeOK'
    <2>1. WriterTypeOK
      BY DEF Control
    <2>2. CASE WriterWrite
      BY <2>1, <2>2, NativeAssumption DEF WriterWrite, WriterTypeOK
    <2>3. CASE WriterFail
      BY <2>1, <2>3, NativeAssumption DEF WriterFail, WriterTypeOK
    <2>4. CASE WriterExit
      BY <2>1, <2>4, NativeAssumption DEF WriterExit, WriterTypeOK
    <2> QED BY <2>2, <2>3, <2>4 DEF Writer
  <1>3. Table'
    BY <1>1, RunningKept, TableKept DEF tableVars, Table, TableTypeOK
  <1>4. ReaderTypeOK' /\ EngineTypeOK' /\ FlagTypeOK' /\ HistTypeOK' /\ HandOver'
    BY <1>1 DEF readerVars, engineVars, flagVars, histVars, ReaderTypeOK, EngineTypeOK,
                FlagTypeOK, HistTypeOK, HandOver, Control
  <1> QED BY <1>2, <1>3, <1>4 DEF Control

-----------------------------------------------------------------------------
(* The theorems                                                            *)

\* The server starts with an empty table and queue.
LEMMA InitInv == Init => Inv
  <1> SUFFICES ASSUME Init PROVE Inv
    OBVIOUS
  <1>1. Control
    <2>1. ReaderTypeOK /\ HandOver
      BY DEF Init, ReaderTypeOK, HandOver, ReaderPcs
    <2>2. FlagTypeOK
      BY DEF Init, FlagTypeOK
    <2>3. HistTypeOK
      <3>1. trail \in [Ids -> Seq(LifecycleKinds)]
        BY DEF Init
      <3>2. acked \in BOOLEAN
        BY DEF Init
      <3> QED BY <3>1, <3>2 DEF HistTypeOK
    <2>4. EngineTypeOK
      BY NoFrameType, MaxIdAssumption, NativeAssumption DEF Init, EngineTypeOK, EnginePcs
    <2>5. WriterTypeOK
      <3>1. backlog \in 0..Capacity
        BY NativeAssumption DEF Init
      <3>2. stopping \in BOOLEAN /\ failed \in BOOLEAN /\ wdone \in BOOLEAN
        BY DEF Init
      <3> QED BY <3>1, <3>2 DEF WriterTypeOK
    <2> QED BY <2>1, <2>2, <2>3, <2>4, <2>5 DEF Control
  <1>2. Table
    <2>1. TableTypeOK /\ IdsBelowHighWater
      BY MaxIdAssumption DEF Init, TableTypeOK, IdsBelowHighWater, Accepted
    <2>2. Running = {}
      BY DEF Init, Running, EngineBusy
    <2>3. SlotAccounting
      BY <2>2, FS_EmptySet, EntriesOfEmpty, NativeAssumption DEF Init, SlotAccounting
    <2> QED BY <2>1, <2>3 DEF Table
  <1> QED BY <1>1, <1>2 DEF Inv

\* Every step of the server preserves the invariant.
LEMMA NextInv == Inv /\ [Next]_vars => Inv'
  <1> SUFFICES ASSUME Inv, [Next]_vars PROVE Inv'
    OBVIOUS
  <1>1. CASE UNCHANGED vars
    <2>1. Table'
      BY <1>1, RunningKept, TableKept DEF Inv, vars, tableVars, Table, TableTypeOK
    <2>2. Control'
      BY <1>1 DEF Inv, vars, readerVars, engineVars, flagVars, writerVars, histVars, Control,
                  ReaderTypeOK, EngineTypeOK, FlagTypeOK, WriterTypeOK, HistTypeOK, HandOver
    <2> QED BY <2>1, <2>2 DEF Inv
  <1> QED BY <1>1, ReaderPreserves, EnginePreserves, WriterPreserves DEF Next, Exited

\* The strengthened invariant holds in every reachable state.
LEMMA Invariance == Spec => []Inv
  BY InitInv, NextInv, PTL DEF Spec

\* Every variable keeps its type and the output queue never exceeds max_frames_.
THEOREM TypeCorrect == Spec => []TypeOK
  <1>1. Inv => TypeOK
    BY DEF Inv, Control, Table, TypeOK
  <1> QED BY <1>1, Invariance, PTL

\* Admission slots are neither lost nor released twice: admitted_requests_ is the size of
\* active_, which holds the waiting requests and the running one, each once and none of
\* them ended.
THEOREM SlotsAccounted == Spec => []SlotAccounting
  <1>1. Inv => SlotAccounting
    BY DEF Inv, Table
  <1> QED BY <1>1, Invariance, PTL

-----------------------------------------------------------------------------
(***************************************************************************)
(* No request of the native worker is answered twice, whichever of the     *)
(* reader (cancel, shutdown) and the engine thread ends it; a worker that  *)
(* exits with a working stdout owes no answer; and the native worker       *)
(* implements the request lifecycle of the protocol.                       *)
(***************************************************************************)

\* The reader, or the engine thread, holds a terminal frame of r it has not handed over.
ReaderHolds(r) == \E i \in DOMAIN rout : rout[i].id = r /\ rout[i].kind \in Terminals

EngineHolds(r) == epc = "send" /\ eout.id = r /\ eout.kind \in Terminals

(***************************************************************************)
(* The strengthening.  slot->terminal is set before a terminal frame       *)
(* exists, and a request has at most one: handed over, held by the reader  *)
(* or held by the engine thread.                                           *)
(***************************************************************************)
TerminalFirst ==
  \A r \in Ids \ terminal : ~Ended(trail, r) /\ ~ReaderHolds(r) /\ ~EngineHolds(r)

HeldOnce ==
  \A r \in Ids :
    /\ ReaderHolds(r) => ~Ended(trail, r) /\ ~EngineHolds(r)
    /\ EngineHolds(r) => ~Ended(trail, r)

ReaderHoldsOne ==
  \A i, j \in DOMAIN rout :
    rout[i].kind \in Terminals /\ rout[j].kind \in Terminals /\ rout[i].id = rout[j].id
      => i = j

\* Of the other lifecycle frames the reader sends only `queued`, and the engine thread
\* only those of the request it runs.
ReaderQueues ==
  \A i \in DOMAIN rout :
    rout[i].kind \in LifecycleKinds => rout[i].kind \in Terminals \cup {"queued"}

EngineAnnounces ==
  epc = "send" /\ eout.kind \in LifecycleKinds \ Terminals
    => eout.id = eslot /\ enext \in {"synthesize", "chunk_sent"}

Answers ==
  /\ TerminalFirst /\ HeldOnce /\ ReaderHoldsOne /\ ReaderQueues /\ EngineAnnounces
  /\ NothingAfterTerminal

-----------------------------------------------------------------------------
(* Lemmas about handing over a frame                                       *)

\* A `queued` frame, or any frame of a request that has not ended, may be handed over.
LEMMA RecordInOrder ==
  ASSUME HistTypeOK, NothingAfterTerminal, NEW f \in OutFrame,
         f.id \in Ids /\ f.kind \in LifecycleKinds \ {"queued"} => ~Ended(trail, f.id),
         trail' = Record(trail, f)
  PROVE  NothingAfterTerminal'
  <1> SUFFICES ASSUME NEW r \in Ids, NEW i \in DOMAIN trail'[r], NEW j \in DOMAIN trail'[r],
                      i < j, trail'[r][i] \in Terminals
               PROVE  trail'[r][j] = "queued"
    BY DEF NothingAfterTerminal
  <1>1. CASE f.kind \in LifecycleKinds /\ f.id = r
    <2> DEFINE s == trail[r]
               t == Append(s, f.kind)
    <2>1. trail'[r] = t
      BY <1>1, RecordAt DEF HistTypeOK, Trails
    <2>2. s \in Seq(LifecycleKinds)
      BY DEF HistTypeOK
    <2>3. /\ DOMAIN s = 1..Len(s) /\ DOMAIN t = 1..Len(s) + 1 /\ Len(s) \in Nat
          /\ \A k \in 1..Len(s) : t[k] = s[k]
          /\ t[Len(s) + 1] = f.kind
      BY <1>1, <2>2, AppendProperties, LenProperties
    <2> HIDE DEF t
    <2>4. i \in 1..Len(s) + 1 /\ j \in 1..Len(s) + 1 /\ t[i] \in Terminals
      BY <2>1, <2>3
    <2>5. i \in 1..Len(s) /\ s[i] \in Terminals
      BY <2>3, <2>4
    <2>6. CASE j = Len(s) + 1
      <3>1. Ended(trail, r)
        BY <2>3, <2>5 DEF Ended
      <3> QED BY <1>1, <2>1, <2>3, <2>6, <3>1
    <2>7. CASE j # Len(s) + 1
      <3>1. j \in 1..Len(s)
        BY <2>3, <2>4, <2>7
      <3>2. s[j] = "queued"
        BY <2>3, <2>5, <3>1 DEF NothingAfterTerminal
      <3> QED BY <2>1, <2>3, <3>1, <3>2
    <2> QED BY <2>6, <2>7
  <1>2. CASE ~(f.kind \in LifecycleKinds /\ f.id = r)
    <2>1. trail'[r] = trail[r]
      BY <1>2, RecordAt DEF HistTypeOK, Trails
    <2> QED BY <2>1 DEF NothingAfterTerminal
  <1> QED BY <1>1, <1>2

\* A step that hands nothing over and leaves both threads' held frames alone.
LEMMA AnswersKept ==
  ASSUME Answers, UNCHANGED <<rout, epc, eslot, eout, enext, trail, terminal>>
  PROVE  Answers'
  <1>1. NothingAfterTerminal'
    BY DEF Answers, NothingAfterTerminal
  <1>2. \A r : /\ ReaderHolds(r)' = ReaderHolds(r) /\ EngineHolds(r)' = EngineHolds(r)
              /\ Ended(trail, r)' = Ended(trail, r)
    BY DEF ReaderHolds, EngineHolds, Ended
  <1>3. TerminalFirst' /\ HeldOnce'
    BY <1>2 DEF Answers, TerminalFirst, HeldOnce
  <1>4. ReaderHoldsOne' /\ ReaderQueues' /\ EngineAnnounces'
    BY DEF Answers, ReaderHoldsOne, ReaderQueues, EngineAnnounces
  <1> QED BY <1>1, <1>3, <1>4 DEF Answers

-----------------------------------------------------------------------------
(* The reader thread                                                       *)

\* A handler that answers with a frame that ends nothing, or with none.
LEMMA HarmlessReply ==
  ASSUME Answers, NEW fs \in Seq(OutFrame), NEW next, Reply(fs, next), UNCHANGED terminal,
         \A i \in DOMAIN fs : fs[i].kind \in SessionKinds \cup {"queued"}
  PROVE  Answers'
  <1>1. rout' = fs /\ UNCHANGED <<epc, eslot, eout, enext, trail>>
    BY DEF Reply, engineVars, histVars
  <1>2. ASSUME NEW i \in DOMAIN rout'
        PROVE  /\ rout'[i].kind \notin Terminals
               /\ rout'[i].kind \in LifecycleKinds => rout'[i].kind = "queued"
    BY <1>1 DEF SessionKinds, LifecycleKinds, Terminals
  <1>3. \A r : /\ ~ReaderHolds(r)' /\ EngineHolds(r)' = EngineHolds(r)
              /\ Ended(trail, r)' = Ended(trail, r)
    <2>1. \A r : ~ReaderHolds(r)'
      BY <1>2, Zenon DEF ReaderHolds
    <2> QED BY <1>1, <2>1 DEF EngineHolds, Ended
  <1>4. TerminalFirst' /\ HeldOnce'
    BY <1>3 DEF Answers, TerminalFirst, HeldOnce
  <1>5. ReaderHoldsOne' /\ ReaderQueues'
    BY <1>2, Zenon DEF ReaderHoldsOne, ReaderQueues
  <1>6. EngineAnnounces' /\ NothingAfterTerminal'
    BY <1>1 DEF Answers, EngineAnnounces, NothingAfterTerminal
  <1> QED BY <1>4, <1>5, <1>6 DEF Answers

\* A handler without an answer.
LEMMA NoReply ==
  ASSUME Answers, NEW next, Reply(<<>>, next), UNCHANGED terminal
  PROVE  Answers'
  <1> DEFINE fs == <<>>
  <1>1. fs \in Seq(OutFrame) /\ DOMAIN fs = {}
    OBVIOUS
  <1>2. Reply(fs, next)
    OBVIOUS
  <1> HIDE DEF fs
  <1> QED BY <1>1, <1>2, HarmlessReply

\* A handler that ends waiting requests: each gets one frame, held by the reader.
LEMMA CancellingReply ==
  ASSUME Inv, Answers, NEW s \in Seq(Ids), IsInjective(s), ToSet(s) \cap terminal = {},
         terminal' = terminal \cup ToSet(s), NEW next,
         Reply([i \in 1..Len(s) |-> Frame("cancelled", s[i])], next)
  PROVE  Answers'
  <1>1. Len(s) \in Nat /\ DOMAIN s = 1..Len(s) /\ \A i \in 1..Len(s) : s[i] \in Ids
    BY LenProperties, ElementOfSeq
  <1>2. /\ DOMAIN rout' = 1..Len(s)
        /\ \A i \in 1..Len(s) : rout'[i].kind = "cancelled" /\ rout'[i].id = s[i]
        /\ UNCHANGED <<epc, eslot, eout, enext, trail>>
    BY DEF Reply, engineVars, histVars, Frame
  <1>3. ASSUME NEW r \in Ids
        PROVE  /\ ReaderHolds(r)' <=> r \in ToSet(s)
               /\ EngineHolds(r)' = EngineHolds(r)
               /\ Ended(trail, r)' = Ended(trail, r)
    BY <1>1, <1>2 DEF ReaderHolds, EngineHolds, Ended, Terminals, ToSet
  <1>4. \A r \in ToSet(s) : r \in Ids /\ ~Ended(trail, r) /\ ~EngineHolds(r)
    BY <1>1, EntriesInSet DEF Answers, TerminalFirst
  <1>5. TerminalFirst'
    BY <1>3 DEF Answers, TerminalFirst
  <1>6. HeldOnce'
    BY <1>3, <1>4 DEF Answers, HeldOnce
  <1>7. ReaderHoldsOne'
    BY <1>1, <1>2 DEF ReaderHoldsOne, IsInjective
  <1>8. ReaderQueues'
    BY <1>2 DEF ReaderQueues, Terminals
  <1>9. EngineAnnounces' /\ NothingAfterTerminal'
    BY <1>2 DEF Answers, EngineAnnounces, NothingAfterTerminal
  <1> QED BY <1>5, <1>6, <1>7, <1>8, <1>9 DEF Answers

\* request_shutdown ends the waiting requests.
LEMMA DrainAnswers ==
  ASSUME Inv, Answers, NEW ack, DrainPending(ack)
  PROVE  Answers'
  <1>1. /\ pending \in Seq(Ids) /\ IsInjective(pending) /\ ToSet(pending) \subseteq Ids
        /\ ToSet(pending) \cap terminal = {}
    BY EntriesInSet DEF Inv, Table, TableTypeOK, SlotAccounting
  <1>2. Keep(pending, Ids \ terminal) = pending
    BY <1>1 DEF Keep
  <1>3. /\ terminal' = terminal \cup ToSet(pending)
        /\ Reply([i \in 1..Len(pending) |-> Frame("cancelled", pending[i])], "enqueued")
    BY <1>2 DEF DrainPending
  <1> QED BY <1>1, <1>3, CancellingReply

\* The handlers.
LEMMA HandleAnswers ==
  ASSUME Inv, Answers, NEW f \in Inputs, Handle(f)
  PROVE  Answers'
  <1>1. f.id \in 0..MaxId
    BY NativeAssumption DEF ClientFrame
  <1>2. ASSUME NEW k \in SessionKinds \cup {"queued"}, NEW r \in 0..MaxId, NEW next,
               Reply(<<Frame(k, r)>>, next), UNCHANGED terminal
        PROVE  Answers'
    <2>1. Frame(k, r) \in OutFrame /\ Frame(k, r).kind = k
      BY <1>2, FrameType DEF LifecycleKinds, Frame
    <2>2. <<Frame(k, r)>> \in Seq(OutFrame)
      BY <2>1
    <2>3. \A i \in DOMAIN <<Frame(k, r)>> : <<Frame(k, r)>>[i].kind \in SessionKinds \cup {"queued"}
      BY <2>1
    <2> QED BY <1>2, <2>2, <2>3, HarmlessReply
  <1>3. ASSUME NEW next, Reply(<<>>, next), UNCHANGED terminal
        PROVE  Answers'
    BY <1>3, NoReply
  <1>4. CASE HandleInvalid(f)
    BY <1>1, <1>2, <1>4 DEF HandleInvalid, tableVars, SessionKinds
  <1>5. CASE HandleHello(f)
    BY <1>2, <1>5, MaxIdAssumption DEF HandleHello, tableVars, SessionKinds
  <1>6. CASE HandlePing(f)
    BY <1>2, <1>6, MaxIdAssumption DEF HandlePing, tableVars, SessionKinds
  <1>7. CASE RejectSynthesize(f)
    BY <1>1, <1>2, <1>7 DEF RejectSynthesize, tableVars, SessionKinds
  <1>8. CASE AdmitSynthesize(f)
    BY <1>1, <1>2, <1>8 DEF AdmitSynthesize
  <1>9. CASE CancelRunning(f)
    BY <1>3, <1>9 DEF CancelRunning
  <1>10. CASE CancelInactive(f)
    BY <1>1, <1>2, <1>3, <1>10 DEF CancelInactive, tableVars, SessionKinds
  <1>11. CASE CancelQueued(f)
    <2> DEFINE s == <<f.id>>
    <2>1. f.id \in Ids /\ f.id \notin terminal
      BY <1>11 DEF CancelQueued, Inv, Table, TableTypeOK, SlotAccounting
    <2>2. terminal' = terminal \cup {f.id} /\ Reply(<<Frame("cancelled", f.id)>>, "parse")
      BY <1>11, <2>1 DEF CancelQueued
    <2>3. s \in Seq(Ids) /\ Len(s) = 1 /\ IsInjective(s) /\ ToSet(s) = {f.id}
      BY <2>1 DEF IsInjective, ToSet
    <2>4. [i \in 1..Len(s) |-> Frame("cancelled", s[i])] = <<Frame("cancelled", f.id)>>
      OBVIOUS
    <2> HIDE DEF s
    <2> QED BY <2>1, <2>2, <2>3, <2>4, CancellingReply
  <1>12. CASE HandleShutdown(f)
    BY <1>12, DrainAnswers DEF HandleShutdown
  <1> QED BY <1>4, <1>5, <1>6, <1>7, <1>8, <1>9, <1>10, <1>11, <1>12 DEF Handle

\* Handing over the next frame of a handler: a terminal frame moves from held to handed
\* over, and its request holds no other.
LEMMA ReaderSendAnswers ==
  ASSUME Inv, Answers, ReaderSend
  PROVE  Answers'
  <1> DEFINE f == Head(rout)
             t == Tail(rout)
  <1>1. HistTypeOK /\ rout \in Seq(OutFrame) /\ rout # <<>>
    BY DEF ReaderSend, Inv, Control, HandOver, ReaderTypeOK
  <1>2. /\ f \in OutFrame /\ f = rout[1] /\ DOMAIN rout = 1..Len(rout)
        /\ Len(rout) \in Nat \ {0} /\ DOMAIN t = 1..Len(rout) - 1
        /\ \A i \in 1..Len(rout) - 1 : t[i] = rout[i + 1]
    BY <1>1, HeadTailProperties, LenProperties, EmptySeq
  <1>3. rout' = t /\ UNCHANGED <<epc, eslot, eout, enext>>
    BY DEF ReaderSend, engineVars
  <1> HIDE DEF f, t
  <1>4. UNCHANGED terminal
    BY DEF ReaderSend, Refused, FailFatal, tableVars
  <1>5. \A i \in DOMAIN rout' : i + 1 \in DOMAIN rout /\ i + 1 # 1 /\ rout'[i] = rout[i + 1]
    BY <1>2, <1>3
  <1>6. \A r : (ReaderHolds(r)' => ReaderHolds(r)) /\ EngineHolds(r)' = EngineHolds(r)
    BY <1>3, <1>5 DEF ReaderHolds, EngineHolds
  <1>7. ReaderHoldsOne'
    <2> SUFFICES ASSUME NEW i \in DOMAIN rout', NEW j \in DOMAIN rout',
                        rout'[i].kind \in Terminals, rout'[j].kind \in Terminals,
                        rout'[i].id = rout'[j].id
                 PROVE  i = j
      BY DEF ReaderHoldsOne
    <2>1. i + 1 = j + 1
      BY <1>5 DEF Answers, ReaderHoldsOne
    <2>2. i \in Nat /\ j \in Nat
      BY <1>2, <1>3
    <2> QED BY <2>1, <2>2
  <1>8. ReaderQueues' /\ EngineAnnounces'
    BY <1>3, <1>5 DEF Answers, ReaderQueues, EngineAnnounces
  <1>9. CASE Accept(f)
    <2>1. trail' = Record(trail, f)
      BY <1>9 DEF Accept
    <2>2. \A r \in Ids : Ended(trail', r) <=> Ended(trail, r) \/ (f.id = r /\ f.kind \in Terminals)
      BY <1>1, <1>2, <2>1, EndedByRecord DEF HistTypeOK, Trails
    <2>3. ASSUME NEW r, f.id = r, f.kind \in Terminals
          PROVE  ReaderHolds(r) /\ ~ReaderHolds(r)'
      <3>1. 1 \in DOMAIN rout
        BY <1>2
      <3>2. ReaderHolds(r)
        BY <1>2, <2>3, <3>1 DEF ReaderHolds
      <3>3. ASSUME NEW i \in DOMAIN rout', rout'[i].id = r, rout'[i].kind \in Terminals
            PROVE  FALSE
        BY <2>3, <3>1, <3>3, <1>2, <1>5 DEF Answers, ReaderHoldsOne
      <3> QED BY <3>2, <3>3 DEF ReaderHolds
    <2>4. TerminalFirst'
      <3> SUFFICES ASSUME NEW r \in Ids \ terminal
                   PROVE  ~Ended(trail', r) /\ ~ReaderHolds(r)' /\ ~EngineHolds(r)'
        BY <1>4 DEF TerminalFirst
      <3>1. ~Ended(trail, r) /\ ~ReaderHolds(r) /\ ~EngineHolds(r)
        BY DEF Answers, TerminalFirst
      <3> QED BY <3>1, <1>6, <2>2, <2>3
    <2>5. HeldOnce'
      <3> SUFFICES ASSUME NEW r \in Ids
                   PROVE  /\ ReaderHolds(r)' => ~Ended(trail', r) /\ ~EngineHolds(r)'
                          /\ EngineHolds(r)' => ~Ended(trail', r)
        BY DEF HeldOnce
      <3>1. /\ ReaderHolds(r) => ~Ended(trail, r) /\ ~EngineHolds(r)
            /\ EngineHolds(r) => ~Ended(trail, r)
        BY DEF Answers, HeldOnce
      <3> QED BY <3>1, <1>6, <2>2, <2>3
    <2>6. NothingAfterTerminal'
      <3>1. f.kind \in LifecycleKinds \ {"queued"} => f.kind \in Terminals
        BY <1>2 DEF Answers, ReaderQueues
      <3>2. f.id \in Ids /\ f.kind \in LifecycleKinds \ {"queued"} => ~Ended(trail, f.id)
        BY <3>1, <2>3 DEF Answers, HeldOnce
      <3> QED BY <1>1, <1>2, <2>1, <3>2, RecordInOrder DEF Answers
    <2> QED BY <1>7, <1>8, <2>4, <2>5, <2>6 DEF Answers
  <1>10. CASE Refused
    <2>1. trail' = trail
      BY <1>10 DEF Refused, histVars
    <2>2. \A r : Ended(trail, r)' = Ended(trail, r)
      BY <2>1 DEF Ended
    <2>3. TerminalFirst' /\ HeldOnce'
      BY <1>4, <1>6, <2>2 DEF Answers, TerminalFirst, HeldOnce
    <2>4. NothingAfterTerminal'
      BY <2>1 DEF Answers, NothingAfterTerminal
    <2> QED BY <1>7, <1>8, <2>3, <2>4 DEF Answers
  <1> QED BY <1>9, <1>10 DEF ReaderSend, f

\* Every step of the reader thread.
LEMMA ReaderAnswers ==
  ASSUME Inv, Answers, ReaderRun \/ ReaderInput
  PROVE  Answers'
  <1>1. CASE \E f \in Inputs : Handle(f)
    BY <1>1, HandleAnswers
  <1>2. CASE ReaderSend
    BY <1>2, ReaderSendAnswers
  <1>3. CASE ReaderClose
    <2>1. CASE shutdown
      BY <1>3, <2>1, NoReply DEF ReaderClose, tableVars
    <2>2. CASE ~shutdown
      BY <1>3, <2>2, DrainAnswers DEF ReaderClose
    <2> QED BY <2>1, <2>2
  <1>4. CASE ReaderCheck \/ ReaderNeedMoreData \/ ReaderExit \/ ReaderRead
    BY <1>4, AnswersKept DEF ReaderCheck, ReaderNeedMoreData, ReaderExit, ReaderRead, Goto,
                             engineVars, histVars, tableVars
  <1>5. CASE ReaderEnqueued \/ ReaderJoin \/ ReaderFramingError
    BY <1>5, AnswersKept DEF ReaderEnqueued, ReaderJoin, ReaderFramingError, FailFatal, Goto,
                             engineVars, histVars, tableVars
  <1> QED BY <1>1, <1>2, <1>3, <1>4, <1>5 DEF ReaderRun, ReaderInput

-----------------------------------------------------------------------------
(* The engine and writer threads                                           *)

\* A step of the engine thread that leaves it without a terminal frame to hand over.
LEMMA EngineEndsNothing ==
  ASSUME Answers, UNCHANGED <<rout, trail, terminal>>, EngineAnnounces',
         ~(epc' = "send" /\ eout'.kind \in Terminals)
  PROVE  Answers'
  <1>1. \A r : /\ ReaderHolds(r)' = ReaderHolds(r) /\ ~EngineHolds(r)'
              /\ Ended(trail, r)' = Ended(trail, r)
    BY DEF ReaderHolds, EngineHolds, Ended
  <1>2. TerminalFirst' /\ HeldOnce'
    BY <1>1 DEF Answers, TerminalFirst, HeldOnce
  <1>3. ReaderHoldsOne' /\ ReaderQueues' /\ NothingAfterTerminal'
    BY DEF Answers, ReaderHoldsOne, ReaderQueues, NothingAfterTerminal
  <1> QED BY <1>2, <1>3 DEF Answers

\* terminalize: the running request is not terminal, so no frame that ends it exists.
LEMMA TerminalizeAnswers ==
  ASSUME Inv, Answers, EngineBusy, NEW kind \in Terminals, Terminalize(kind)
  PROVE  Answers'
  <1>1. eslot \in Ids /\ eslot \notin terminal
    BY DEF Running, Inv, Table, TableTypeOK, SlotAccounting
  <1>2. /\ terminal' = terminal \cup {eslot}
        /\ eout'.kind = kind /\ eout'.id = eslot /\ UNCHANGED <<rout, trail>>
    BY <1>1 DEF Terminalize, EngineSends, Frame, readerVars, histVars
  <1>3. /\ \A r : /\ ReaderHolds(r)' = ReaderHolds(r) /\ (EngineHolds(r)' => r = eslot)
                 /\ Ended(trail, r)' = Ended(trail, r)
        /\ ~Ended(trail, eslot) /\ ~ReaderHolds(eslot)
    BY <1>1, <1>2 DEF ReaderHolds, EngineHolds, Ended, Answers, TerminalFirst
  <1>4. TerminalFirst' /\ HeldOnce'
    BY <1>2, <1>3 DEF Answers, TerminalFirst, HeldOnce
  <1>5. ReaderHoldsOne' /\ ReaderQueues' /\ NothingAfterTerminal'
    BY <1>2 DEF Answers, ReaderHoldsOne, ReaderQueues, NothingAfterTerminal
  <1>6. EngineAnnounces'
    BY <1>2 DEF EngineAnnounces
  <1> QED BY <1>4, <1>5, <1>6 DEF Answers

\* Handing over the engine thread's frame: it ends a request that has not ended, or it is
\* about the running one.
LEMMA EngineSendAnswers ==
  ASSUME Inv, Answers, EngineSend
  PROVE  Answers'
  <1>1. HistTypeOK /\ eout \in OutFrame /\ epc = "send"
    BY DEF EngineSend, Inv, Control, EngineTypeOK
  <1>2. eout'.kind = "pong" /\ UNCHANGED rout
    BY DEF EngineSend, NoFrame, Frame, readerVars
  <1>3. UNCHANGED terminal
    BY DEF EngineSend, Refused, FailFatal, tableVars
  <1>4. EngineAnnounces' /\ ReaderHoldsOne' /\ ReaderQueues'
    BY <1>2 DEF EngineAnnounces, LifecycleKinds, Terminals, Answers, ReaderHoldsOne, ReaderQueues
  <1>5. \A r : ReaderHolds(r)' = ReaderHolds(r) /\ ~EngineHolds(r)'
    BY <1>2 DEF ReaderHolds, EngineHolds, Terminals
  <1>6. CASE Accept(eout)
    <2>1. trail' = Record(trail, eout)
      BY <1>6 DEF Accept
    <2>2. \A r \in Ids : Ended(trail', r)
                         <=> Ended(trail, r) \/ (eout.id = r /\ eout.kind \in Terminals)
      BY <1>1, <2>1, EndedByRecord DEF HistTypeOK, Trails
    <2>3. eout.kind \in Terminals => EngineHolds(eout.id)
      BY <1>1 DEF EngineHolds
    <2>4. TerminalFirst' /\ HeldOnce'
      <3>1. ASSUME NEW r \in Ids \ terminal PROVE ~Ended(trail', r) /\ ~ReaderHolds(r)'
        BY <1>5, <2>2, <2>3 DEF Answers, TerminalFirst
      <3>2. ASSUME NEW r \in Ids, ReaderHolds(r)' PROVE ~Ended(trail', r)
        BY <3>2, <1>5, <2>2, <2>3 DEF Answers, HeldOnce
      <3> QED BY <3>1, <3>2, <1>3, <1>5 DEF TerminalFirst, HeldOnce
    <2>5. eout.id \in Ids /\ eout.kind \in LifecycleKinds \ {"queued"} => ~Ended(trail, eout.id)
      <3>1. CASE eout.kind \in Terminals
        BY <3>1, <2>3 DEF Answers, HeldOnce
      <3>2. CASE eout.kind \in LifecycleKinds \ Terminals
        <4>1. EngineBusy /\ eout.id = eslot
          BY <3>2, <1>1 DEF Answers, EngineAnnounces, EngineBusy
        <4>2. eslot \in Ids \ terminal
          BY <4>1 DEF Running, Inv, Table, TableTypeOK, SlotAccounting
        <4> QED BY <4>1, <4>2 DEF Answers, TerminalFirst
      <3> QED BY <3>1, <3>2
    <2>6. NothingAfterTerminal'
      BY <1>1, <2>1, <2>5, RecordInOrder DEF Answers
    <2> QED BY <1>4, <2>4, <2>6 DEF Answers
  <1>7. CASE Refused
    <2>1. UNCHANGED trail
      BY <1>7 DEF Refused, histVars
    <2> QED BY <1>2, <1>3, <1>4, <2>1, EngineEndsNothing DEF Terminals
  <1> QED BY <1>6, <1>7 DEF EngineSend

\* Every step of the engine thread.
LEMMA EngineAnswers ==
  ASSUME Inv, Answers, Engine
  PROVE  Answers'
  <1> USE DEF readerVars, tableVars, histVars
  <1>1. CASE TakeRequest
    <2>1. epc' \in {"begin", "ack"} /\ UNCHANGED <<rout, trail, terminal>>
      BY <1>1 DEF TakeRequest
    <2> QED BY <2>1, EngineEndsNothing DEF EngineAnnounces
  <1>2. CASE BeginRequest
    <2>1. CASE eslot \in cancelled
      BY <1>2, <2>1, TerminalizeAnswers DEF BeginRequest, EngineBusy, Terminals
    <2>2. CASE eslot \notin cancelled
      <3>1. /\ eout'.kind = "started" /\ eout'.id = eslot /\ eslot' = eslot
            /\ enext' = "synthesize" /\ UNCHANGED <<rout, trail, terminal>>
        BY <1>2, <2>2 DEF BeginRequest, EngineSends, Frame
      <3> QED BY <3>1, EngineEndsNothing DEF EngineAnnounces, Terminals
    <2> QED BY <2>1, <2>2
  <1>3. CASE EngineSend
    BY <1>3, EngineSendAnswers
  <1>4. CASE EngineChunk
    <2>1. UNCHANGED <<rout, trail, terminal, eslot>>
      BY <1>4 DEF EngineChunk
    <2>2. CASE epc' = "stopped"
      BY <2>1, <2>2, EngineEndsNothing DEF EngineAnnounces
    <2>3. CASE eout'.kind = "audio" /\ eout'.id = eslot /\ enext' = "chunk_sent"
      BY <2>1, <2>3, EngineEndsNothing DEF EngineAnnounces, Terminals
    <2> QED BY <1>4, <2>2, <2>3 DEF EngineChunk, EngineSends, Frame
  <1>5. CASE EngineChunkSent \/ EngineInvalidChunk
    <2>1. epc' # "send" /\ UNCHANGED <<rout, trail, terminal>>
      BY <1>5 DEF EngineChunkSent, EngineInvalidChunk, FailFatal
    <2> QED BY <2>1, EngineEndsNothing DEF EngineAnnounces
  <1>6. CASE \E outcome \in Terminals : SynthesizeReturns(outcome)
    BY <1>6, TerminalizeAnswers DEF SynthesizeReturns, EngineBusy
  <1>7. CASE EngineAck
    <2>1. UNCHANGED <<rout, trail, terminal>>
      BY <1>7 DEF EngineAck
    <2>2. epc' = "done" \/ eout'.kind = "shutdown_ack"
      BY <1>7 DEF EngineAck, EngineSends, Frame
    <2> QED BY <2>1, <2>2, EngineEndsNothing DEF EngineAnnounces, LifecycleKinds, Terminals
  <1> QED BY <1>1, <1>2, <1>3, <1>4, <1>5, <1>6, <1>7 DEF Engine

\* Initially nothing was handed over.
LEMMA InitAnswers == Init => Answers
  <1> SUFFICES ASSUME Init PROVE Answers
    OBVIOUS
  <1>1. \A r \in Ids : trail[r] = <<>>
    BY DEF Init
  <1>2. rout = <<>> /\ epc = "take"
    BY DEF Init
  <1>3. \A r \in Ids : ~Ended(trail, r) /\ ~ReaderHolds(r) /\ ~EngineHolds(r)
    BY <1>1, <1>2 DEF Ended, ReaderHolds, EngineHolds
  <1>4. TerminalFirst /\ HeldOnce
    BY <1>3 DEF TerminalFirst, HeldOnce
  <1>5. ReaderHoldsOne /\ ReaderQueues /\ EngineAnnounces
    BY <1>2 DEF ReaderHoldsOne, ReaderQueues, EngineAnnounces
  <1>6. NothingAfterTerminal
    BY <1>1 DEF NothingAfterTerminal
  <1> QED BY <1>4, <1>5, <1>6 DEF Answers

\* Every step of the server.
LEMMA NextAnswers == Inv /\ Answers /\ [Next]_vars => Answers'
  <1> SUFFICES ASSUME Inv, Answers, [Next]_vars PROVE Answers'
    OBVIOUS
  <1>1. CASE UNCHANGED vars
    BY <1>1, AnswersKept DEF vars, readerVars, engineVars, tableVars, histVars
  <1>2. CASE Writer
    BY <1>2, AnswersKept DEF Writer, WriterWrite, WriterFail, WriterExit, readerVars, engineVars,
                             tableVars, histVars
  <1> QED BY <1>1, <1>2, ReaderAnswers, EngineAnswers DEF Next, Exited

\* No request is answered twice: whatever cancel, shutdown, failures and the engine thread
\* do at the same time, nothing but a late `queued` follows a request's terminal frame.
THEOREM AnsweredOnce == Spec => []NothingAfterTerminal
  <1>1. Answers => NothingAfterTerminal
    BY DEF Answers
  <1> QED BY <1>1, Invariance, InitAnswers, NextAnswers, PTL DEF Spec
-----------------------------------------------------------------------------
(***************************************************************************)
(* How the session closes.  From request_shutdown on nothing waits; once   *)
(* its frames are out the reader sends nothing more; the writer is told to *)
(* stop when the engine thread has returned; and unless the session failed *)
(* the engine thread returns, and acknowledges, after the reader is done.  *)
(***************************************************************************)
ReaderCloses ==
  /\ rpc # "send" => rout = <<>>
  /\ rpc = "send" => rnext \in {"parse", "enqueued"}
  /\ rpc \in {"enqueued", "join", "drain", "exited"} => shutdown
  /\ rpc = "send" /\ rnext = "enqueued" => shutdown
  /\ shutdown => pending = <<>>
  /\ enqueued => shutdown /\ rpc \in {"close", "join", "drain", "exited"}

WriterStops ==
  /\ rpc \in {"drain", "exited"} => epc = "done"
  /\ stopping /\ ~failed => rpc \in {"drain", "exited"}
  /\ failed => stopping

EngineLeaves ==
  /\ epc \in {"ack", "done"} => fatal \/ enqueued
  /\ epc = "send" /\ enext = "done" => fatal \/ enqueued
  /\ epc = "send" /\ eout.kind = "shutdown_ack" => enext = "done"
  /\ acked => fatal \/ epc = "done"

\* The reader announces, cancels and answers; ends by synthesis and the acknowledgement
\* are the engine thread's.
ReaderSpeaks ==
  \A i \in DOMAIN rout : rout[i].kind \in {"queued", "cancelled", "ready", "pong", "reject"}

Leaving == ReaderCloses /\ WriterStops /\ EngineLeaves

-----------------------------------------------------------------------------
(* What the reader sends, and how the session closes                       *)

\* Every step of the server.
LEMMA NextSpeaks ==
  ASSUME Inv, ReaderSpeaks, [Next]_vars
  PROVE  ReaderSpeaks'
  <1>1. CASE UNCHANGED rout
    BY <1>1 DEF ReaderSpeaks
  <1>2. ASSUME NEW k \in {"queued", "cancelled", "ready", "pong", "reject"}, NEW r,
               rout' = <<Frame(k, r)>>
        PROVE  ReaderSpeaks'
    BY <1>2 DEF ReaderSpeaks, Frame
  <1>3. CASE rout' = <<>>
    BY <1>3 DEF ReaderSpeaks
  <1>4. ASSUME NEW ack, DrainPending(ack)
        PROVE  ReaderSpeaks'
    BY <1>4 DEF DrainPending, Reply, ReaderSpeaks, Frame
  <1>5. ASSUME NEW f \in Inputs, Handle(f)
        PROVE  ReaderSpeaks'
    <2>1. \/ \E k \in {"queued", "cancelled", "ready", "pong", "reject"}, r \in {0, f.id} :
               rout' = <<Frame(k, r)>>
          \/ rout' = <<>>
          \/ \E ack : DrainPending(ack)
      BY <1>5 DEF Handle, HandleInvalid, HandleHello, HandlePing, RejectSynthesize,
                  AdmitSynthesize, CancelQueued, CancelRunning, CancelInactive, HandleShutdown,
                  Reply
    <2> QED BY <2>1, <1>2, <1>3, <1>4
  <1>6. CASE ReaderSend
    <2>1. rout \in Seq(OutFrame) /\ rout # <<>> /\ rout' = Tail(rout)
      BY <1>6 DEF ReaderSend, Inv, Control, HandOver, ReaderTypeOK
    <2>2. \A i \in DOMAIN rout' : i + 1 \in DOMAIN rout /\ rout'[i] = rout[i + 1]
      BY <2>1, HeadTailProperties, LenProperties, EmptySeq
    <2> QED BY <2>2 DEF ReaderSpeaks
  <1>7. CASE ReaderClose
    BY <1>7, <1>3, <1>4 DEF ReaderClose, Reply
  <1>8. CASE \/ ReaderCheck \/ ReaderNeedMoreData \/ ReaderEnqueued \/ ReaderJoin \/ ReaderExit
             \/ ReaderRead \/ ReaderFramingError \/ Engine \/ Writer \/ UNCHANGED vars
    <2>1. UNCHANGED rout
      BY <1>8 DEF ReaderCheck, ReaderNeedMoreData, ReaderEnqueued, ReaderJoin, ReaderExit,
                  ReaderRead, ReaderFramingError, Goto, Engine, TakeRequest, BeginRequest,
                  EngineSend, EngineChunk, EngineChunkSent, EngineInvalidChunk,
                  SynthesizeReturns, Terminalize, EngineAck, Writer, WriterWrite, WriterFail,
                  WriterExit, readerVars, vars
    <2> QED BY <1>1, <2>1
  <1> QED BY <1>5, <1>6, <1>7, <1>8 DEF Next, ReaderRun, ReaderInput, Exited

\* Only the frame itself acknowledges.
LEMMA AcceptAcks ==
  ASSUME NEW f, Accept(f)
  PROVE  acked' => acked \/ f.kind = "shutdown_ack"
  BY Zenon DEF Accept

\* A handler other than shutdown.
LEMMA HandlerLeaves ==
  ASSUME Leaving, rpc = "parse", NEW fs, Reply(fs, "parse"),
         UNCHANGED <<shutdown, enqueued, fatal>>, shutdown => UNCHANGED pending
  PROVE  Leaving'
  BY DEF Leaving, ReaderCloses, WriterStops, EngineLeaves, Reply, engineVars, writerVars, histVars

\* request_shutdown.
LEMMA DrainLeaves ==
  ASSUME Leaving, rpc \in {"parse", "close"}, ~shutdown, NEW ack, DrainPending(ack)
  PROVE  Leaving'
  BY DEF Leaving, ReaderCloses, WriterStops, EngineLeaves, DrainPending, Reply, engineVars,
         writerVars, histVars

\* The handlers.
LEMMA HandleLeaves ==
  ASSUME Inv, Leaving, NEW f \in Inputs, Handle(f)
  PROVE  Leaving'
  <1>1. CASE HandleShutdown(f)
    BY <1>1, DrainLeaves DEF HandleShutdown, Parsed
  <1>2. CASE CancelQueued(f)
    <2>1. pending # <<>>
      BY <1>2 DEF CancelQueued, Queued
    <2>2. ~shutdown /\ UNCHANGED <<shutdown, enqueued, fatal>> /\ rpc = "parse"
      BY <1>2, <2>1 DEF CancelQueued, Parsed, flagVars, Leaving, ReaderCloses
    <2>3. \E fs : Reply(fs, "parse")
      BY <1>2 DEF CancelQueued
    <2> QED BY <2>2, <2>3, HandlerLeaves
  <1>3. CASE AdmitSynthesize(f)
    <2>1. ~shutdown /\ UNCHANGED <<shutdown, enqueued, fatal>> /\ rpc = "parse"
      BY <1>3 DEF AdmitSynthesize, Parsed, flagVars
    <2>2. \E fs : Reply(fs, "parse")
      BY <1>3 DEF AdmitSynthesize
    <2> QED BY <2>1, <2>2, HandlerLeaves
  <1>4. CASE \/ HandleInvalid(f) \/ HandleHello(f) \/ HandlePing(f)
             \/ RejectSynthesize(f) \/ CancelRunning(f) \/ CancelInactive(f)
    <2>1. UNCHANGED <<shutdown, enqueued, fatal, pending>> /\ rpc = "parse"
      BY <1>4 DEF HandleInvalid, HandleHello, HandlePing, RejectSynthesize, CancelRunning,
                  CancelInactive, Parsed, flagVars, tableVars
    <2>2. \E fs : Reply(fs, "parse")
      BY <1>4 DEF HandleInvalid, HandleHello, HandlePing, RejectSynthesize, CancelRunning,
                  CancelInactive
    <2> QED BY <2>1, <2>2, HandlerLeaves
  <1> QED BY <1>1, <1>2, <1>3, <1>4 DEF Handle

\* Every step of the reader thread.
LEMMA ReaderLeaves ==
  ASSUME Inv, Leaving, ReaderSpeaks, ReaderRun \/ ReaderInput
  PROVE  Leaving'
  <1> USE DEF Leaving, ReaderCloses, WriterStops, EngineLeaves, Goto, engineVars, tableVars,
              flagVars, writerVars, histVars
  <1>1. CASE \E f \in Inputs : Handle(f)
    BY <1>1, HandleLeaves
  <1>2. CASE ReaderCheck
    BY <1>2 DEF ReaderCheck
  <1>3. CASE ReaderNeedMoreData
    BY <1>3 DEF ReaderNeedMoreData
  <1>4. CASE ReaderSend
    <2>1. rout' = Tail(rout) /\ UNCHANGED <<epc, eout, enext, pending, shutdown, enqueued, stopping, failed>>
      BY <1>4 DEF ReaderSend, Accept, Refused, FailFatal
    <2>2. rpc = "send" /\ rnext \in {"parse", "enqueued"} /\ ~enqueued
      BY <1>4 DEF ReaderSend
    <2>3. rpc' # "send" => Len(rout) = 1 /\ rpc' = rnext
      BY <1>4 DEF ReaderSend
    <2>4. rpc' # "send" => rout' = <<>>
      <3>1. rout \in Seq(OutFrame) /\ rout # <<>>
        BY <2>2 DEF Inv, Control, HandOver, ReaderTypeOK
      <3> QED BY <2>1, <2>3, <3>1, HeadTailProperties, EmptySeq
    <2>5. rpc' = rnext \/ (rpc' = "send" /\ rnext' = rnext)
      BY <1>4 DEF ReaderSend
    <2>6. ReaderCloses'
      BY <2>1, <2>2, <2>3, <2>4, <2>5
    <2>7. (fatal => fatal') /\ (acked' => acked \/ Head(rout).kind = "shutdown_ack")
      BY <1>4, AcceptAcks DEF ReaderSend, Refused, FailFatal
    <2>8. Head(rout).kind # "shutdown_ack"
      <3>1. rout \in Seq(OutFrame) /\ rout # <<>>
        BY <2>2 DEF Inv, Control, HandOver, ReaderTypeOK
      <3>2. Head(rout) = rout[1] /\ 1 \in DOMAIN rout
        BY <3>1, HeadTailProperties, LenProperties, EmptySeq
      <3> QED BY <3>2 DEF ReaderSpeaks
    <2> QED BY <2>1, <2>2, <2>5, <2>6, <2>7, <2>8
  <1>5. CASE ReaderClose
    <2>1. CASE shutdown
      BY <1>5, <2>1 DEF ReaderClose, Reply
    <2>2. CASE ~shutdown
      BY <1>5, <2>2, DrainLeaves DEF ReaderClose
    <2> QED BY <2>1, <2>2
  <1>6. CASE ReaderEnqueued
    BY <1>6 DEF ReaderEnqueued
  <1>7. CASE ReaderJoin
    BY <1>7 DEF ReaderJoin
  <1>8. CASE ReaderExit
    BY <1>8 DEF ReaderExit
  <1>9. CASE ReaderRead
    BY <1>9 DEF ReaderRead
  <1>10. CASE ReaderFramingError
    BY <1>10 DEF ReaderFramingError, FailFatal
  <1> QED BY <1>1, <1>2, <1>3, <1>4, <1>5, <1>6, <1>7, <1>8, <1>9, <1>10
          DEF ReaderRun, ReaderInput

\* Every step of the engine thread.
LEMMA EngineLeavesToo ==
  ASSUME Inv, Leaving, Engine
  PROVE  Leaving'
  <1> USE DEF Leaving, ReaderCloses, WriterStops, EngineLeaves, readerVars, tableVars,
              flagVars, writerVars, histVars
  <1>1. CASE TakeRequest
    BY <1>1 DEF TakeRequest
  <1>2. ASSUME EngineBusy, NEW kind \in Terminals, Terminalize(kind)
        PROVE  Leaving'
    <2>1. epc # "done" /\ kind # "shutdown_ack"
      BY <1>2 DEF EngineBusy, Terminals
    <2>2. epc' = "take" \/ (epc' = "send" /\ enext' = "take" /\ eout'.kind = kind)
      BY <1>2 DEF Terminalize, EngineSends, Frame
    <2>3. UNCHANGED <<readerVars, flagVars, writerVars, histVars, pending>>
      BY <1>2 DEF Terminalize
    <2> QED BY <2>1, <2>2, <2>3
  <1>3. CASE BeginRequest
    <2>1. CASE eslot \in cancelled
      BY <1>3, <2>1, <1>2 DEF BeginRequest, EngineBusy, Terminals
    <2>2. CASE eslot \notin cancelled
      BY <1>3, <2>2 DEF BeginRequest, EngineSends, Frame
    <2> QED BY <2>1, <2>2
  <1>4. CASE EngineSend
    <2>1. /\ epc = "send" /\ enext' = "take" /\ UNCHANGED <<rpc, rout, rnext>>
          /\ epc' = enext \/ (enext = "chunk_sent" /\ epc' = "stopped")
          /\ enext \in {"synthesize", "chunk_sent", "take", "done"}
      BY <1>4 DEF EngineSend, Inv, Control, HandOver
    <2>2. /\ UNCHANGED <<pending, shutdown, enqueued, stopping, failed>> /\ (fatal => fatal')
      BY <1>4 DEF EngineSend, Accept, Refused, FailFatal
    <2>3. acked' => acked \/ eout.kind = "shutdown_ack"
      BY <1>4, AcceptAcks DEF EngineSend, Refused
    <2> QED BY <2>1, <2>2, <2>3
  <1>5. CASE EngineChunk
    BY <1>5 DEF EngineChunk, EngineSends, Frame
  <1>6. CASE EngineChunkSent
    BY <1>6 DEF EngineChunkSent
  <1>7. CASE EngineInvalidChunk
    BY <1>7 DEF EngineInvalidChunk, FailFatal
  <1>8. CASE \E outcome \in Terminals : SynthesizeReturns(outcome)
    BY <1>8, <1>2 DEF SynthesizeReturns, EngineBusy
  <1>9. CASE EngineAck
    BY <1>9 DEF EngineAck, EngineSends, Frame
  <1> QED BY <1>1, <1>3, <1>4, <1>5, <1>6, <1>7, <1>8, <1>9 DEF Engine

\* Every step of the server.
LEMMA NextLeaves ==
  ASSUME Inv, Leaving, ReaderSpeaks, [Next]_vars
  PROVE  Leaving'
  <1>1. CASE Writer \/ UNCHANGED vars
    BY <1>1 DEF Writer, WriterWrite, WriterFail, WriterExit, vars, Leaving, ReaderCloses,
                WriterStops, EngineLeaves, readerVars, engineVars, tableVars, flagVars,
                writerVars, histVars
  <1> QED BY <1>1, ReaderLeaves, EngineLeavesToo DEF Next, Exited

-----------------------------------------------------------------------------
(* What is owed                                                            *)

(***************************************************************************)
(* While stdout works, every request whose slot is terminal has its        *)
(* terminal frame: handed over, or held by one of the threads.             *)
(***************************************************************************)
Settled ==
  ~failed => \A r \in terminal : Ended(trail, r) \/ ReaderHolds(r) \/ EngineHolds(r)

\* Nothing is said of a request that was not accepted.
OnlyAccepted ==
  /\ \A r \in Ids \ Accepted : trail[r] = <<>>
  /\ \A i \in DOMAIN rout : rout[i].kind \in LifecycleKinds => rout[i].id \in Accepted
  /\ epc = "send" /\ eout.kind \in LifecycleKinds => eout.id \in Accepted

\* Synthesis is announced, and completes after that, while frames are still taken.
Announced ==
  /\ epc \in {"synthesize", "chunk_sent"} => stopping \/ HasStarted(trail, eslot)
  /\ epc = "send" /\ enext = "chunk_sent" => stopping \/ HasStarted(trail, eslot)
  /\ epc = "send" /\ enext = "synthesize" => eout.kind = "started" /\ eout.id = eslot
  /\ epc = "send" /\ eout.kind = "completed" => stopping \/ HasStarted(trail, eout.id)

Owed == Settled /\ OnlyAccepted /\ Announced

\* A step that hands nothing over and leaves both threads' held frames alone.
LEMMA OwedKept ==
  ASSUME Owed, UNCHANGED <<rout, epc, eslot, eout, enext, trail, terminal, active>>,
         stopping => stopping', failed => failed'
  PROVE  Owed'
  <1>1. \A r : /\ ReaderHolds(r)' = ReaderHolds(r) /\ EngineHolds(r)' = EngineHolds(r)
              /\ Ended(trail, r)' = Ended(trail, r)
              /\ HasStarted(trail, r)' = HasStarted(trail, r)
    BY DEF ReaderHolds, EngineHolds, Ended, HasStarted
  <1>2. Settled'
    BY <1>1 DEF Owed, Settled
  <1>3. OnlyAccepted'
    BY DEF Owed, OnlyAccepted, Accepted
  <1>4. Announced'
    BY DEF Owed, Announced, HasStarted
  <1> QED BY <1>2, <1>3, <1>4 DEF Owed

\* A handler: the reader held nothing, and now holds the end of each request it ended.
LEMMA ReplyOwes ==
  ASSUME Owed, rout = <<>>, UNCHANGED <<epc, eslot, eout, enext, trail, stopping, failed>>,
         Accepted \subseteq Accepted', \A r \in terminal' \ terminal : ReaderHolds(r)',
         \A i \in DOMAIN rout' : rout'[i].kind \in LifecycleKinds => rout'[i].id \in Accepted'
  PROVE  Owed'
  <1>1. \A r : /\ ~ReaderHolds(r) /\ EngineHolds(r)' = EngineHolds(r)
              /\ Ended(trail, r)' = Ended(trail, r)
    BY DEF ReaderHolds, EngineHolds, Ended
  <1>2. Settled'
    BY <1>1 DEF Owed, Settled
  <1>3. OnlyAccepted'
    BY DEF Owed, OnlyAccepted
  <1>4. Announced'
    BY DEF Owed, Announced, HasStarted
  <1> QED BY <1>2, <1>3, <1>4 DEF Owed

\* request_shutdown ends the waiting requests.
LEMMA DrainOwes ==
  ASSUME Inv, Owed, rout = <<>>, NEW ack, DrainPending(ack)
  PROVE  Owed'
  <1>1. /\ pending \in Seq(Ids) /\ ToSet(pending) \subseteq active /\ ToSet(pending) \subseteq Ids
        /\ ToSet(pending) \cap terminal = {}
    BY EntriesInSet DEF Inv, Table, TableTypeOK, SlotAccounting
  <1>2. Keep(pending, Ids \ terminal) = pending
    BY <1>1 DEF Keep
  <1>3. /\ terminal' = terminal \cup ToSet(pending) /\ active' = active \ ToSet(pending)
        /\ rout' = [i \in 1..Len(pending) |-> Frame("cancelled", pending[i])]
        /\ UNCHANGED <<epc, eslot, eout, enext, trail, stopping, failed>>
    BY <1>2 DEF DrainPending, Reply, engineVars, writerVars, histVars
  <1>4. Accepted' = Accepted
    BY <1>1, <1>3 DEF Accepted
  <1>5. /\ DOMAIN rout' = 1..Len(pending)
        /\ \A i \in 1..Len(pending) : /\ rout'[i].id = pending[i] /\ pending[i] \in ToSet(pending)
                                      /\ rout'[i].kind = "cancelled"
    BY <1>1, <1>3, LenProperties, EntriesInSet DEF Frame
  <1>6. \A r \in terminal' \ terminal : ReaderHolds(r)'
    BY <1>1, <1>3, <1>5, EntriesInSet DEF ReaderHolds, Terminals
  <1>7. \A i \in DOMAIN rout' : rout'[i].id \in Accepted'
    BY <1>1, <1>4, <1>5 DEF Accepted
  <1> QED BY <1>3, <1>4, <1>6, <1>7, ReplyOwes

\* The handlers.
LEMMA HandleOwes ==
  ASSUME Inv, Leaving, Owed, NEW f \in Inputs, Handle(f)
  PROVE  Owed'
  <1>1. rout = <<>> /\ rpc = "parse"
    BY DEF Handle, HandleInvalid, HandleHello, HandlePing, RejectSynthesize, AdmitSynthesize,
           CancelQueued, CancelRunning, CancelInactive, HandleShutdown, Parsed, Leaving,
           ReaderCloses
  <1>2. ASSUME NEW fs, Reply(fs, "parse"), UNCHANGED <<active, terminal>>,
               \A i \in DOMAIN fs : fs[i].kind \notin LifecycleKinds
        PROVE  Owed'
    <2>1. /\ rout' = fs /\ UNCHANGED <<epc, eslot, eout, enext, trail, stopping, failed>>
          /\ Accepted' = Accepted /\ terminal' \ terminal = {}
      BY <1>2 DEF Reply, engineVars, writerVars, histVars, Accepted
    <2> QED BY <1>1, <1>2, <2>1, ReplyOwes
  <1>3. ASSUME NEW k \in SessionKinds, NEW r, Reply(<<Frame(k, r)>>, "parse"),
               UNCHANGED <<active, terminal>>
        PROVE  Owed'
    <2>1. \A i \in DOMAIN <<Frame(k, r)>> : <<Frame(k, r)>>[i].kind \notin LifecycleKinds
      BY <1>3 DEF Frame, SessionKinds, LifecycleKinds, Terminals
    <2> QED BY <1>2, <1>3, <2>1
  <1>4. ASSUME Reply(<<>>, "parse"), UNCHANGED <<active, terminal>>
        PROVE  Owed'
    BY <1>2, <1>4
  <1>5. CASE \/ HandleInvalid(f) \/ HandleHello(f) \/ HandlePing(f)
             \/ RejectSynthesize(f) \/ CancelRunning(f) \/ CancelInactive(f)
    <2>1. UNCHANGED <<active, terminal>>
      BY <1>5 DEF HandleInvalid, HandleHello, HandlePing, RejectSynthesize, CancelRunning,
                  CancelInactive, tableVars
    <2>2. \/ \E k \in SessionKinds, r \in {0, f.id} : Reply(<<Frame(k, r)>>, "parse")
          \/ Reply(<<>>, "parse")
      BY <1>5 DEF HandleInvalid, HandleHello, HandlePing, RejectSynthesize, CancelRunning,
                  CancelInactive, SessionKinds
    <2> QED BY <2>1, <2>2, <1>3, <1>4
  <1>6. CASE AdmitSynthesize(f)
    <2>1. /\ rout' = <<Frame("queued", f.id)>> /\ Accepted' = Accepted \cup {f.id}
          /\ UNCHANGED <<epc, eslot, eout, enext, trail, stopping, failed, terminal>>
      BY <1>6 DEF AdmitSynthesize, Reply, engineVars, writerVars, histVars, Accepted
    <2>2. \A i \in DOMAIN rout' : rout'[i].id \in Accepted'
      BY <2>1 DEF Frame
    <2> QED BY <1>1, <2>1, <2>2, ReplyOwes
  <1>7. CASE CancelQueued(f)
    <2>1. f.id \in active /\ f.id \notin terminal
      BY <1>7 DEF CancelQueued, Inv, Table, SlotAccounting
    <2>2. /\ terminal' = terminal \cup {f.id} /\ active' = active \ {f.id}
          /\ rout' = <<Frame("cancelled", f.id)>>
          /\ UNCHANGED <<epc, eslot, eout, enext, trail, stopping, failed>>
      BY <1>7, <2>1 DEF CancelQueued, Reply, engineVars, writerVars, histVars
    <2>3. Accepted' = Accepted /\ f.id \in Accepted
      BY <2>1, <2>2 DEF Accepted
    <2>4. ReaderHolds(f.id)' /\ \A i \in DOMAIN rout' : rout'[i].id = f.id
      BY <2>2 DEF ReaderHolds, Frame, Terminals
    <2> QED BY <1>1, <2>2, <2>3, <2>4, ReplyOwes
  <1>8. CASE HandleShutdown(f)
    BY <1>1, <1>8, DrainOwes DEF HandleShutdown
  <1> QED BY <1>5, <1>6, <1>7, <1>8 DEF Handle

\* A refused frame of a thread that still sends means that stdout broke.
LEMMA RefusedMeansFailed ==
  ASSUME Leaving, rpc = "send" \/ epc = "send", stopping \/ failed
  PROVE  stopping /\ failed
  BY DEF Leaving, WriterStops

\* Handing over the next frame of a handler.
LEMMA ReaderSendOwes ==
  ASSUME Inv, Leaving, Owed, ReaderSend
  PROVE  Owed'
  <1> DEFINE f == Head(rout)
  <1>1. trail \in Trails /\ rout \in Seq(OutFrame) /\ rout # <<>> /\ rpc = "send"
    BY DEF ReaderSend, Inv, Control, HandOver, ReaderTypeOK, HistTypeOK, Trails
  <1>2. /\ f \in OutFrame /\ f = rout[1] /\ 1 \in DOMAIN rout
        /\ \A i \in DOMAIN rout : i = 1 \/ (i - 1 \in DOMAIN Tail(rout) /\ Tail(rout)[i - 1] = rout[i])
        /\ \A i \in DOMAIN Tail(rout) : i + 1 \in DOMAIN rout /\ Tail(rout)[i] = rout[i + 1]
    BY <1>1, HeadTailProperties, LenProperties, EmptySeq
  <1>3. rout' = Tail(rout) /\ UNCHANGED <<epc, eslot, eout, enext, active, terminal, stopping, failed>>
    BY DEF ReaderSend, Accept, Refused, FailFatal, engineVars, tableVars, writerVars
  <1> HIDE DEF f
  <1>4. /\ \A r : EngineHolds(r)' = EngineHolds(r)
        /\ \A r : ReaderHolds(r) => ReaderHolds(r)' \/ (f.id = r /\ f.kind \in Terminals)
    BY <1>2, <1>3 DEF ReaderHolds, EngineHolds
  <1>5. \A i \in DOMAIN rout' : rout'[i].kind \in LifecycleKinds => rout'[i].id \in Accepted'
    BY <1>2, <1>3 DEF Owed, OnlyAccepted, Accepted
  <1>6. f.kind \in LifecycleKinds => f.id \in Accepted
    BY <1>2 DEF Owed, OnlyAccepted
  <1>7. CASE Accept(f)
    <2>1. trail' = Record(trail, f)
      BY <1>7 DEF Accept
    <2>2. \A r \in Ids : /\ Ended(trail', r) <=> Ended(trail, r) \/ (f.id = r /\ f.kind \in Terminals)
                         /\ HasStarted(trail, r) => HasStarted(trail', r)
                         /\ r \notin Accepted => trail'[r] = trail[r]
      BY <1>1, <1>2, <1>6, <2>1, EndedByRecord, RecordAt
    <2>3. Settled'
      BY <1>3, <1>4, <2>2 DEF Owed, Settled, Inv, Table, TableTypeOK
    <2>4. OnlyAccepted'
      BY <1>3, <1>5, <2>2 DEF Owed, OnlyAccepted, Accepted
    <2>5. Announced'
      <3>1. epc \in {"synthesize", "chunk_sent"} \/ (epc = "send" /\ enext = "chunk_sent")
              => eslot \in Ids
        BY DEF Inv, Table, TableTypeOK, SlotAccounting, Running, EngineBusy
      <3>2. epc = "send" /\ eout.kind = "completed" => eout.id \in Ids
        BY DEF Owed, OnlyAccepted, Accepted, Inv, Table, TableTypeOK, LifecycleKinds, Terminals
      <3> QED BY <1>3, <2>2, <3>1, <3>2 DEF Owed, Announced
    <2> QED BY <2>3, <2>4, <2>5 DEF Owed
  <1>8. CASE Refused
    <2>1. failed /\ stopping /\ UNCHANGED trail
      BY <1>1, <1>8, RefusedMeansFailed DEF Refused, histVars
    <2> QED BY <1>3, <1>5, <2>1 DEF Owed, Settled, OnlyAccepted, Announced, Accepted
  <1> QED BY <1>7, <1>8 DEF ReaderSend, f

\* Every step of the reader thread.
LEMMA ReaderOwes ==
  ASSUME Inv, Leaving, Owed, ReaderRun \/ ReaderInput
  PROVE  Owed'
  <1>1. CASE \E f \in Inputs : Handle(f)
    BY <1>1, HandleOwes
  <1>2. CASE ReaderSend
    BY <1>2, ReaderSendOwes
  <1>3. CASE ReaderClose
    <2>1. rout = <<>>
      BY <1>3 DEF ReaderClose, Leaving, ReaderCloses
    <2>2. CASE shutdown
      <3>1. /\ rout' = <<>> /\ UNCHANGED <<epc, eslot, eout, enext, trail, stopping, failed>>
            /\ UNCHANGED <<terminal, active>>
        BY <1>3, <2>2 DEF ReaderClose, Reply, tableVars, engineVars, writerVars, histVars
      <3> QED BY <2>1, <3>1, OwedKept
    <2>3. CASE ~shutdown
      BY <1>3, <2>1, <2>3, DrainOwes DEF ReaderClose
    <2> QED BY <2>2, <2>3
  <1>4. CASE ReaderCheck \/ ReaderNeedMoreData \/ ReaderExit \/ ReaderRead
    BY <1>4, OwedKept DEF ReaderCheck, ReaderNeedMoreData, ReaderExit, ReaderRead, Goto,
                          engineVars, histVars, tableVars, writerVars
  <1>5. CASE ReaderEnqueued \/ ReaderJoin \/ ReaderFramingError
    BY <1>5, OwedKept DEF ReaderEnqueued, ReaderJoin, ReaderFramingError, FailFatal, Goto,
                          engineVars, histVars, tableVars, writerVars
  <1> QED BY <1>1, <1>2, <1>3, <1>4, <1>5 DEF ReaderRun, ReaderInput

\* A step of the engine thread that ends nothing and hands nothing over.
LEMMA EngineOwesNoMore ==
  ASSUME Owed, epc # "send", UNCHANGED <<rout, trail, terminal, active, stopping, failed>>,
         epc' = "send" /\ eout'.kind \in LifecycleKinds => eout'.id \in Accepted, Announced'
  PROVE  Owed'
  <1>1. \A r : /\ ReaderHolds(r)' = ReaderHolds(r) /\ ~EngineHolds(r)
              /\ Ended(trail, r)' = Ended(trail, r)
    BY DEF ReaderHolds, EngineHolds, Ended
  <1>2. Settled'
    BY <1>1 DEF Owed, Settled
  <1>3. OnlyAccepted'
    BY DEF Owed, OnlyAccepted, Accepted
  <1> QED BY <1>2, <1>3 DEF Owed

\* terminalize: the engine thread now holds the end of the request it ran.
LEMMA TerminalizeOwes ==
  ASSUME Inv, Owed, EngineBusy, epc # "send", NEW kind \in Terminals, Terminalize(kind),
         kind = "completed" => stopping \/ HasStarted(trail, eslot)
  PROVE  Owed'
  <1>1. eslot \in active /\ eslot \notin terminal /\ eslot \in Ids
    BY DEF Running, Inv, Table, TableTypeOK, SlotAccounting
  <1>2. /\ terminal' = terminal \cup {eslot} /\ active' = active \ {eslot}
        /\ epc' = "send" /\ enext' = "take" /\ eout'.kind = kind /\ eout'.id = eslot
        /\ UNCHANGED <<rout, trail, stopping, failed>>
    BY <1>1 DEF Terminalize, EngineSends, Frame, readerVars, histVars, writerVars
  <1>3. Accepted' = Accepted /\ eslot \in Accepted
    BY <1>1, <1>2 DEF Accepted
  <1>4. \A r : /\ ReaderHolds(r)' = ReaderHolds(r) /\ ~EngineHolds(r)
              /\ Ended(trail, r)' = Ended(trail, r)
    BY <1>2 DEF ReaderHolds, EngineHolds, Ended
  <1>5. \A r : r = eslot => EngineHolds(r)'
    BY <1>2 DEF EngineHolds
  <1>6. Settled'
    BY <1>2, <1>4, <1>5 DEF Owed, Settled
  <1>7. OnlyAccepted'
    BY <1>2, <1>3 DEF Owed, OnlyAccepted
  <1>8. Announced'
    BY <1>2 DEF Announced, HasStarted
  <1> QED BY <1>6, <1>7, <1>8 DEF Owed

\* Handing over the engine thread's frame.
LEMMA EngineSendOwes ==
  ASSUME Inv, Leaving, Owed, EngineSend
  PROVE  Owed'
  <1>1. trail \in Trails /\ eout \in OutFrame /\ epc = "send"
        /\ enext \in {"synthesize", "chunk_sent", "take", "done"}
    BY DEF EngineSend, Inv, Control, HandOver, EngineTypeOK, HistTypeOK, Trails
  <1>2. /\ epc' = enext \/ epc' = "stopped"
        /\ UNCHANGED <<eslot, rout, active, terminal, stopping, failed>>
    BY DEF EngineSend, Accept, Refused, FailFatal, readerVars, tableVars, writerVars
  <1>3. epc' # "send"
    BY <1>1, <1>2
  <1>4. /\ \A r : ReaderHolds(r)' = ReaderHolds(r)
        /\ \A r : EngineHolds(r) => eout.id = r /\ eout.kind \in Terminals
    BY <1>2 DEF ReaderHolds, EngineHolds
  <1>5. eout.kind \in LifecycleKinds => eout.id \in Accepted
    BY <1>1 DEF Owed, OnlyAccepted
  <1>6. CASE Accept(eout) /\ epc' = enext
    <2>1. trail' = Record(trail, eout)
      BY <1>6 DEF Accept
    <2>2. \A r \in Ids : /\ Ended(trail', r)
                              <=> Ended(trail, r) \/ (eout.id = r /\ eout.kind \in Terminals)
                         /\ HasStarted(trail', r)
                              <=> HasStarted(trail, r) \/ (eout.id = r /\ eout.kind = "started")
                         /\ r \notin Accepted => trail'[r] = trail[r]
      BY <1>1, <1>5, <2>1, EndedByRecord, RecordAt
    <2>3. Settled'
      BY <1>2, <1>4, <2>2 DEF Owed, Settled, Inv, Table, TableTypeOK
    <2>4. OnlyAccepted'
      BY <1>2, <1>3, <2>2 DEF Owed, OnlyAccepted, Accepted
    <2>5. Announced'
      <3>1. enext \in {"synthesize", "chunk_sent"} => eslot \in Ids
        BY <1>1 DEF Inv, Table, TableTypeOK, SlotAccounting, Running, EngineBusy
      <3> QED BY <1>1, <1>2, <1>3, <1>6, <2>2, <3>1 DEF Owed, Announced
    <2> QED BY <2>3, <2>4, <2>5 DEF Owed
  <1>7. CASE Refused
    <2>1. failed /\ stopping /\ UNCHANGED trail
      BY <1>1, <1>7, RefusedMeansFailed DEF Refused, histVars
    <2> QED BY <1>2, <1>3, <2>1 DEF Owed, Settled, OnlyAccepted, Announced, Accepted
  <1> QED BY <1>6, <1>7 DEF EngineSend

\* Every step of the engine thread.
LEMMA EngineOwes ==
  ASSUME Inv, Leaving, Owed, Engine
  PROVE  Owed'
  <1> USE DEF readerVars, tableVars, histVars, writerVars
  <1>1. EngineBusy => eslot \in Accepted
    BY DEF Inv, Table, SlotAccounting, Running, Accepted
  <1>2. CASE TakeRequest
    <2>1. /\ epc' \in {"begin", "ack"} /\ epc = "take"
          /\ UNCHANGED <<rout, trail, terminal, active, stopping, failed>>
      BY <1>2 DEF TakeRequest
    <2> QED BY <2>1, EngineOwesNoMore DEF Announced
  <1>3. CASE BeginRequest
    <2>1. CASE eslot \in cancelled
      BY <1>3, <2>1, TerminalizeOwes DEF BeginRequest, EngineBusy, Terminals
    <2>2. CASE eslot \notin cancelled
      <3>1. /\ eout'.kind = "started" /\ eout'.id = eslot /\ eslot' = eslot /\ epc = "begin"
            /\ enext' = "synthesize" /\ epc' = "send"
            /\ UNCHANGED <<rout, trail, terminal, active, stopping, failed>>
        BY <1>3, <2>2 DEF BeginRequest, EngineSends, Frame
      <3>2. Announced' /\ eslot \in Accepted
        BY <1>1, <3>1 DEF Announced, EngineBusy
      <3> QED BY <3>1, <3>2, EngineOwesNoMore
    <2> QED BY <2>1, <2>2
  <1>4. CASE EngineSend
    BY <1>4, EngineSendOwes
  <1>5. CASE EngineChunk
    <2>1. UNCHANGED <<rout, trail, terminal, active, stopping, failed, eslot>> /\ epc = "synthesize"
      BY <1>5 DEF EngineChunk
    <2>2. CASE epc' = "stopped"
      BY <2>1, <2>2, EngineOwesNoMore DEF Announced
    <2>3. CASE eout'.kind = "audio" /\ eout'.id = eslot /\ enext' = "chunk_sent" /\ epc' = "send"
      <3>1. Announced'
        BY <2>1, <2>3 DEF Owed, Announced, HasStarted
      <3>2. eslot \in Accepted
        BY <1>1, <2>1 DEF EngineBusy
      <3> QED BY <2>1, <2>3, <3>1, <3>2, EngineOwesNoMore
    <2> QED BY <1>5, <2>2, <2>3 DEF EngineChunk, EngineSends, Frame
  <1>6. CASE EngineChunkSent
    <2>1. /\ epc' \in {"stopped", "synthesize"} /\ epc = "chunk_sent"
          /\ UNCHANGED <<rout, trail, terminal, active, stopping, failed, eslot>>
      BY <1>6 DEF EngineChunkSent
    <2>2. Announced'
      BY <2>1 DEF Owed, Announced, HasStarted
    <2> QED BY <2>1, <2>2, EngineOwesNoMore
  <1>7. CASE EngineInvalidChunk
    <2>1. /\ epc' = "stopped" /\ epc = "synthesize"
          /\ UNCHANGED <<rout, trail, terminal, active, stopping, failed, eslot>>
      BY <1>7 DEF EngineInvalidChunk, FailFatal
    <2> QED BY <2>1, EngineOwesNoMore DEF Announced
  <1>8. ASSUME NEW outcome \in Terminals, SynthesizeReturns(outcome)
        PROVE  Owed'
    <2>1. EngineBusy /\ epc # "send" /\ Terminalize(outcome)
      BY <1>8 DEF SynthesizeReturns, EngineBusy
    <2>2. outcome = "completed" => stopping \/ HasStarted(trail, eslot)
      BY <1>8 DEF SynthesizeReturns, Owed, Announced
    <2> QED BY <2>1, <2>2, TerminalizeOwes
  <1>9. CASE EngineAck
    <2>1. UNCHANGED <<rout, trail, terminal, active, stopping, failed>> /\ epc = "ack"
      BY <1>9 DEF EngineAck
    <2>2. epc' = "done" \/ (epc' = "send" /\ eout'.kind = "shutdown_ack" /\ enext' = "done")
      BY <1>9 DEF EngineAck, EngineSends, Frame
    <2>3. Announced' /\ ~(epc' = "send" /\ eout'.kind \in LifecycleKinds)
      BY <2>2 DEF Announced, LifecycleKinds, Terminals
    <2> QED BY <2>1, <2>3, EngineOwesNoMore
  <1> QED BY <1>2, <1>3, <1>4, <1>5, <1>6, <1>7, <1>8, <1>9 DEF Engine

\* Every step of the server.
LEMMA NextOwes ==
  ASSUME Inv, Leaving, Owed, [Next]_vars
  PROVE  Owed'
  <1>1. CASE Writer \/ UNCHANGED vars
    <2>1. /\ UNCHANGED <<rout, epc, eslot, eout, enext, trail, terminal, active>>
          /\ stopping => stopping'
          /\ failed => failed'
      BY <1>1 DEF Writer, WriterWrite, WriterFail, WriterExit, vars, readerVars, engineVars,
                  tableVars, histVars, writerVars
    <2> QED BY <2>1, OwedKept
  <1> QED BY <1>1, ReaderOwes, EngineOwes DEF Next, Exited

-----------------------------------------------------------------------------
(* The theorems                                                            *)

EndInv == Inv /\ Answers /\ ReaderSpeaks /\ Leaving /\ Owed

\* Initially nothing is owed.
LEMMA InitEnd == Init => EndInv
  <1> SUFFICES ASSUME Init PROVE EndInv
    OBVIOUS
  <1>1. ReaderSpeaks /\ Leaving
    BY DEF Init, ReaderSpeaks, Leaving, ReaderCloses, WriterStops, EngineLeaves
  <1>2. Settled
    BY DEF Init, Settled
  <1>3. OnlyAccepted /\ Announced
    BY DEF Init, OnlyAccepted, Announced
  <1> QED BY <1>1, <1>2, <1>3, InitInv, InitAnswers DEF EndInv, Owed

\* Every step of the server preserves the invariant.
LEMMA NextEnd == EndInv /\ [Next]_vars => EndInv'
  <1> SUFFICES ASSUME EndInv, [Next]_vars PROVE EndInv'
    OBVIOUS
  <1>1. Inv /\ Answers /\ ReaderSpeaks /\ Leaving /\ Owed
    BY DEF EndInv
  <1>2. Inv' /\ Answers'
    BY <1>1, NextInv, NextAnswers
  <1>3. ReaderSpeaks' /\ Leaving' /\ Owed'
    BY <1>1, NextSpeaks, NextLeaves, NextOwes
  <1> QED BY <1>2, <1>3 DEF EndInv

\* The invariant holds in every reachable state.
LEMMA EndInvariance == Spec => []EndInv
  BY InitEnd, NextEnd, PTL DEF Spec

\* A worker that leaves run() while stdout works has answered every request it accepted,
\* whichever of cancel, shutdown, end of input and failure ended them.
THEOREM ExitSettles == Spec => []ExitOwesNothing
  <1>1. EndInv => ExitOwesNothing
    <2> SUFFICES ASSUME EndInv, rpc = "exited", ~failed
                 PROVE  active = {} /\ \A r \in Accepted : Ended(trail, r)
      BY DEF ExitOwesNothing
    <2>1. epc = "done" /\ rout = <<>> /\ pending = <<>>
      BY DEF EndInv, Leaving, ReaderCloses, WriterStops
    <2>2. active = {}
      BY <2>1, EntriesOfEmpty DEF EndInv, Inv, Table, SlotAccounting, Running, EngineBusy
    <2>3. \A r \in terminal : Ended(trail, r)
      BY <2>1 DEF EndInv, Owed, Settled, ReaderHolds, EngineHolds
    <2> QED BY <2>2, <2>3 DEF Accepted
  <1> QED BY <1>1, EndInvariance, PTL

-----------------------------------------------------------------------------
(***************************************************************************)
(* The refinement.  A step of the server is silent for the client, accepts *)
(* a request, or hands over one frame.                                     *)
(***************************************************************************)
Silent == UNCHANGED <<trail, acked>> /\ Accepted' = Accepted /\ (acked => (fatal' <=> fatal))

Accepts ==
  /\ UNCHANGED <<trail, acked, fatal>> /\ ~shutdown
  /\ \E r \in Ids \ Accepted : Accepted' = Accepted \cup {r}

HandsOver(f) ==
  /\ f \in OutFrame /\ trail' = Record(trail, f)
  /\ acked' = (acked \/ f.kind = "shutdown_ack")
  /\ Accepted' = Accepted /\ fatal' = fatal
  /\ f.kind \in LifecycleKinds => f.id \in Accepted
  /\ f.kind = "completed" => HasStarted(trail, f.id)
  /\ f.kind = "shutdown_ack" => fatal \/ \A r \in Accepted : Ended(trail, r)

\* Once shutdown was acknowledged in a session that did not fail, it cannot fail.
LEMMA NoLateFailure ==
  ASSUME EndInv, acked, FailFatal, rpc \in {"parse", "send"} \/ epc \in {"send", "synthesize"}
  PROVE  fatal
  BY DEF EndInv, Leaving, EngineLeaves, ReaderCloses

\* The reader thread.
LEMMA ReaderShows ==
  ASSUME EndInv, ReaderRun \/ ReaderInput
  PROVE  Silent \/ Accepts \/ \E f : HandsOver(f)
  <1> USE DEF engineVars, tableVars, flagVars, writerVars, histVars
  <1>1. ASSUME UNCHANGED <<trail, acked, fatal, active, terminal>>
        PROVE  Silent
    BY <1>1 DEF Silent, Accepted
  <1>2. ASSUME NEW ack, DrainPending(ack)
        PROVE  Silent
    <2>1. /\ pending \in Seq(Ids) /\ ToSet(pending) \subseteq active /\ ToSet(pending) \subseteq Ids
          /\ ToSet(pending) \cap terminal = {}
      BY EntriesInSet DEF EndInv, Inv, Table, TableTypeOK, SlotAccounting
    <2>2. Keep(pending, Ids \ terminal) = pending
      BY <2>1 DEF Keep
    <2>3. /\ terminal' = terminal \cup ToSet(pending) /\ active' = active \ ToSet(pending)
          /\ UNCHANGED <<trail, acked, fatal>>
      BY <1>2, <2>2 DEF DrainPending, Reply
    <2> QED BY <2>1, <2>3 DEF Silent, Accepted
  <1>3. ASSUME NEW f \in Inputs, Handle(f)
        PROVE  Silent \/ Accepts
    <2>1. CASE \/ HandleInvalid(f) \/ HandleHello(f) \/ HandlePing(f)
               \/ RejectSynthesize(f) \/ CancelRunning(f) \/ CancelInactive(f)
      <3>1. UNCHANGED <<trail, acked, fatal, active, terminal>>
        BY <2>1 DEF HandleInvalid, HandleHello, HandlePing, RejectSynthesize, CancelRunning,
                    CancelInactive, Reply
      <3> QED BY <1>1, <3>1
    <2>2. CASE AdmitSynthesize(f)
      <3>1. /\ f.id \in Ids /\ f.id > highWater /\ f.id \notin active
            /\ highWater \in 0..MaxId /\ Accepted \subseteq 1..highWater
        BY <2>2, NativeAssumption DEF AdmitSynthesize, Duplicate, ClientFrame, Ids, EndInv, Inv,
                                      Table, TableTypeOK, IdsBelowHighWater
      <3>2. f.id \in Ids \ Accepted
        BY <3>1 DEF Ids
      <3>3. /\ active' = active \cup {f.id} /\ UNCHANGED <<trail, acked, fatal, terminal>>
            /\ ~shutdown
        BY <2>2 DEF AdmitSynthesize, Reply
      <3> QED BY <3>2, <3>3 DEF Accepts, Accepted
    <2>3. CASE CancelQueued(f)
      <3>1. f.id \in active /\ f.id \notin terminal
        BY <2>3 DEF CancelQueued, EndInv, Inv, Table, SlotAccounting
      <3>2. /\ terminal' = terminal \cup {f.id} /\ active' = active \ {f.id}
            /\ UNCHANGED <<trail, acked, fatal>>
        BY <2>3, <3>1 DEF CancelQueued, Reply
      <3> QED BY <3>1, <3>2 DEF Silent, Accepted
    <2>4. CASE HandleShutdown(f)
      BY <2>4, <1>2 DEF HandleShutdown
    <2> QED BY <1>3, <2>1, <2>2, <2>3, <2>4 DEF Handle
  <1>4. CASE ReaderClose
    <2>1. CASE shutdown
      BY <1>4, <2>1, <1>1 DEF ReaderClose, Reply
    <2>2. CASE ~shutdown
      BY <1>4, <2>2, <1>2 DEF ReaderClose
    <2> QED BY <2>1, <2>2
  <1>5. CASE \/ ReaderCheck \/ ReaderNeedMoreData \/ ReaderExit \/ ReaderRead
             \/ ReaderEnqueued \/ ReaderJoin
    BY <1>5, <1>1 DEF ReaderCheck, ReaderNeedMoreData, ReaderExit, ReaderRead, ReaderEnqueued,
                      ReaderJoin
  <1>6. CASE ReaderFramingError
    BY <1>6, NoLateFailure DEF ReaderFramingError, FailFatal, Silent, Accepted
  <1>7. CASE ReaderSend
    <2> DEFINE f == Head(rout)
    <2>1. rpc = "send" /\ rout \in Seq(OutFrame) /\ rout # <<>>
      BY <1>7 DEF ReaderSend, EndInv, Inv, Control, HandOver, ReaderTypeOK
    <2>2. f \in OutFrame /\ f = rout[1] /\ 1 \in DOMAIN rout
      BY <2>1, HeadTailProperties, LenProperties, EmptySeq
    <2>3. /\ f.kind \in LifecycleKinds => f.id \in Accepted
          /\ f.kind \notin {"completed", "shutdown_ack"}
      BY <2>2 DEF EndInv, Owed, OnlyAccepted, ReaderSpeaks
    <2>4. CASE Accept(f) /\ UNCHANGED <<tableVars, flagVars>>
      <3>1. acked' = (acked \/ f.kind = "shutdown_ack") /\ trail' = Record(trail, f)
        BY <2>4, Zenon DEF Accept
      <3>2. Accepted' = Accepted /\ fatal' = fatal
        BY <2>4 DEF Accepted
      <3> HIDE DEF f
      <3> QED BY <2>2, <2>3, <3>1, <3>2, Zenon DEF HandsOver
    <2>5. CASE Refused
      BY <2>1, <2>5, NoLateFailure DEF Refused, FailFatal, Silent, Accepted
    <2> QED BY <1>7, <2>4, <2>5 DEF ReaderSend
  <1> QED BY <1>3, <1>4, <1>5, <1>6, <1>7 DEF ReaderRun, ReaderInput

\* The engine thread.
LEMMA EngineShows ==
  ASSUME EndInv, Engine
  PROVE  Silent \/ \E f : HandsOver(f)
  <1> USE DEF readerVars, tableVars, flagVars, writerVars, histVars
  <1>1. ASSUME UNCHANGED <<trail, acked, fatal, active, terminal>>
        PROVE  Silent
    BY <1>1 DEF Silent, Accepted
  <1>2. ASSUME EngineBusy, NEW kind \in Terminals, Terminalize(kind)
        PROVE  Silent
    <2>1. eslot \in active /\ eslot \notin terminal
      BY <1>2 DEF Running, EndInv, Inv, Table, SlotAccounting
    <2>2. /\ terminal' = terminal \cup {eslot} /\ active' = active \ {eslot}
          /\ UNCHANGED <<trail, acked, fatal>>
      BY <1>2, <2>1 DEF Terminalize
    <2> QED BY <2>1, <2>2 DEF Silent, Accepted
  <1>3. CASE TakeRequest \/ EngineChunk \/ EngineChunkSent \/ EngineAck
    BY <1>3, <1>1 DEF TakeRequest, EngineChunk, EngineChunkSent, EngineAck
  <1>4. CASE BeginRequest
    <2>1. CASE eslot \in cancelled
      BY <1>4, <2>1, <1>2 DEF BeginRequest, EngineBusy, Terminals
    <2>2. CASE eslot \notin cancelled
      BY <1>4, <2>2, <1>1 DEF BeginRequest
    <2> QED BY <2>1, <2>2
  <1>5. CASE EngineInvalidChunk
    BY <1>5, NoLateFailure DEF EngineInvalidChunk, FailFatal, Silent, Accepted
  <1>6. CASE \E outcome \in Terminals : SynthesizeReturns(outcome)
    BY <1>6, <1>2 DEF SynthesizeReturns, EngineBusy
  <1>7. CASE EngineSend
    <2>1. epc = "send" /\ eout \in OutFrame
      BY <1>7 DEF EngineSend, EndInv, Inv, Control, EngineTypeOK
    <2>2. eout.kind \in LifecycleKinds => eout.id \in Accepted
      BY <2>1 DEF EndInv, Owed, OnlyAccepted
    <2>3. CASE Accept(eout) /\ UNCHANGED <<tableVars, flagVars>>
      <3>1. ~stopping /\ ~failed
        BY <2>3 DEF Accept
      <3>2. eout.kind = "completed" => HasStarted(trail, eout.id)
        BY <2>1, <3>1 DEF EndInv, Owed, Announced
      <3>3. ASSUME eout.kind = "shutdown_ack", ~fatal
            PROVE  \A r \in Accepted : Ended(trail, r)
        <4>1. enext = "done" /\ enqueued /\ shutdown /\ rout = <<>> /\ pending = <<>>
          BY <2>1, <3>3 DEF EndInv, Leaving, EngineLeaves, ReaderCloses
        <4>2. active = {}
          BY <2>1, <4>1, EntriesOfEmpty DEF EndInv, Inv, Table, SlotAccounting, Running, EngineBusy
        <4>3. \A r \in terminal : Ended(trail, r)
          BY <3>1, <3>3, <4>1 DEF EndInv, Owed, Settled, ReaderHolds, EngineHolds, Terminals
        <4> QED BY <4>2, <4>3 DEF Accepted
      <3>4. acked' = (acked \/ eout.kind = "shutdown_ack") /\ trail' = Record(trail, eout)
        BY <2>3, Zenon DEF Accept
      <3>5. Accepted' = Accepted /\ fatal' = fatal
        BY <2>3 DEF Accepted
      <3> QED BY <2>1, <2>2, <3>2, <3>3, <3>4, <3>5, Zenon DEF HandsOver
    <2>4. CASE Refused
      BY <2>1, <2>4, NoLateFailure DEF Refused, FailFatal, Silent, Accepted
    <2> QED BY <1>7, <2>3, <2>4 DEF EngineSend
  <1> QED BY <1>3, <1>4, <1>5, <1>6, <1>7 DEF Engine

\* Every step of the server.
LEMMA NextShows ==
  ASSUME EndInv, [Next]_vars
  PROVE  Silent \/ Accepts \/ \E f : HandsOver(f)
  <1>1. CASE Writer \/ UNCHANGED vars
    BY <1>1 DEF Writer, WriterWrite, WriterFail, WriterExit, vars, tableVars, flagVars, histVars,
                Silent, Accepted
  <1> QED BY <1>1, ReaderShows, EngineShows DEF Next, Exited

\* The phases and the acknowledgement that the client sees.
wirePhases == Phases(trail, Accepted)
wireAcked == acked /\ ~fatal

\* What a step does to the phases and the acknowledgement that the client sees.
LEMMA StepShows ==
  ASSUME EndInv, [Next]_vars
  PROVE  \/ wirePhases' = wirePhases /\ wireAcked' = wireAcked
         \/ /\ Moves(wirePhases, wirePhases') /\ wireAcked' = wireAcked
         \/ /\ ~wireAcked /\ wireAcked' = wireAcked
            /\ \E r \in Ids : /\ wirePhases[r] = "created"
                              /\ wirePhases' = [wirePhases EXCEPT ![r] = "queued"]
         \/ /\ ~wireAcked /\ wireAcked' = TRUE /\ wirePhases' = wirePhases
            /\ \A r \in Ids : wirePhases[r] \notin {"queued", "running"}
  <1>1. trail \in Trails /\ Accepted \subseteq Ids
    BY DEF EndInv, Inv, Control, HistTypeOK, Trails, Table, TableTypeOK, Accepted
  <1>2. CASE Silent
    <2>1. wirePhases' = wirePhases
      BY <1>2 DEF Silent, wirePhases, Phases
    <2>2. wireAcked' = wireAcked
      BY <1>2, Zenon DEF Silent, wireAcked
    <2> QED BY <2>1, <2>2
  <1>3. CASE Accepts
    <2>1. PICK r \in Ids \ Accepted : Accepted' = Accepted \cup {r}
      BY <1>3 DEF Accepts
    <2>2. trail[r] = <<>>
      BY <2>1 DEF EndInv, Owed, OnlyAccepted
    <2>3. wirePhases' = Phases(trail, Accepted \cup {r})
      BY <1>3, <2>1 DEF Accepts, wirePhases, Phases
    <2>4. ~wireAcked /\ wireAcked' = wireAcked
      <3>1. ~shutdown /\ ~enqueued /\ UNCHANGED <<acked, fatal>>
        BY <1>3 DEF Accepts, EndInv, Leaving, ReaderCloses
      <3>2. ~wireAcked
        BY <3>1 DEF EndInv, Leaving, EngineLeaves, wireAcked
      <3> QED BY <3>1, <3>2 DEF wireAcked
    <2> QED BY <1>1, <2>1, <2>2, <2>3, <2>4, AcceptMoves DEF wirePhases
  <1>4. ASSUME NEW f, HandsOver(f)
        PROVE  \/ wirePhases' = wirePhases /\ wireAcked' = wireAcked
               \/ /\ Moves(wirePhases, wirePhases') /\ wireAcked' = wireAcked
               \/ /\ ~wireAcked /\ wireAcked' = TRUE /\ wirePhases' = wirePhases
                  /\ \A r \in Ids : wirePhases[r] \notin {"queued", "running"}
    <2>1. /\ f \in OutFrame /\ trail' = Record(trail, f) /\ Accepted' = Accepted /\ fatal' = fatal
          /\ f.kind \in LifecycleKinds => f.id \in Accepted \cap Ids
          /\ f.kind = "completed" => HasStarted(trail, f.id)
      BY <1>1, <1>4 DEF HandsOver
    <2>2. wirePhases' = Phases(Record(trail, f), Accepted)
      BY <2>1 DEF wirePhases
    <2>3. wirePhases' = wirePhases \/ Moves(wirePhases, wirePhases')
      BY <1>1, <2>1, <2>2, HandOverMoves DEF wirePhases
    <2>4. CASE f.kind # "shutdown_ack"
      <3>1. wireAcked' = wireAcked
        BY <1>4, <2>4, Zenon DEF HandsOver, wireAcked
      <3> QED BY <2>3, <3>1
    <2>5. CASE f.kind = "shutdown_ack"
      <3>1. \A r \in Ids : wirePhases'[r] = wirePhases[r]
        BY <1>1, <2>1, <2>2, <2>5, PhaseKept DEF wirePhases, Phases, Terminals
      <3>2. wirePhases' = wirePhases
        BY <3>1 DEF wirePhases, Phases
      <3>3. CASE fatal
        <4>1. wireAcked' = wireAcked
          BY <2>1, <3>3 DEF wireAcked
        <4> QED BY <3>2, <4>1
      <3>4. CASE acked
        <4>1. acked'
          BY <1>4, <3>4, Zenon DEF HandsOver
        <4>2. wireAcked' = wireAcked
          BY <2>1, <3>4, <4>1 DEF wireAcked
        <4> QED BY <3>2, <4>2
      <3>5. CASE ~fatal /\ ~acked
        <4>1. acked'
          BY <1>4, <2>5, Zenon DEF HandsOver
        <4>2. ~wireAcked /\ wireAcked' = TRUE
          BY <2>1, <3>5, <4>1 DEF wireAcked
        <4>3. ASSUME NEW r \in Ids
              PROVE  wirePhases[r] \notin {"queued", "running"}
          <5>1. wirePhases[r] = WirePhase(trail, Accepted, r)
            BY DEF wirePhases, Phases
          <5>2. CASE r \in Accepted
            <6>1. PICK i : FirstEnd(trail[r], i)
              BY <1>1, <1>4, <2>5, <3>5, <5>2, EndedHasFirst DEF HandsOver
            <6>2. wirePhases[r] = trail[r][i]
              BY <1>1, <5>1, <6>1, EndedPhase
            <6> QED BY <6>1, <6>2 DEF FirstEnd, Terminals
          <5>3. CASE r \notin Accepted
            <6>1. ~Ended(trail, r) /\ ~HasStarted(trail, r)
              BY <5>3 DEF EndInv, Owed, OnlyAccepted, Ended, HasStarted
            <6> QED BY <5>1, <5>3, <6>1, LivePhase
          <5> QED BY <5>2, <5>3
        <4> QED BY <3>2, <4>2, <4>3
      <3> QED BY <3>3, <3>4, <3>5
    <2> QED BY <2>4, <2>5
  <1> QED BY <1>2, <1>3, <1>4, NextShows

\* The native worker implements the request lifecycle of the protocol: whatever the threads
\* interleave and whichever failure occurs, each request goes through the allowed phases, and
\* the acknowledgement of a session that did not fail comes after every end.
THEOREM RefinesLifecycle == Spec => ImplementsLifecycle
  <1>1. Init => Lifecycle!Init
    <2> SUFFICES ASSUME Init PROVE Lifecycle!Init
      OBVIOUS
    <2>1. \A r \in Ids : ~Ended(trail, r) /\ ~HasStarted(trail, r)
      BY DEF Init, Ended, HasStarted
    <2>2. Accepted = {}
      BY DEF Init, Accepted
    <2>3. \A r \in Ids : WirePhase(trail, Accepted, r) = "created"
      BY <2>1, <2>2, LivePhase
    <2>4. (acked /\ ~fatal) = FALSE
      BY DEF Init
    <2> QED BY <2>3, <2>4 DEF Lifecycle!Init
  <1>2. EndInv /\ [Next]_vars => [Lifecycle!Next]_(Lifecycle!lifecycleVars)
    <2> SUFFICES ASSUME EndInv, [Next]_vars
                 PROVE  [Lifecycle!Next]_(Lifecycle!lifecycleVars)
      OBVIOUS
    <2>1. /\ wirePhases = [r \in Ids |-> WirePhase(trail, Accepted, r)]
          /\ wirePhases' = [r \in Ids |-> WirePhase(trail, Accepted, r)]'
          /\ wireAcked = (acked /\ ~fatal)
          /\ wireAcked' = (acked /\ ~fatal)'
      BY DEF wirePhases, wireAcked, Phases
    <2>2. CASE wirePhases' = wirePhases /\ wireAcked' = wireAcked
      BY <2>1, <2>2 DEF Lifecycle!lifecycleVars
    <2>3. CASE Moves(wirePhases, wirePhases') /\ wireAcked' = wireAcked
      <3>1. PICK r \in Ids :
              \/ wirePhases[r] = "queued" /\ wirePhases' = [wirePhases EXCEPT ![r] = "running"]
              \/ \E outcome \in Terminals :
                   /\ wirePhases[r] = "running" \/ (wirePhases[r] = "queued" /\ outcome # "completed")
                   /\ wirePhases' = [wirePhases EXCEPT ![r] = outcome]
        BY <2>3 DEF Moves
      <3>2. Lifecycle!Start(r) \/ \E outcome \in Lifecycle!Done : Lifecycle!End(r, outcome)
        BY <2>1, <2>3, <3>1 DEF Lifecycle!Start, Lifecycle!End, Lifecycle!Done, Terminals
      <3> QED BY <3>2 DEF Lifecycle!Next
    <2>4. ASSUME ~wireAcked, wireAcked' = wireAcked, NEW r \in Ids, wirePhases[r] = "created",
                 wirePhases' = [wirePhases EXCEPT ![r] = "queued"]
          PROVE  [Lifecycle!Next]_(Lifecycle!lifecycleVars)
      <3>1. Lifecycle!Admit(r)
        BY <2>1, <2>4 DEF Lifecycle!Admit
      <3> QED BY <3>1 DEF Lifecycle!Next
    <2>5. CASE /\ ~wireAcked /\ wireAcked' = TRUE /\ wirePhases' = wirePhases
               /\ \A r \in Ids : wirePhases[r] \notin {"queued", "running"}
      <3>1. Lifecycle!Acknowledge
        BY <2>1, <2>5 DEF Lifecycle!Acknowledge
      <3> QED BY <3>1 DEF Lifecycle!Next
    <2> QED BY <2>2, <2>3, <2>4, <2>5, StepShows
  <1> QED BY <1>1, <1>2, EndInvariance, PTL DEF Spec, ImplementsLifecycle, Lifecycle!Spec
=============================================================================
