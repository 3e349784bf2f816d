--------------------------- MODULE PyWorkerProofs ---------------------------
(***************************************************************************)
(* Proofs about the Python worker, for every number of request ids, every  *)
(* admission limit, every output queue capacity and every set of inputs    *)
(* and faults: slot accounting, what is owed when it exits, and that it    *)
(* implements the request lifecycle of the protocol.                       *)
(***************************************************************************)
EXTENDS PyWorker, QtbFramesProofs

(***************************************************************************)
(* The parts of TypeOK, by the thread that changes them.                   *)
(***************************************************************************)
ReaderTypes == rpc \in ReaderPcs /\ rout \in Seq(OutFrame) /\ rnext \in ReaderPcs

EngineTypes ==
  /\ epc \in EnginePcs /\ eslot \in 0..MaxId /\ eout \in OutFrame
  /\ enext \in EnginePcs /\ chunks \in 0..MaxChunks

TableTypes ==
  /\ pending \in Seq(Ids) /\ active \subseteq Ids /\ physical \subseteq Ids
  /\ admitted \in Nat /\ highWater \in 0..MaxId
  /\ cancelled \subseteq Ids /\ notified \subseteq Ids /\ accepted \subseteq Ids

FlagTypes ==
  /\ ready \in BOOLEAN /\ shutdown \in BOOLEAN /\ ackNeeded \in BOOLEAN
  /\ enqueued \in BOOLEAN /\ fatal \in BOOLEAN

OutputTypes ==
  /\ backlog \in 0..Capacity /\ sentinel \in BOOLEAN /\ wdone \in BOOLEAN
  /\ trail \in Trails /\ acked \in BOOLEAN

(***************************************************************************)
(* The strengthening of SlotAccounting.  A thread that is sending has a    *)
(* frame and does not come back to that point; the engine thread waits for *)
(* the startup; accepted ids never exceed the high-water mark, which is    *)
(* why a new one has no slot and was not answered; and an answered request *)
(* is not active.                                                          *)
(***************************************************************************)
HandOver ==
  /\ rpc = "send" => rout # <<>>
  /\ rnext \notin {"send", "startup"}
  /\ enext \in {"synthesize", "take", "done"}
  /\ rpc = "startup" <=> epc = "startup"

Known ==
  /\ accepted \subseteq 1..highWater
  /\ physical \subseteq accepted /\ notified \subseteq accepted
  /\ active \cap notified = {}

Table == TableTypes /\ SlotAccounting /\ Known

Control == ReaderTypes /\ EngineTypes /\ FlagTypes /\ OutputTypes /\ HandOver

Inv == Control /\ Table

(***************************************************************************)
(* How the session closes.  From _request_shutdown on nothing waits; once  *)
(* its frames are out the main thread sends nothing more; the engine       *)
(* thread acknowledges after that, and the process ends after the engine   *)
(* thread.                                                                 *)
(***************************************************************************)
Leaving ==
  /\ rpc # "send" => rout = <<>>
  /\ rpc = "send" => rnext \in {"parse", "enqueued"}
  /\ rpc \in {"enqueued", "join", "drain", "exited"} => shutdown
  /\ rpc = "send" /\ rnext = "enqueued" => shutdown
  /\ shutdown => pending = <<>>
  /\ enqueued => shutdown /\ rpc \in {"close", "join", "drain", "exited"}
  /\ rpc \in {"drain", "exited"} => epc = "done"
  /\ epc = "ack" => enqueued
  /\ epc = "send" /\ enext = "done" => eout.kind = "shutdown_ack"
  /\ epc = "send" /\ eout.kind = "shutdown_ack" => enext = "done" /\ enqueued
  /\ acked => enqueued

\* The main thread announces, cancels and answers; ends by synthesis and the
\* acknowledgement are the engine thread's.
ReaderSpeaks ==
  \A i \in DOMAIN rout : rout[i].kind \in {"queued", "cancelled", "ready", "pong", "reject"}

(***************************************************************************)
(* What is owed.  Every request that is no longer active has its terminal  *)
(* frame: put on the queue, or held by one of the threads.                 *)
(***************************************************************************)
ReaderHolds(r) == \E i \in DOMAIN rout : rout[i].id = r /\ rout[i].kind \in Terminals

EngineHolds(r) == epc = "send" /\ eout.id = r /\ eout.kind \in Terminals

Settled ==
  \A r \in accepted \ active : Ended(trail, r) \/ ReaderHolds(r) \/ EngineHolds(r)

\* Nothing is said of a request that was not accepted.
OnlyAccepted ==
  /\ \A r \in Ids \ accepted : trail[r] = <<>>
  /\ \A i \in DOMAIN rout : rout[i].kind \in LifecycleKinds => rout[i].id \in accepted
  /\ epc = "send" /\ eout.kind \in LifecycleKinds => eout.id \in accepted

\* Synthesis is announced, and completes after that.
Announced ==
  /\ epc \in {"synthesize", "finish", "complete"} => HasStarted(trail, eslot)
  /\ epc = "send" /\ enext = "synthesize" =>
       /\ eout.id = eslot
       /\ eout.kind = "started" \/ (eout.kind = "audio" /\ HasStarted(trail, eslot))
  /\ epc = "send" /\ eout.kind = "completed" => HasStarted(trail, eout.id)

Owed == Settled /\ OnlyAccepted /\ Announced

EndInv == Inv /\ Leaving /\ ReaderSpeaks /\ Owed
-----------------------------------------------------------------------------
(* Lemmas about the parts of actions                                       *)

\* The frames the actions build are output frames.
LEMMA FramesBuilt ==
  /\ NoFrame \in OutFrame /\ Frame("shutdown_ack", 0) \in OutFrame
  /\ Frame("ready", 0) \in OutFrame /\ Frame("pong", 0) \in OutFrame
  /\ \A r \in 0..MaxId : /\ Frame("reject", r) \in OutFrame /\ Frame("queued", r) \in OutFrame
                         /\ Frame("started", r) \in OutFrame /\ Frame("audio", r) \in OutFrame
                         /\ \A k \in Terminals : Frame(k, r) \in OutFrame
  <1>1. 0 \in 0..MaxId
    BY MaxIdAssumption
  <1> QED BY <1>1, FrameType DEF NoFrame, SessionKinds, LifecycleKinds

\* No frame at all, or one frame, is a sequence of frames.
LEMMA ShortReplies ==
  /\ <<>> \in Seq(OutFrame)
  /\ \A f \in OutFrame : <<f>> \in Seq(OutFrame)
  OBVIOUS

\* A frame put on the queue keeps it within its maxsize.
LEMMA PutType ==
  ASSUME OutputTypes, NEW f \in OutFrame, Put(f)
  PROVE  OutputTypes'
  <1>1. backlog' \in 0..Capacity /\ sentinel' \in BOOLEAN /\ wdone' \in BOOLEAN
    BY PyAssumption DEF OutputTypes, Put
  <1>2. acked' \in BOOLEAN
    BY DEF OutputTypes, Put
  <1>3. trail' \in Trails
    BY RecordType DEF OutputTypes, Put
  <1> QED BY <1>1, <1>2, <1>3 DEF OutputTypes

\* Running depends on the engine thread alone.
LEMMA RunningKept == UNCHANGED engineVars => Running' = Running
  BY DEF engineVars, Running, EngineBusy

\* A step that leaves the table and the running request alone.
LEMMA TableKept ==
  ASSUME Table, UNCHANGED <<tableVars, accepted>>, Running' = Running
  PROVE  Table'
  BY DEF Table, TableTypes, SlotAccounting, Known, tableVars

\* Ids are finitely many: _terminalize_locked gives back the slots it takes away.
LEMMA Release ==
  ASSUME Table, NEW rs, Terminalize(rs)
  PROVE  /\ admitted' \in Nat /\ admitted' <= MaxAdmitted
         /\ admitted' = Cardinality(physical')
  <1>1. IsFiniteSet(Ids)
    BY MaxIdAssumption, FS_Interval DEF Ids
  <1>2. IsFiniteSet(physical)
    BY <1>1, FS_Subset DEF Table, TableTypes
  <1>3. /\ IsFiniteSet(physical \ rs) /\ IsFiniteSet(physical \cap rs)
        /\ Cardinality(physical \ rs) = Cardinality(physical) - Cardinality(physical \cap rs)
    BY <1>2, FS_Difference, FS_Intersection
  <1>4. Cardinality(physical \ rs) \in Nat /\ Cardinality(physical \cap rs) \in Nat
    BY <1>3, FS_CardinalityType
  <1>5. admitted \in Nat /\ admitted <= MaxAdmitted /\ MaxAdmitted \in Nat
        /\ admitted = Cardinality(physical)
    BY PyAssumption DEF Table, TableTypes, SlotAccounting
  <1>6. physical' = physical \ rs /\ admitted' = admitted - Cardinality(physical \cap rs)
    BY DEF Terminalize
  <1> QED BY <1>3, <1>4, <1>5, <1>6

\* A handler leaves the main thread with frames to send or past them, and the engine
\* thread and the writer alone.
LEMMA ReplyKeeps ==
  ASSUME Control, FlagTypes', rpc # "startup",
         NEW fs \in Seq(OutFrame), NEW next \in ReaderPcs \ {"send", "startup"}, Reply(fs, next)
  PROVE  Control' /\ Running' = Running
  <1>1. UNCHANGED <<engineVars, writerVars, trail, acked>>
    BY DEF Reply
  <1>2. /\ ReaderTypes' /\ (rpc' = "send" => rout' # <<>>) /\ rnext' \notin {"send", "startup"}
        /\ rpc' # "startup"
    BY DEF Reply, ReaderTypes, ReaderPcs
  <1>3. EngineTypes' /\ enext' = enext /\ epc' = epc
    BY <1>1 DEF engineVars, EngineTypes, Control
  <1>4. OutputTypes'
    BY <1>1 DEF writerVars, OutputTypes, Control
  <1> QED BY <1>1, <1>2, <1>3, <1>4, RunningKept DEF Control, HandOver

-----------------------------------------------------------------------------
(* The main thread preserves the invariant                                 *)

\* A handler that leaves the table alone.
LEMMA AnswerOnly ==
  ASSUME Inv, rpc # "startup", NEW fs \in Seq(OutFrame),
         NEW next \in ReaderPcs \ {"send", "startup"}, Reply(fs, next),
         UNCHANGED <<tableVars, accepted>>, FlagTypes'
  PROVE  Inv'
  BY ReplyKeeps, TableKept DEF Inv

\* The handlers that admit and end no request.
LEMMA PlainHandlers ==
  ASSUME Inv, NEW f \in Inputs,
         \/ HandleInvalid(f) \/ HandleHello(f) \/ HandlePing(f)
         \/ RejectSynthesize(f) \/ CancelInactive(f)
  PROVE  Inv'
  <1>1. FlagTypes /\ f.id \in 0..MaxId /\ 0 \in 0..MaxId
    BY PyAssumption, MaxIdAssumption DEF Inv, Control, ClientFrame
  <1>2. \A r \in {0, f.id} : <<Frame("reject", r)>> \in Seq(OutFrame)
    BY <1>1, FramesBuilt, ShortReplies
  <1>3. rpc = "parse" /\ "parse" \in ReaderPcs \ {"send", "startup"}
    BY DEF HandleInvalid, HandleHello, HandlePing, RejectSynthesize, CancelInactive, Parsed,
           ReaderPcs
  <1>4. FlagTypes' /\ UNCHANGED <<tableVars, accepted>>
    BY <1>1 DEF HandleInvalid, HandleHello, HandlePing, RejectSynthesize, CancelInactive,
                FlagTypes, flagVars
  <1>5. CASE HandleInvalid(f)
    BY <1>2, <1>3, <1>4, <1>5, AnswerOnly DEF HandleInvalid
  <1>6. CASE HandleHello(f)
    BY <1>3, <1>4, <1>6, FramesBuilt, ShortReplies, AnswerOnly DEF HandleHello
  <1>7. CASE HandlePing(f)
    BY <1>3, <1>4, <1>7, FramesBuilt, ShortReplies, AnswerOnly DEF HandlePing
  <1>8. CASE RejectSynthesize(f)
    BY <1>2, <1>3, <1>4, <1>8, AnswerOnly DEF RejectSynthesize
  <1>9. CASE CancelInactive(f)
    <2> DEFINE fs == IF f.id = 0 \/ f.id > highWater THEN <<Frame("reject", f.id)>> ELSE <<>>
    <2>1. fs \in Seq(OutFrame) /\ Reply(fs, "parse")
      BY <1>2, <1>9, ShortReplies DEF CancelInactive
    <2> QED BY <2>1, <1>3, <1>4, AnswerOnly
  <1> QED BY <1>5, <1>6, <1>7, <1>8, <1>9

\* synthesize takes one slot for an id that no table entry can have.
LEMMA AdmitPreserves ==
  ASSUME Inv, NEW f \in Inputs, AdmitSynthesize(f)
  PROVE  Inv'
  <1> DEFINE r == f.id
  <1>1. r \in Ids /\ r > highWater /\ highWater \in 0..MaxId /\ r \in 0..MaxId
    BY PyAssumption DEF AdmitSynthesize, Duplicate, ClientFrame, Ids, Inv, Table, TableTypes
  <1>2. /\ highWater' = r /\ admitted' = admitted + 1 /\ active' = active \cup {r}
        /\ physical' = physical \cup {r} /\ accepted' = accepted \cup {r}
        /\ pending' = Append(pending, r) /\ cancelled' = cancelled /\ notified' = notified
        /\ admitted < MaxAdmitted /\ rpc = "parse"
        /\ UNCHANGED flagVars /\ Reply(<<Frame("queued", r)>>, "parse")
    BY DEF AdmitSynthesize, Parsed
  <1>3. Control' /\ Running' = Running
    <2>1. <<Frame("queued", r)>> \in Seq(OutFrame)
      BY <1>1, FramesBuilt, ShortReplies
    <2>2. FlagTypes'
      BY <1>2 DEF flagVars, FlagTypes, Inv, Control
    <2> QED BY <1>2, <2>1, <2>2, ReplyKeeps DEF ReaderPcs, Inv
  <1> HIDE DEF r
  <1>4. r \notin accepted /\ r \notin physical /\ r \notin notified
    BY <1>1 DEF Inv, Table, Known, Ids
  <1>5. /\ pending' \in Seq(Ids) /\ IsInjective(pending')
        /\ ToSet(pending') = ToSet(pending) \cup {r}
    <2>1. r \notin ToSet(pending)
      BY <1>4 DEF Inv, Table, SlotAccounting
    <2> QED BY <1>1, <1>2, <2>1, EntriesOfAppend DEF Inv, Table, TableTypes, SlotAccounting
  <1>6. Cardinality(physical') = admitted + 1
    <2>1. IsFiniteSet(Ids)
      BY MaxIdAssumption, FS_Interval DEF Ids
    <2>2. IsFiniteSet(physical)
      BY <2>1, FS_Subset DEF Inv, Table, TableTypes
    <2> QED BY <1>2, <1>4, <2>2, FS_AddElement DEF Inv, Table, SlotAccounting
  <1>7. TableTypes'
    BY <1>1, <1>2, <1>5 DEF Inv, Table, TableTypes, Ids
  <1>8. Known'
    BY <1>1, <1>2, <1>4 DEF Inv, Table, Known, Ids
  <1>9. SlotAccounting'
    <2>1. admitted' <= MaxAdmitted
      BY <1>2, PyAssumption DEF Inv, Table, TableTypes
    <2>2. /\ physical' = ToSet(pending') \cup Running' /\ Running' \cap ToSet(pending') = {}
          /\ ToSet(pending') \subseteq active' /\ active' \subseteq physical'
          /\ physical' \ active' \subseteq notified' \cap cancelled'
      BY <1>2, <1>3, <1>4, <1>5 DEF Inv, Table, SlotAccounting
    <2> QED BY <1>2, <1>5, <1>6, <2>1, <2>2 DEF SlotAccounting
  <1> QED BY <1>3, <1>7, <1>8, <1>9 DEF Inv, Table

\* cancel of a waiting request takes it out of the queue and gives its slot back.
LEMMA CancelQueuedPreserves ==
  ASSUME Inv, NEW f \in Inputs, CancelQueued(f)
  PROVE  Inv'
  <1> DEFINE r == f.id
  <1>1. r \in active /\ r \in Ids /\ r \in 0..MaxId
    BY MaxIdAssumption DEF CancelQueued, Inv, Table, TableTypes, Ids
  <1>2. /\ active' = active \ {r} /\ physical' = physical \ {r} /\ Terminalize({r})
        /\ UNCHANGED <<highWater, cancelled, notified, accepted>> /\ rpc = "parse"
        /\ UNCHANGED flagVars /\ Reply(<<Frame("cancelled", r)>>, "parse")
    BY DEF CancelQueued, Terminalize, Parsed
  <1>3. PICK i \in DOMAIN pending : pending[i] = r /\ pending' = RemoveAt(pending, i)
    BY DEF CancelQueued
  <1>4. Control' /\ Running' = Running
    <2>1. <<Frame("cancelled", r)>> \in Seq(OutFrame)
      BY <1>1, FramesBuilt, ShortReplies DEF Terminals
    <2>2. FlagTypes'
      BY <1>2 DEF flagVars, FlagTypes, Inv, Control
    <2> QED BY <1>2, <2>1, <2>2, ReplyKeeps DEF ReaderPcs, Inv
  <1> HIDE DEF r
  <1>5. /\ pending' \in Seq(Ids) /\ IsInjective(pending')
        /\ ToSet(pending') = ToSet(pending) \ {r} /\ r \in ToSet(pending)
    <2>1. i \in 1..Len(pending)
      BY <1>3, LenProperties DEF Inv, Table, TableTypes
    <2> QED BY <1>3, <2>1, EntriesOfRemoveAt, EntriesInSet
            DEF Inv, Table, TableTypes, SlotAccounting
  <1>6. /\ admitted' \in Nat /\ admitted' <= MaxAdmitted /\ admitted' = Cardinality(physical')
    BY <1>2, Release DEF Inv
  <1>7. TableTypes' /\ Known'
    BY <1>1, <1>2, <1>5, <1>6 DEF Inv, Table, TableTypes, Known
  <1>8. SlotAccounting'
    <2>1. /\ physical' = ToSet(pending') \cup Running' /\ Running' \cap ToSet(pending') = {}
          /\ ToSet(pending') \subseteq active' /\ active' \subseteq physical'
          /\ physical' \ active' \subseteq notified' \cap cancelled'
      BY <1>1, <1>2, <1>4, <1>5 DEF Inv, Table, SlotAccounting
    <2> QED BY <1>5, <1>6, <2>1 DEF SlotAccounting
  <1> QED BY <1>4, <1>7, <1>8 DEF Inv, Table

\* cancel of the running request answers it; the engine thread keeps its slot.
LEMMA CancelRunningPreserves ==
  ASSUME Inv, NEW f \in Inputs, CancelRunning(f)
  PROVE  Inv'
  <1> DEFINE r == f.id
             fs == IF r \in notified THEN <<>> ELSE <<Frame("cancelled", r)>>
  <1>1. r \in active /\ r \in Ids /\ r \in 0..MaxId /\ r \in accepted
    <2>1. r \in active /\ r \in Ids /\ r \in accepted
      BY DEF CancelRunning, Inv, Table, TableTypes, SlotAccounting, Known
    <2> QED BY <2>1, MaxIdAssumption DEF Ids
  <1>2. r \notin ToSet(pending)
    BY EntriesInSet, LenProperties DEF CancelRunning, Queued, Inv, Table, TableTypes
  <1>3. /\ active' = active \ {r} /\ cancelled' = cancelled \cup {r}
        /\ notified' = notified \cup {r} /\ rpc = "parse"
        /\ UNCHANGED <<pending, physical, admitted, highWater, accepted>>
        /\ UNCHANGED flagVars /\ Reply(fs, "parse")
    BY DEF CancelRunning, Parsed
  <1>4. Control' /\ Running' = Running
    <2>1. fs \in Seq(OutFrame)
      BY <1>1, FramesBuilt, ShortReplies DEF Terminals
    <2>2. FlagTypes'
      BY <1>3 DEF flagVars, FlagTypes, Inv, Control
    <2> HIDE DEF fs
    <2> QED BY <1>3, <2>1, <2>2, ReplyKeeps DEF ReaderPcs, Inv
  <1> HIDE DEF r, fs
  <1>5. TableTypes' /\ Known'
    BY <1>1, <1>3 DEF Inv, Table, TableTypes, Known
  <1>6. SlotAccounting'
    BY <1>1, <1>2, <1>3, <1>4 DEF Inv, Table, SlotAccounting
  <1> QED BY <1>4, <1>5, <1>6 DEF Inv, Table

\* _request_shutdown ends every waiting request: the running one keeps its slot.
LEMMA DrainPreserves ==
  ASSUME Inv, rpc # "startup", NEW ack \in BOOLEAN, DrainPending(ack)
  PROVE  Inv'
  <1> DEFINE frames == [i \in 1..Len(pending) |-> Frame("cancelled", pending[i])]
  <1>1. /\ pending \in Seq(Ids) /\ ToSet(pending) \subseteq Ids
        /\ ToSet(pending) \subseteq active
    BY EntriesInSet DEF Inv, Table, TableTypes, SlotAccounting
  <1>2. Keep(pending, active) = pending
    BY <1>1 DEF Keep
  <1>3. /\ pending' = <<>> /\ Terminalize(ToSet(pending))
        /\ cancelled' = cancelled \cup active
        /\ UNCHANGED <<highWater, notified, accepted>>
        /\ Reply(frames, "enqueued")
    BY <1>2 DEF DrainPending
  <1>4. active' = active \ ToSet(pending) /\ physical' = physical \ ToSet(pending)
    BY <1>3 DEF Terminalize
  <1>5. FlagTypes'
    BY DEF DrainPending, FlagTypes, Inv, Control
  <1>6. frames \in Seq(OutFrame)
    <2>1. Len(pending) \in Nat /\ \A i \in 1..Len(pending) : pending[i] \in Ids
      BY <1>1, LenProperties, ElementOfSeq
    <2>2. \A i \in 1..Len(pending) : Frame("cancelled", pending[i]) \in OutFrame
      BY <2>1, FramesBuilt DEF Terminals, Ids
    <2> QED BY <2>1, <2>2
  <1> HIDE DEF frames
  <1>7. Control' /\ Running' = Running
    BY <1>3, <1>5, <1>6, ReplyKeeps DEF ReaderPcs, Inv
  <1>8. /\ admitted' \in Nat /\ admitted' <= MaxAdmitted /\ admitted' = Cardinality(physical')
    BY <1>3, Release DEF Inv
  <1>9. TableTypes' /\ Known'
    <2>1. <<>> \in Seq(Ids)
      OBVIOUS
    <2>2. TableTypes'
      BY <1>3, <1>4, <1>8, <2>1 DEF Inv, Table, TableTypes
    <2> QED BY <1>3, <1>4, <2>2 DEF Inv, Table, Known
  <1>10. SlotAccounting'
    <2>1. /\ physical' = Running' /\ active' \subseteq physical'
          /\ physical' \ active' \subseteq notified' \cap cancelled'
      BY <1>3, <1>4, <1>7 DEF Inv, Table, SlotAccounting
    <2> QED BY <1>3, <1>8, <2>1, EntriesOfEmpty DEF SlotAccounting
  <1> QED BY <1>7, <1>9, <1>10 DEF Inv, Table
\* Every handler preserves the invariant.
LEMMA HandlePreserves ==
  ASSUME Inv, NEW f \in Inputs, Handle(f)
  PROVE  Inv'
  <1>1. CASE HandleShutdown(f)
    BY <1>1, DrainPreserves DEF HandleShutdown, Parsed
  <1> QED BY <1>1, PlainHandlers, AdmitPreserves, CancelQueuedPreserves,
             CancelRunningPreserves DEF Handle

\* A step of the main thread that only moves it on, away from a hand-over.
LEMMA GotoPreserves ==
  ASSUME Inv, NEW pc \in ReaderPcs \ {"send", "startup"}, Goto(pc), rpc # "startup",
         UNCHANGED <<engineVars, tableVars, histVars>>, FlagTypes', OutputTypes'
  PROVE  Inv'
  <1>1. /\ ReaderTypes' /\ rpc' \notin {"send", "startup"} /\ rnext' = rnext
    BY DEF Goto, ReaderTypes, Inv, Control
  <1>2. EngineTypes' /\ enext' = enext /\ epc' = epc
    BY DEF engineVars, EngineTypes, Inv, Control
  <1>3. Table'
    BY RunningKept, TableKept DEF Inv, histVars
  <1> QED BY <1>1, <1>2, <1>3 DEF Inv, Control, HandOver

\* The end of the startup sets the engine thread going, or ends it.
LEMMA StartupPreserves ==
  ASSUME Inv, StartupSucceeds \/ StartupFails
  PROVE  Inv'
  <1>1. /\ rpc = "startup" /\ rpc' \in {"check", "close"} /\ epc' \in {"take", "done"}
        /\ UNCHANGED <<rout, rnext, eslot, eout, enext, chunks, tableVars, writerVars, histVars>>
    BY DEF StartupSucceeds, StartupFails, Goto
  <1>2. epc = "startup"
    BY <1>1 DEF Inv, Control, HandOver
  <1>3. Running = {} /\ Running' = {}
    BY <1>1, <1>2 DEF Running, EngineBusy
  <1>4. Table'
    BY <1>1, <1>3, TableKept DEF Inv, histVars
  <1>5. ReaderTypes' /\ EngineTypes'
    BY <1>1 DEF Inv, Control, ReaderTypes, EngineTypes, ReaderPcs, EnginePcs
  <1>6. FlagTypes'
    BY DEF StartupSucceeds, StartupFails, flagVars, FlagTypes, Inv, Control
  <1>7. OutputTypes'
    BY <1>1 DEF writerVars, histVars, OutputTypes, Inv, Control
  <1>8. HandOver'
    BY <1>1 DEF HandOver, Inv, Control
  <1> QED BY <1>4, <1>5, <1>6, <1>7, <1>8 DEF Inv, Control

\* The main thread puts the frames of its handler on the queue one at a time.
LEMMA ReaderSendPreserves ==
  ASSUME Inv, ReaderSend
  PROVE  Inv'
  <1>1. /\ rout \in Seq(OutFrame) /\ rout # <<>> /\ UNCHANGED <<engineVars, tableVars, flagVars>>
        /\ rpc = "send" /\ epc # "startup" /\ Put(Head(rout)) /\ rnext \notin {"send", "startup"}
    BY DEF ReaderSend, Inv, Control, HandOver, ReaderTypes
  <1>2. /\ Head(rout) \in OutFrame /\ rout' \in Seq(OutFrame)
        /\ (Len(rout) # 1 => rout' # <<>>)
    <2>1. /\ Head(rout) \in OutFrame /\ Tail(rout) \in Seq(OutFrame)
          /\ Len(Tail(rout)) = Len(rout) - 1 /\ Len(rout) \in Nat \ {0}
      BY <1>1, HeadTailProperties, EmptySeq
    <2>2. Tail(rout) = <<>> => Len(rout) = 1
      BY <2>1
    <2> QED BY <2>1, <2>2 DEF ReaderSend
  <1>3. /\ ReaderTypes' /\ (rpc' = "send" => rout' # <<>>) /\ rnext' \notin {"send", "startup"}
        /\ rpc' # "startup"
    BY <1>1, <1>2 DEF ReaderSend, ReaderTypes, ReaderPcs, Inv, Control
  <1>4. OutputTypes' /\ accepted' = accepted
    BY <1>1, <1>2, PutType DEF Inv, Control, Put
  <1>5. EngineTypes' /\ FlagTypes' /\ enext' = enext /\ epc' = epc
    BY <1>1 DEF engineVars, flagVars, EngineTypes, FlagTypes, Inv, Control
  <1>6. Table'
    BY <1>1, <1>4, RunningKept, TableKept DEF Inv
  <1> QED BY <1>1, <1>3, <1>4, <1>5, <1>6 DEF Inv, Control, HandOver

\* Every step of the main thread preserves the invariant.
LEMMA ReaderPreserves ==
  ASSUME Inv, ReaderRun \/ ReaderInput
  PROVE  Inv'
  <1> USE DEF ReaderPcs
  <1>1. /\ UNCHANGED flagVars => FlagTypes'
        /\ UNCHANGED <<writerVars, histVars>> => OutputTypes'
    BY DEF Inv, Control, FlagTypes, flagVars, OutputTypes, writerVars, histVars
  <1>2. CASE ReaderCheck
    BY <1>2, <1>1, GotoPreserves DEF ReaderCheck
  <1>3. CASE ReaderNeedMoreData
    BY <1>3, <1>1, GotoPreserves DEF ReaderNeedMoreData
  <1>4. CASE ReaderClose
    <2>1. CASE shutdown
      <3>1. FlagTypes'
        BY <1>4, <2>1 DEF ReaderClose, FlagTypes, Inv, Control
      <3> QED BY <1>4, <2>1, <3>1, AnswerOnly, ShortReplies DEF ReaderClose, tableVars
    <2>2. CASE ~shutdown
      BY <1>4, <2>2, DrainPreserves DEF ReaderClose
    <2> QED BY <2>1, <2>2
  <1>5. CASE ReaderEnqueued
    <2>1. FlagTypes' /\ OutputTypes'
      BY <1>5, <1>1 DEF ReaderEnqueued, Inv, Control, FlagTypes
    <2> QED BY <1>5, <2>1, GotoPreserves DEF ReaderEnqueued
  <1>6. CASE ReaderJoin
    <2>1. FlagTypes' /\ OutputTypes'
      BY <1>6, <1>1 DEF ReaderJoin, Inv, Control, OutputTypes, histVars
    <2> QED BY <1>6, <2>1, GotoPreserves DEF ReaderJoin
  <1>7. CASE ReaderExit
    BY <1>7, <1>1, GotoPreserves DEF ReaderExit
  <1>8. CASE ReaderRead
    BY <1>8, <1>1, GotoPreserves DEF ReaderRead
  <1>9. CASE ReaderFramingError
    <2>1. FlagTypes' /\ OutputTypes'
      BY <1>9, <1>1 DEF ReaderFramingError, Inv, Control, FlagTypes
    <2> QED BY <1>9, <2>1, GotoPreserves DEF ReaderFramingError
  <1> QED BY <1>2, <1>3, <1>4, <1>5, <1>6, <1>7, <1>8, <1>9, ReaderSendPreserves,
             StartupPreserves, HandlePreserves DEF ReaderRun, ReaderInput

-----------------------------------------------------------------------------
(* The engine and writer threads preserve the invariant                    *)

\* A step of the engine thread after the startup, what it does to the table apart.
LEMMA EngineKeeps ==
  ASSUME Inv, EngineTypes', enext' \in {"synthesize", "take", "done"}, epc # "startup",
         epc' # "startup", UNCHANGED <<readerVars, flagVars, writerVars, histVars>>
  PROVE  Control'
  <1>1. ReaderTypes' /\ FlagTypes' /\ OutputTypes'
    BY DEF Inv, Control, readerVars, flagVars, writerVars, histVars, ReaderTypes, FlagTypes,
           OutputTypes
  <1>2. HandOver'
    BY DEF Inv, Control, HandOver, readerVars
  <1> QED BY <1>1, <1>2 DEF Control

\* _take_next_request moves the oldest waiting request to the engine thread.
LEMMA TakePreserves ==
  ASSUME Inv, TakeRequest
  PROVE  Inv'
  <1>1. /\ epc = "take" /\ Running = {}
        /\ UNCHANGED <<eout, enext, chunks, active, physical, admitted, highWater, cancelled>>
        /\ UNCHANGED <<notified, accepted, readerVars, flagVars, writerVars, histVars>>
    BY DEF TakeRequest, EngineGoto, Running, EngineBusy, histVars
  <1>2. CASE pending = <<>>
    <2>1. Running' = {} /\ UNCHANGED tableVars /\ epc' = "ack" /\ eslot' = eslot
      BY <1>1, <1>2 DEF TakeRequest, EngineGoto, Running, EngineBusy, tableVars
    <2>2. Control'
      BY <1>1, <2>1, EngineKeeps DEF EngineTypes, EnginePcs, Inv, Control, HandOver
    <2> QED BY <1>1, <2>1, <2>2, TableKept DEF Inv
  <1>3. CASE pending # <<>>
    <2>1. /\ Head(pending) \in Ids /\ Tail(pending) \in Seq(Ids) /\ IsInjective(Tail(pending))
          /\ ToSet(Tail(pending)) = ToSet(pending) \ {Head(pending)}
          /\ Head(pending) \in ToSet(pending) /\ Head(pending) \in active
      BY <1>3, EntriesOfTail DEF Inv, Table, TableTypes, SlotAccounting
    <2>2. eslot' = Head(pending) /\ pending' = Tail(pending) /\ epc' = "begin"
      BY <1>3, <2>1 DEF TakeRequest, EngineGoto
    <2>3. Running' = {Head(pending)}
      BY <2>2 DEF Running, EngineBusy
    <2>4. SlotAccounting'
      BY <1>1, <2>1, <2>2, <2>3 DEF Inv, Table, SlotAccounting
    <2>5. TableTypes' /\ Known'
      BY <1>1, <2>1, <2>2 DEF Inv, Table, TableTypes, Known
    <2>6. eslot' \in 0..MaxId
      BY <2>1, <2>2, MaxIdAssumption DEF Ids
    <2>7. Control'
      BY <1>1, <2>2, <2>6, EngineKeeps DEF EngineTypes, EnginePcs, Inv, Control, HandOver
    <2> QED BY <2>4, <2>5, <2>7 DEF Inv, Table
  <1> QED BY <1>2, <1>3

\* The engine thread gives the slot of its request back.
LEMMA ReleasePreserves ==
  ASSUME Inv, EngineBusy, Terminalize({eslot}), Running' = {}, Control',
         UNCHANGED <<pending, highWater, cancelled, accepted>>,
         notified' = notified \/ notified' = notified \cup {eslot}
  PROVE  Inv'
  <1>1. /\ Running = {eslot} /\ eslot \in physical /\ eslot \in Ids /\ eslot \in accepted
        /\ eslot \notin ToSet(pending)
    BY DEF Running, Inv, Table, TableTypes, SlotAccounting, Known
  <1>2. active' = active \ {eslot} /\ physical' = physical \ {eslot}
    BY DEF Terminalize
  <1>3. /\ admitted' \in Nat /\ admitted' <= MaxAdmitted /\ admitted' = Cardinality(physical')
    BY Release DEF Inv
  <1>4. TableTypes' /\ Known'
    BY <1>1, <1>2, <1>3 DEF Inv, Table, TableTypes, Known
  <1>5. SlotAccounting'
    <2>1. /\ physical' = ToSet(pending') \cup Running' /\ Running' \cap ToSet(pending') = {}
          /\ ToSet(pending') \subseteq active' /\ active' \subseteq physical'
          /\ physical' \ active' \subseteq notified' \cap cancelled'
      BY <1>1, <1>2 DEF Inv, Table, SlotAccounting
    <2> QED BY <1>3, <2>1 DEF Inv, Table, SlotAccounting
  <1> QED BY <1>4, <1>5 DEF Inv, Table

\* The engine thread puts its frame on the queue and goes on.
LEMMA EngineSendPreserves ==
  ASSUME Inv, EngineSend
  PROVE  Inv'
  <1>1. /\ eout \in OutFrame /\ epc = "send" /\ eout' = NoFrame /\ enext' = "take" /\ epc' = enext
        /\ enext \in {"synthesize", "take", "done"} /\ Put(eout) /\ accepted' = accepted
        /\ UNCHANGED <<eslot, chunks, readerVars, tableVars, flagVars>>
    BY DEF EngineSend, Put, Inv, Control, EngineTypes, HandOver
  <1>2. Running' = Running
    BY <1>1 DEF Running, EngineBusy
  <1>3. EngineTypes'
    BY <1>1, FramesBuilt DEF EngineTypes, EnginePcs, Inv, Control
  <1>4. ReaderTypes' /\ FlagTypes' /\ HandOver'
    BY <1>1 DEF readerVars, flagVars, ReaderTypes, FlagTypes, HandOver, Inv, Control
  <1>5. OutputTypes'
    BY <1>1, PutType DEF Inv, Control
  <1>6. Table'
    BY <1>1, <1>2, TableKept DEF Inv
  <1> QED BY <1>3, <1>4, <1>5, <1>6 DEF Inv, Control

\* A step of the engine thread that keeps the request it runs, if any.
LEMMA EngineMoves ==
  ASSUME Inv, epc \notin {"startup", "send"}, UNCHANGED eslot, chunks' \in 0..MaxChunks,
         UNCHANGED <<readerVars, tableVars, flagVars, writerVars, histVars>>,
         \/ /\ UNCHANGED <<eout, enext>> /\ epc' \in EnginePcs \ {"send", "startup"}
            /\ EngineBusy' <=> EngineBusy
         \/ /\ epc' = "send" /\ eout' \in OutFrame /\ EngineBusy /\ enext' = "synthesize"
         \/ /\ epc' = "send" /\ eout' \in OutFrame /\ ~EngineBusy /\ enext' = "done"
  PROVE  Inv'
  <1>1. Running' = Running
    BY DEF Running, EngineBusy
  <1>2. EngineTypes' /\ enext' \in {"synthesize", "take", "done"} /\ epc' # "startup"
    BY DEF EngineTypes, EnginePcs, HandOver, Inv, Control
  <1>3. Control'
    BY <1>2, EngineKeeps
  <1>4. Table'
    BY <1>1, TableKept DEF Inv, histVars
  <1> QED BY <1>3, <1>4 DEF Inv

\* Every step of the engine thread preserves the invariant.
LEMMA EnginePreserves ==
  ASSUME Inv, Engine
  PROVE  Inv'
  <1> USE DEF EngineGoto, EngineSends, EngineBusy, EnginePcs
  <1>1. eslot \in 0..MaxId /\ chunks \in 0..MaxChunks
    BY DEF Inv, Control, EngineTypes
  <1>2. CASE BeginRequest
    BY <1>1, <1>2, FramesBuilt, EngineMoves DEF BeginRequest
  <1>3. CASE EngineChunk
    <2>1. chunks' \in 0..MaxChunks
      BY <1>1, <1>3, PyAssumption DEF EngineChunk
    <2> QED BY <1>1, <1>3, <2>1, FramesBuilt, EngineMoves DEF EngineChunk
  <1>4. CASE StreamEnds \/ StreamRaises
    BY <1>1, <1>4, EngineMoves DEF StreamEnds, StreamRaises
  <1>5. CASE FinishRequest
    BY <1>1, <1>5, EngineMoves DEF FinishRequest
  <1>6. CASE EngineAck
    BY <1>1, <1>6, FramesBuilt, EngineMoves DEF EngineAck
  <1>7. ASSUME NEW kind \in {"completed", "failed"}, EndRequest(kind)
        PROVE  Inv'
    <2>1. /\ epc \in {"complete", "fail"} /\ epc' = "send" /\ enext' = "take"
          /\ eout' = Frame(kind, eslot) /\ eslot' = 0 /\ chunks' = 0
          /\ Terminalize({eslot}) /\ UNCHANGED <<pending, highWater, cancelled, notified>>
          /\ UNCHANGED <<readerVars, flagVars, writerVars, histVars>>
      BY <1>7 DEF EndRequest
    <2>2. EngineTypes'
      BY <1>1, <1>7, <2>1, FramesBuilt, MaxIdAssumption, PyAssumption DEF EngineTypes, Terminals
    <2>3. Control' /\ Running' = {} /\ EngineBusy
      BY <2>1, <2>2, EngineKeeps DEF Running
    <2> QED BY <2>1, <2>3, ReleasePreserves DEF histVars
  <1>8. CASE FinishCancelled
    <2>1. /\ epc = "finish_cancelled" /\ eslot' = 0 /\ chunks' = 0
          /\ \/ epc' = "take" /\ UNCHANGED <<eout, enext>>
             \/ epc' = "send" /\ enext' = "take" /\ eout' = Frame("cancelled", eslot)
          /\ Terminalize({eslot}) /\ notified' = notified \cup {eslot}
          /\ UNCHANGED <<pending, highWater, cancelled>>
          /\ UNCHANGED <<readerVars, flagVars, writerVars, histVars>>
      BY <1>8 DEF FinishCancelled
    <2>2. EngineTypes' /\ enext' \in {"synthesize", "take", "done"}
      BY <1>1, <2>1, FramesBuilt, MaxIdAssumption, PyAssumption
      DEF EngineTypes, Terminals, Inv, Control, HandOver
    <2>3. Control' /\ Running' = {} /\ EngineBusy
      BY <2>1, <2>2, EngineKeeps DEF Running
    <2> QED BY <2>1, <2>3, ReleasePreserves DEF histVars
  <1> QED BY <1>2, <1>3, <1>4, <1>5, <1>6, <1>7, <1>8, TakePreserves, EngineSendPreserves
          DEF Engine

\* The output queue, and a step that changes nothing.
LEMMA WriterPreserves ==
  ASSUME Inv, Writer \/ UNCHANGED vars
  PROVE  Inv'
  <1>1. UNCHANGED <<readerVars, engineVars, tableVars, flagVars, histVars>>
    BY DEF Writer, WriterWrite, WriterDies, WriterExit, vars
  <1>2. OutputTypes'
    <2>1. OutputTypes
      BY DEF Inv, Control
    <2>2. CASE WriterWrite \/ WriterDies
      <3>1. backlog' = backlog - 1 /\ backlog > 0 /\ UNCHANGED <<sentinel, histVars>>
        BY <2>2 DEF WriterWrite, WriterDies
      <3>2. backlog' \in 0..Capacity
        BY <2>1, <3>1, PyAssumption DEF OutputTypes
      <3>3. wdone' \in BOOLEAN
        BY <2>1, <2>2 DEF WriterWrite, WriterDies, OutputTypes
      <3> QED BY <2>1, <3>1, <3>2, <3>3 DEF OutputTypes, histVars
    <2>3. CASE WriterExit \/ UNCHANGED vars
      BY <2>1, <2>3 DEF WriterExit, OutputTypes, vars, writerVars, histVars
    <2> QED BY <2>2, <2>3 DEF Writer
  <1>3. Table'
    BY <1>1, RunningKept, TableKept DEF Inv, histVars
  <1>4. ReaderTypes' /\ EngineTypes' /\ FlagTypes' /\ HandOver'
    BY <1>1 DEF readerVars, engineVars, flagVars, ReaderTypes, EngineTypes, FlagTypes,
                HandOver, Inv, Control
  <1> QED BY <1>2, <1>3, <1>4 DEF Inv, Control

\* The server starts with an empty table and queue.
LEMMA InitInv == Init => Inv
  <1> SUFFICES ASSUME Init PROVE Inv
    OBVIOUS
  <1>1. ReaderTypes /\ HandOver
    BY DEF Init, ReaderTypes, HandOver, ReaderPcs
  <1>2. EngineTypes
    BY FramesBuilt, MaxIdAssumption, PyAssumption DEF Init, EngineTypes, EnginePcs
  <1>3. FlagTypes
    BY DEF Init, FlagTypes
  <1>4. OutputTypes
    <2>1. backlog \in 0..Capacity /\ trail \in Trails
      BY PyAssumption DEF Init, Trails
    <2>2. sentinel \in BOOLEAN /\ wdone \in BOOLEAN /\ acked \in BOOLEAN
      BY DEF Init
    <2> QED BY <2>1, <2>2 DEF OutputTypes
  <1>5. TableTypes /\ Known
    BY MaxIdAssumption DEF Init, TableTypes, Known
  <1>6. SlotAccounting
    <2>1. Running = {}
      BY DEF Init, Running, EngineBusy
    <2> QED BY <2>1, FS_EmptySet, EntriesOfEmpty, PyAssumption DEF Init, SlotAccounting
  <1> QED BY <1>1, <1>2, <1>3, <1>4, <1>5, <1>6 DEF Inv, Control, Table

\* Every step of the server preserves the invariant.
LEMMA NextInv == Inv /\ [Next]_vars => Inv'
  BY ReaderPreserves, EnginePreserves, WriterPreserves DEF Next, Exited

\* The strengthened invariant holds in every reachable state.
LEMMA Invariance == Spec => []Inv
  BY InitInv, NextInv, PTL DEF Spec

\* Every variable keeps its type and the output queue never exceeds its maxsize.
THEOREM TypeCorrect == Spec => []TypeOK
  <1>1. Inv => TypeOK
    BY DEF Inv, Control, Table, TypeOK, ReaderTypes, EngineTypes, TableTypes, FlagTypes,
           OutputTypes, Trails
  <1> QED BY <1>1, Invariance, PTL

\* Admission slots are neither lost nor released twice, although a cancelled request is
\* answered before the engine thread gives its slot back.
THEOREM SlotsAccounted == Spec => []SlotAccounting
  <1>1. Inv => SlotAccounting
    BY DEF Inv, Table
  <1> QED BY <1>1, Invariance, PTL
-----------------------------------------------------------------------------
(* What the main thread sends, and how the session closes                  *)

\* Every step of the server.
LEMMA NextSpeaks ==
  ASSUME Inv, ReaderSpeaks, [Next]_vars
  PROVE  ReaderSpeaks'
  <1>1. CASE UNCHANGED rout
    BY <1>1 DEF ReaderSpeaks
  <1>2. ASSUME NEW k \in {"queued", "cancelled", "ready", "pong", "reject"}, NEW r,
               rout' = <<Frame(k, r)>>
        PROVE  ReaderSpeaks'
    BY <1>2 DEF ReaderSpeaks, Frame
  <1>3. CASE rout' = <<>>
    BY <1>3 DEF ReaderSpeaks
  <1>4. ASSUME NEW ack, DrainPending(ack)
        PROVE  ReaderSpeaks'
    BY <1>4 DEF DrainPending, Reply, ReaderSpeaks, Frame
  <1>5. ASSUME NEW f \in Inputs, Handle(f)
        PROVE  ReaderSpeaks'
    <2>1. \/ \E k \in {"queued", "cancelled", "ready", "pong", "reject"}, r \in {0, f.id} :
               rout' = <<Frame(k, r)>>
          \/ rout' = <<>>
          \/ \E ack : DrainPending(ack)
      BY <1>5 DEF Handle, HandleInvalid, HandleHello, HandlePing, RejectSynthesize,
                  AdmitSynthesize, CancelQueued, CancelRunning, CancelInactive, HandleShutdown,
                  Reply
    <2> QED BY <2>1, <1>2, <1>3, <1>4
  <1>6. CASE ReaderSend
    <2>1. rout \in Seq(OutFrame) /\ rout # <<>> /\ rout' = Tail(rout)
      BY <1>6 DEF ReaderSend, Inv, Control, HandOver, ReaderTypes
    <2>2. \A i \in DOMAIN rout' : i + 1 \in DOMAIN rout /\ rout'[i] = rout[i + 1]
      BY <2>1, HeadTailProperties, LenProperties, EmptySeq
    <2> QED BY <2>2 DEF ReaderSpeaks
  <1>7. CASE ReaderClose
    BY <1>7, <1>3, <1>4 DEF ReaderClose, Reply
  <1>8. CASE \/ StartupSucceeds \/ StartupFails \/ ReaderCheck \/ ReaderNeedMoreData
             \/ ReaderEnqueued \/ ReaderJoin \/ ReaderExit \/ ReaderRead \/ ReaderFramingError
             \/ Engine \/ Writer \/ UNCHANGED vars
    <2>1. UNCHANGED rout
      BY <1>8 DEF StartupSucceeds, StartupFails, ReaderCheck, ReaderNeedMoreData,
                  ReaderEnqueued, ReaderJoin, ReaderExit, ReaderRead, ReaderFramingError, Goto,
                  Engine, TakeRequest, BeginRequest, EngineSend, EngineChunk, StreamEnds,
                  StreamRaises, FinishRequest, FinishCancelled, EndRequest, EngineAck, Writer,
                  WriterWrite, WriterDies, WriterExit, readerVars, vars
    <2> QED BY <1>1, <2>1
  <1> QED BY <1>5, <1>6, <1>7, <1>8 DEF Next, ReaderRun, ReaderInput, Exited

\* Only the frame itself acknowledges.
LEMMA PutAcks ==
  ASSUME NEW f, Put(f)
  PROVE  acked' => acked \/ f.kind = "shutdown_ack"
  BY Zenon DEF Put

\* A handler other than shutdown.
LEMMA HandlerLeaves ==
  ASSUME Leaving, rpc = "parse", NEW fs, Reply(fs, "parse"),
         UNCHANGED <<shutdown, enqueued>>, shutdown => UNCHANGED pending
  PROVE  Leaving'
  BY DEF Leaving, Reply, engineVars

\* _request_shutdown.
LEMMA DrainLeaves ==
  ASSUME Leaving, rpc \in {"parse", "close"}, ~shutdown, NEW ack, DrainPending(ack)
  PROVE  Leaving'
  BY DEF Leaving, DrainPending, Reply, engineVars

\* The handlers.
LEMMA HandleLeaves ==
  ASSUME Inv, Leaving, NEW f \in Inputs, Handle(f)
  PROVE  Leaving'
  <1>1. CASE HandleShutdown(f)
    BY <1>1, DrainLeaves DEF HandleShutdown, Parsed
  <1>2. CASE CancelQueued(f)
    <2>1. pending # <<>>
      BY <1>2 DEF CancelQueued, Queued
    <2>2. ~shutdown /\ UNCHANGED <<shutdown, enqueued>> /\ rpc = "parse"
      BY <1>2, <2>1 DEF CancelQueued, Parsed, flagVars, Leaving
    <2>3. \E fs : Reply(fs, "parse")
      BY <1>2 DEF CancelQueued
    <2> QED BY <2>2, <2>3, HandlerLeaves
  <1>3. CASE AdmitSynthesize(f)
    <2>1. ~shutdown /\ UNCHANGED <<shutdown, enqueued>> /\ rpc = "parse"
      BY <1>3 DEF AdmitSynthesize, Parsed, flagVars
    <2>2. \E fs : Reply(fs, "parse")
      BY <1>3 DEF AdmitSynthesize
    <2> QED BY <2>1, <2>2, HandlerLeaves
  <1>4. CASE \/ HandleInvalid(f) \/ HandleHello(f) \/ HandlePing(f)
             \/ RejectSynthesize(f) \/ CancelRunning(f) \/ CancelInactive(f)
    <2>1. UNCHANGED <<shutdown, enqueued, pending>> /\ rpc = "parse"
      BY <1>4 DEF HandleInvalid, HandleHello, HandlePing, RejectSynthesize, CancelRunning,
                  CancelInactive, Parsed, flagVars, tableVars
    <2>2. \E fs : Reply(fs, "parse")
      BY <1>4 DEF HandleInvalid, HandleHello, HandlePing, RejectSynthesize, CancelRunning,
                  CancelInactive
    <2> QED BY <2>1, <2>2, HandlerLeaves
  <1> QED BY <1>1, <1>2, <1>3, <1>4 DEF Handle

\* Every step of the main thread.
LEMMA ReaderLeaves ==
  ASSUME Inv, Leaving, ReaderSpeaks, ReaderRun \/ ReaderInput
  PROVE  Leaving'
  <1> USE DEF Leaving, Goto, engineVars, tableVars, flagVars, histVars
  <1>1. CASE \E f \in Inputs : Handle(f)
    BY <1>1, HandleLeaves
  <1>2. CASE ReaderCheck \/ ReaderNeedMoreData \/ ReaderRead \/ ReaderFramingError
    BY <1>2 DEF ReaderCheck, ReaderNeedMoreData, ReaderRead, ReaderFramingError
  <1>3. CASE StartupSucceeds \/ StartupFails
    BY <1>3 DEF StartupSucceeds, StartupFails
  <1>4. CASE ReaderSend
    <2>1. /\ rpc = "send" /\ rnext \in {"parse", "enqueued"} /\ ~enqueued /\ ~acked
          /\ rout \in Seq(OutFrame) /\ rout # <<>> /\ rout' = Tail(rout)
          /\ UNCHANGED <<epc, eout, enext, pending, shutdown, enqueued>>
      BY <1>4 DEF ReaderSend, Inv, Control, HandOver, ReaderTypes
    <2>2. /\ rpc' # "send" => Len(rout) = 1 /\ rpc' = rnext
          /\ rpc' = "send" => rnext' = rnext
      BY <1>4, <2>1 DEF ReaderSend
    <2>3. rpc' # "send" => rout' = <<>>
      BY <2>1, <2>2, HeadTailProperties, EmptySeq
    <2>4. ~acked'
      <3>1. Head(rout) = rout[1] /\ 1 \in DOMAIN rout
        BY <2>1, HeadTailProperties, LenProperties, EmptySeq
      <3>2. Head(rout).kind # "shutdown_ack"
        BY <3>1 DEF ReaderSpeaks
      <3> QED BY <1>4, <2>1, <3>2, PutAcks DEF ReaderSend
    <2> QED BY <2>1, <2>2, <2>3, <2>4
  <1>5. CASE ReaderClose
    <2>1. CASE shutdown
      BY <1>5, <2>1 DEF ReaderClose, Reply
    <2>2. CASE ~shutdown
      BY <1>5, <2>2, DrainLeaves DEF ReaderClose
    <2> QED BY <2>1, <2>2
  <1>6. CASE ReaderEnqueued \/ ReaderJoin \/ ReaderExit
    BY <1>6 DEF ReaderEnqueued, ReaderJoin, ReaderExit
  <1> QED BY <1>1, <1>2, <1>3, <1>4, <1>5, <1>6 DEF ReaderRun, ReaderInput

\* Every step of the engine thread.
LEMMA EngineLeaves ==
  ASSUME Inv, Leaving, Engine
  PROVE  Leaving'
  <1> USE DEF Leaving, readerVars, tableVars, flagVars, histVars, EngineGoto, EngineSends, Frame
  <1>1. CASE TakeRequest
    <2>1. pending # <<>> => Head(pending) \in active
      BY EntriesOfTail DEF Inv, Table, TableTypes, SlotAccounting
    <2> QED BY <1>1, <2>1 DEF TakeRequest
  <1>2. CASE BeginRequest \/ EngineChunk \/ StreamEnds \/ StreamRaises \/ FinishRequest
    BY <1>2 DEF BeginRequest, EngineChunk, StreamEnds, StreamRaises, FinishRequest
  <1>3. CASE FinishCancelled \/ \E kind \in {"completed", "failed"} : EndRequest(kind)
    BY <1>3 DEF FinishCancelled, EndRequest
  <1>4. CASE EngineAck
    BY <1>4 DEF EngineAck
  <1>5. CASE EngineSend
    <2>1. /\ epc = "send" /\ epc' = enext /\ enext \in {"synthesize", "take", "done"}
          /\ UNCHANGED <<rpc, rout, rnext, pending, shutdown, enqueued>>
      BY <1>5 DEF EngineSend, Inv, Control, HandOver
    <2>2. acked' => acked \/ eout.kind = "shutdown_ack"
      BY <1>5, PutAcks DEF EngineSend
    <2> QED BY <2>1, <2>2
  <1> QED BY <1>1, <1>2, <1>3, <1>4, <1>5 DEF Engine

\* Every step of the server.
LEMMA NextLeaves ==
  ASSUME Inv, Leaving, ReaderSpeaks, [Next]_vars
  PROVE  Leaving'
  <1>1. CASE Writer \/ UNCHANGED vars
    BY <1>1 DEF Writer, WriterWrite, WriterDies, WriterExit, vars, Leaving, readerVars,
                engineVars, tableVars, flagVars, histVars
  <1> QED BY <1>1, ReaderLeaves, EngineLeaves DEF Next, Exited
-----------------------------------------------------------------------------
(* What is owed                                                            *)

\* A step that puts nothing on the queue and leaves both threads' held frames alone.
LEMMA OwedKept ==
  ASSUME Owed, UNCHANGED <<rout, epc, eslot, eout, enext, trail, accepted, active>>
  PROVE  Owed'
  <1>1. \A r : /\ ReaderHolds(r)' = ReaderHolds(r) /\ EngineHolds(r)' = EngineHolds(r)
              /\ Ended(trail, r)' = Ended(trail, r)
    BY DEF ReaderHolds, EngineHolds, Ended
  <1>2. Settled'
    BY <1>1 DEF Owed, Settled
  <1> QED BY <1>2 DEF Owed, OnlyAccepted, Announced, HasStarted

\* A handler: the main thread held nothing, and now holds the end of each request that
\* it took out of _active.
LEMMA ReplyOwes ==
  ASSUME Owed, rout = <<>>, UNCHANGED <<epc, eslot, eout, enext, trail>>,
         accepted \subseteq accepted', accepted' \ accepted \subseteq active',
         \A r \in active \ active' : ReaderHolds(r)',
         \A i \in DOMAIN rout' : rout'[i].kind \in LifecycleKinds => rout'[i].id \in accepted'
  PROVE  Owed'
  <1>1. \A r : /\ ~ReaderHolds(r) /\ EngineHolds(r)' = EngineHolds(r)
              /\ Ended(trail, r)' = Ended(trail, r)
    BY DEF ReaderHolds, EngineHolds, Ended
  <1>2. Settled'
    BY <1>1 DEF Owed, Settled
  <1>3. OnlyAccepted'
    BY DEF Owed, OnlyAccepted
  <1>4. Announced'
    BY DEF Owed, Announced, HasStarted
  <1> QED BY <1>2, <1>3, <1>4 DEF Owed

\* A step of the engine thread that was not sending: it holds the end of the request that
\* it took out of _active, if any.
LEMMA EngineStepOwes ==
  ASSUME Owed, epc # "send", UNCHANGED <<rout, trail, accepted>>,
         \A r \in active \ active' : EngineHolds(r)',
         epc' = "send" /\ eout'.kind \in LifecycleKinds => eout'.id \in accepted, Announced'
  PROVE  Owed'
  <1>1. \A r : /\ ReaderHolds(r)' = ReaderHolds(r) /\ ~EngineHolds(r)
              /\ Ended(trail, r)' = Ended(trail, r)
    BY DEF ReaderHolds, EngineHolds, Ended
  <1>2. Settled'
    BY <1>1 DEF Owed, Settled
  <1>3. OnlyAccepted'
    BY DEF Owed, OnlyAccepted
  <1> QED BY <1>2, <1>3 DEF Owed

\* _request_shutdown ends the waiting requests.
LEMMA DrainOwes ==
  ASSUME Inv, Owed, rout = <<>>, NEW ack, DrainPending(ack)
  PROVE  Owed'
  <1>1. /\ pending \in Seq(Ids) /\ ToSet(pending) \subseteq active /\ active \subseteq accepted
    BY DEF Inv, Table, TableTypes, SlotAccounting, Known
  <1>2. Keep(pending, active) = pending
    BY <1>1 DEF Keep
  <1>3. /\ active' = active \ ToSet(pending) /\ accepted' = accepted
        /\ rout' = [i \in 1..Len(pending) |-> Frame("cancelled", pending[i])]
        /\ UNCHANGED <<epc, eslot, eout, enext, trail>>
    BY <1>2 DEF DrainPending, Terminalize, Reply, engineVars
  <1>4. /\ DOMAIN rout' = 1..Len(pending)
        /\ \A i \in 1..Len(pending) : /\ rout'[i].id = pending[i] /\ pending[i] \in ToSet(pending)
                                      /\ rout'[i].kind = "cancelled"
    BY <1>1, <1>3, LenProperties, EntriesInSet DEF Frame
  <1>5. \A r \in active \ active' : ReaderHolds(r)'
    BY <1>1, <1>3, <1>4, EntriesInSet DEF ReaderHolds, Terminals
  <1>6. \A i \in DOMAIN rout' : rout'[i].id \in accepted'
    BY <1>1, <1>3, <1>4
  <1> QED BY <1>3, <1>5, <1>6, ReplyOwes

\* The handlers.
LEMMA HandleOwes ==
  ASSUME Inv, Leaving, Owed, NEW f \in Inputs, Handle(f)
  PROVE  Owed'
  <1>1. rout = <<>> /\ rpc = "parse"
    BY DEF Handle, HandleInvalid, HandleHello, HandlePing, RejectSynthesize, AdmitSynthesize,
           CancelQueued, CancelRunning, CancelInactive, HandleShutdown, Parsed, Leaving
  <1>2. ASSUME NEW fs, Reply(fs, "parse"), UNCHANGED <<active, accepted>>,
               \A i \in DOMAIN fs : fs[i].kind \notin LifecycleKinds
        PROVE  Owed'
    <2>1. rout' = fs /\ UNCHANGED <<epc, eslot, eout, enext, trail>>
      BY <1>2 DEF Reply, engineVars
    <2> QED BY <1>1, <1>2, <2>1, ReplyOwes
  <1>3. ASSUME NEW k \in SessionKinds, NEW r, Reply(<<Frame(k, r)>>, "parse"),
               UNCHANGED <<active, accepted>>
        PROVE  Owed'
    <2>1. \A i \in DOMAIN <<Frame(k, r)>> : <<Frame(k, r)>>[i].kind \notin LifecycleKinds
      BY <1>3 DEF Frame, SessionKinds, LifecycleKinds, Terminals
    <2> QED BY <1>2, <1>3, <2>1
  <1>4. ASSUME Reply(<<>>, "parse"), UNCHANGED <<active, accepted>>
        PROVE  Owed'
    BY <1>2, <1>4
  <1>5. CASE \/ HandleInvalid(f) \/ HandleHello(f) \/ HandlePing(f)
             \/ RejectSynthesize(f) \/ CancelInactive(f)
    <2>1. UNCHANGED <<active, accepted>>
      BY <1>5 DEF HandleInvalid, HandleHello, HandlePing, RejectSynthesize, CancelInactive,
                  tableVars
    <2>2. \/ \E k \in SessionKinds, r \in {0, f.id} : Reply(<<Frame(k, r)>>, "parse")
          \/ Reply(<<>>, "parse")
      BY <1>5 DEF HandleInvalid, HandleHello, HandlePing, RejectSynthesize, CancelInactive,
                  SessionKinds
    <2> QED BY <2>1, <2>2, <1>3, <1>4
  <1>6. CASE AdmitSynthesize(f)
    <2>1. /\ rout' = <<Frame("queued", f.id)>> /\ accepted' = accepted \cup {f.id}
          /\ active' = active \cup {f.id} /\ UNCHANGED <<epc, eslot, eout, enext, trail>>
      BY <1>6 DEF AdmitSynthesize, Reply, engineVars
    <2>2. \A i \in DOMAIN rout' : rout'[i].id \in accepted'
      BY <2>1 DEF Frame
    <2> QED BY <1>1, <2>1, <2>2, ReplyOwes
  <1>7. CASE CancelQueued(f) \/ CancelRunning(f)
    <2>1. f.id \in active /\ f.id \in accepted /\ f.id \notin notified
      BY <1>7 DEF CancelQueued, CancelRunning, Inv, Table, SlotAccounting, Known
    <2>2. /\ active' = active \ {f.id} /\ accepted' = accepted
          /\ rout' = <<Frame("cancelled", f.id)>>
          /\ UNCHANGED <<epc, eslot, eout, enext, trail>>
      BY <1>7, <2>1 DEF CancelQueued, CancelRunning, Terminalize, Reply, engineVars
    <2>3. ReaderHolds(f.id)' /\ \A i \in DOMAIN rout' : rout'[i].id = f.id
      BY <2>2 DEF ReaderHolds, Frame, Terminals
    <2> QED BY <1>1, <2>1, <2>2, <2>3, ReplyOwes
  <1>8. CASE HandleShutdown(f)
    BY <1>1, <1>8, DrainOwes DEF HandleShutdown
  <1> QED BY <1>5, <1>6, <1>7, <1>8 DEF Handle

\* What one more frame of an accepted request, or of none, changes.
LEMMA PutShows ==
  ASSUME Inv, NEW f \in OutFrame, Put(f), f.kind \in LifecycleKinds => f.id \in accepted
  PROVE  \A r \in Ids :
           /\ Ended(trail', r) <=> Ended(trail, r) \/ (f.id = r /\ f.kind \in Terminals)
           /\ HasStarted(trail', r) <=> HasStarted(trail, r) \/ (f.id = r /\ f.kind = "started")
           /\ r \notin accepted => trail'[r] = trail[r]
  <1>1. trail \in Trails /\ trail' = Record(trail, f)
    BY DEF Inv, Control, OutputTypes, Put
  <1> QED BY <1>1, EndedByRecord, RecordAt

\* The main thread puts the next frame of a handler on the queue.
LEMMA ReaderSendOwes ==
  ASSUME Inv, Leaving, Owed, ReaderSend
  PROVE  Owed'
  <1> DEFINE f == Head(rout)
  <1>1. rout \in Seq(OutFrame) /\ rout # <<>>
    BY DEF ReaderSend, Inv, Control, HandOver, ReaderTypes
  <1>2. /\ f \in OutFrame /\ f = rout[1] /\ 1 \in DOMAIN rout
        /\ \A i \in DOMAIN rout : i = 1 \/ (i - 1 \in DOMAIN Tail(rout) /\ Tail(rout)[i - 1] = rout[i])
        /\ \A i \in DOMAIN Tail(rout) : i + 1 \in DOMAIN rout /\ Tail(rout)[i] = rout[i + 1]
    BY <1>1, HeadTailProperties, LenProperties, EmptySeq
  <1>3. /\ rout' = Tail(rout) /\ Put(f)
        /\ UNCHANGED <<epc, eslot, eout, enext, active, accepted>>
    BY DEF ReaderSend, Put, engineVars, tableVars
  <1> HIDE DEF f
  <1>4. /\ \A r : EngineHolds(r)' = EngineHolds(r)
        /\ \A r : ReaderHolds(r) => ReaderHolds(r)' \/ (f.id = r /\ f.kind \in Terminals)
    BY <1>2, <1>3 DEF ReaderHolds, EngineHolds
  <1>5. \A i \in DOMAIN rout' : rout'[i].kind \in LifecycleKinds => rout'[i].id \in accepted
    BY <1>2, <1>3 DEF Owed, OnlyAccepted
  <1>6. f.kind \in LifecycleKinds => f.id \in accepted
    BY <1>2 DEF Owed, OnlyAccepted
  <1>7. \A r \in Ids : /\ Ended(trail', r) <=> Ended(trail, r) \/ (f.id = r /\ f.kind \in Terminals)
                       /\ HasStarted(trail, r) => HasStarted(trail', r)
                       /\ r \notin accepted => trail'[r] = trail[r]
    BY <1>2, <1>3, <1>6, PutShows
  <1>8. Settled'
    BY <1>3, <1>4, <1>7 DEF Owed, Settled, Inv, Table, TableTypes
  <1>9. OnlyAccepted'
    BY <1>3, <1>5, <1>7 DEF Owed, OnlyAccepted
  <1>10. Announced'
    <2>1. epc \in {"synthesize", "finish", "complete"} \/ (epc = "send" /\ enext = "synthesize")
            => eslot \in Ids
      BY DEF Inv, Table, TableTypes, SlotAccounting, Running, EngineBusy
    <2>2. epc = "send" /\ eout.kind = "completed" => eout.id \in Ids
      BY DEF Owed, OnlyAccepted, Inv, Table, TableTypes, LifecycleKinds, Terminals
    <2> QED BY <1>3, <1>7, <2>1, <2>2 DEF Owed, Announced
  <1> QED BY <1>8, <1>9, <1>10 DEF Owed

\* Every step of the main thread.
LEMMA ReaderOwes ==
  ASSUME Inv, Leaving, Owed, ReaderRun \/ ReaderInput
  PROVE  Owed'
  <1> USE DEF engineVars, histVars, tableVars
  <1>1. CASE \E f \in Inputs : Handle(f)
    BY <1>1, HandleOwes
  <1>2. CASE ReaderSend
    BY <1>2, ReaderSendOwes
  <1>3. CASE ReaderClose
    <2>1. rout = <<>>
      BY <1>3 DEF ReaderClose, Leaving
    <2>2. CASE shutdown
      BY <1>3, <2>1, <2>2, OwedKept DEF ReaderClose, Reply
    <2>3. CASE ~shutdown
      BY <1>3, <2>1, <2>3, DrainOwes DEF ReaderClose
    <2> QED BY <2>2, <2>3
  <1>4. CASE \/ ReaderCheck \/ ReaderNeedMoreData \/ ReaderExit \/ ReaderRead
             \/ ReaderEnqueued \/ ReaderJoin \/ ReaderFramingError
    BY <1>4, OwedKept DEF ReaderCheck, ReaderNeedMoreData, ReaderExit, ReaderRead,
                          ReaderEnqueued, ReaderJoin, ReaderFramingError, Goto
  <1>5. CASE StartupSucceeds \/ StartupFails
    <2>1. /\ epc = "startup" /\ epc' \in {"take", "done"}
          /\ UNCHANGED <<rout, trail, accepted, active>>
      BY <1>5 DEF StartupSucceeds, StartupFails, Goto, Inv, Control, HandOver
    <2> QED BY <2>1, EngineStepOwes DEF Announced
  <1> QED BY <1>1, <1>2, <1>3, <1>4, <1>5 DEF ReaderRun, ReaderInput

\* The engine thread puts its frame on the queue.
LEMMA EngineSendOwes ==
  ASSUME Inv, Owed, EngineSend
  PROVE  Owed'
  <1>1. /\ eout \in OutFrame /\ epc = "send" /\ epc' = enext /\ Put(eout)
        /\ enext \in {"synthesize", "take", "done"}
        /\ UNCHANGED <<eslot, rout, active, accepted>>
    BY DEF EngineSend, Put, Inv, Control, HandOver, EngineTypes, readerVars, tableVars
  <1>2. /\ \A r : ReaderHolds(r)' = ReaderHolds(r)
        /\ \A r : EngineHolds(r) => eout.id = r /\ eout.kind \in Terminals
    BY <1>1 DEF ReaderHolds, EngineHolds
  <1>3. eout.kind \in LifecycleKinds => eout.id \in accepted
    BY <1>1 DEF Owed, OnlyAccepted
  <1>4. \A r \in Ids : /\ Ended(trail', r)
                            <=> Ended(trail, r) \/ (eout.id = r /\ eout.kind \in Terminals)
                       /\ HasStarted(trail', r)
                            <=> HasStarted(trail, r) \/ (eout.id = r /\ eout.kind = "started")
                       /\ r \notin accepted => trail'[r] = trail[r]
    BY <1>1, <1>3, PutShows
  <1>5. Settled'
    BY <1>1, <1>2, <1>4 DEF Owed, Settled, Inv, Table, TableTypes
  <1>6. OnlyAccepted'
    BY <1>1, <1>4 DEF Owed, OnlyAccepted
  <1>7. Announced'
    <2>1. enext = "synthesize" => eslot \in Ids
      BY <1>1 DEF Inv, Table, TableTypes, SlotAccounting, Running, EngineBusy
    <2> QED BY <1>1, <1>4, <2>1 DEF Owed, Announced
  <1> QED BY <1>5, <1>6, <1>7 DEF Owed

\* Every step of the engine thread.
LEMMA EngineOwes ==
  ASSUME Inv, Owed, Engine
  PROVE  Owed'
  <1> USE DEF readerVars, tableVars, histVars, EngineGoto, EngineSends
  <1>1. EngineBusy => eslot \in accepted
    BY DEF Inv, Table, SlotAccounting, Running, Known
  <1>2. CASE TakeRequest
    <2>1. /\ epc' \in {"begin", "ack"} /\ epc = "take" /\ UNCHANGED <<rout, trail, accepted, active>>
      BY <1>2 DEF TakeRequest
    <2> QED BY <2>1, EngineStepOwes DEF Announced
  <1>3. CASE EngineSend
    BY <1>3, EngineSendOwes
  <1>4. CASE BeginRequest
    <2>1. epc = "begin" /\ UNCHANGED <<rout, trail, accepted, active, eslot>> /\ eslot \in accepted
      BY <1>1, <1>4 DEF BeginRequest, EngineBusy
    <2>2. CASE epc' \in {"finish_cancelled", "fail"}
      BY <2>1, <2>2, EngineStepOwes DEF Announced
    <2>3. CASE epc' = "send" /\ eout'.kind = "started" /\ eout'.id = eslot
      BY <2>1, <2>3, EngineStepOwes DEF Announced
    <2> QED BY <1>4, <2>2, <2>3 DEF BeginRequest, Frame
  <1>5. CASE EngineChunk
    <2>1. /\ epc = "synthesize" /\ UNCHANGED <<rout, trail, accepted, active, eslot>>
          /\ eslot \in accepted
      BY <1>1, <1>5 DEF EngineChunk, EngineBusy
    <2>2. HasStarted(trail, eslot) /\ HasStarted(trail, eslot)'
      BY <2>1 DEF Owed, Announced, HasStarted
    <2>3. CASE epc' = "finish"
      BY <2>1, <2>2, <2>3, EngineStepOwes DEF Announced
    <2>4. CASE epc' = "send" /\ eout'.kind = "audio" /\ eout'.id = eslot
      BY <2>1, <2>2, <2>4, EngineStepOwes DEF Announced
    <2> QED BY <1>5, <2>3, <2>4 DEF EngineChunk, Frame
  <1>6. CASE StreamEnds \/ StreamRaises \/ FinishRequest
    <2>1. /\ epc \in {"synthesize", "finish"}
          /\ epc' \in {"finish", "fail", "finish_cancelled", "complete"}
          /\ UNCHANGED <<rout, trail, accepted, active, eslot>>
      BY <1>6 DEF StreamEnds, StreamRaises, FinishRequest
    <2>2. HasStarted(trail, eslot)'
      BY <2>1 DEF Owed, Announced, HasStarted
    <2> QED BY <2>1, <2>2, EngineStepOwes DEF Announced
  <1>7. ASSUME NEW kind \in Terminals, epc \in {"complete", "fail", "finish_cancelled"},
               kind = "completed" => epc = "complete", Terminalize({eslot}),
               EngineSends(Frame(kind, eslot), "take"), UNCHANGED <<rout, trail, accepted>>
        PROVE  Owed'
    <2>1. /\ epc' = "send" /\ enext' = "take" /\ eout'.kind = kind /\ eout'.id = eslot
          /\ active' = active \ {eslot} /\ eslot \in accepted
      BY <1>1, <1>7 DEF Frame, Terminalize, EngineBusy
    <2>2. \A r \in active \ active' : EngineHolds(r)'
      BY <2>1, <1>7 DEF EngineHolds
    <2>3. kind = "completed" => HasStarted(trail, eslot)
      BY <1>7 DEF Owed, Announced
    <2>4. Announced'
      BY <1>7, <2>1, <2>3 DEF Announced, HasStarted
    <2> QED BY <1>7, <2>1, <2>2, <2>4, EngineStepOwes
  <1>8. ASSUME NEW kind \in {"completed", "failed"}, EndRequest(kind)
        PROVE  Owed'
    <2>1. /\ kind \in Terminals /\ epc = IF kind = "completed" THEN "complete" ELSE "fail"
          /\ Terminalize({eslot}) /\ EngineSends(Frame(kind, eslot), "take")
          /\ UNCHANGED <<rout, trail, accepted>>
      BY <1>8 DEF EndRequest, Terminals
    <2> QED BY <2>1, <1>7
  <1>9. CASE FinishCancelled
    <2>1. /\ epc = "finish_cancelled" /\ Terminalize({eslot}) /\ UNCHANGED <<rout, trail, accepted>>
      BY <1>9 DEF FinishCancelled
    <2>2. CASE eslot \in notified
      <3>1. active' = active /\ epc' = "take"
        BY <1>9, <2>1, <2>2 DEF FinishCancelled, Terminalize, Inv, Table, Known
      <3> QED BY <2>1, <3>1, EngineStepOwes DEF Announced
    <2>3. CASE eslot \notin notified
      <3>1. EngineSends(Frame("cancelled", eslot), "take")
        BY <1>9, <2>3 DEF FinishCancelled
      <3> QED BY <2>1, <3>1, <1>7 DEF Terminals
    <2> QED BY <2>2, <2>3
  <1>10. CASE EngineAck
    <2>1. /\ epc = "ack" /\ UNCHANGED <<rout, trail, accepted, active>>
          /\ epc' = "done" \/ (epc' = "send" /\ eout'.kind = "shutdown_ack" /\ enext' = "done")
      BY <1>10 DEF EngineAck, Frame
    <2>2. Announced' /\ ~(epc' = "send" /\ eout'.kind \in LifecycleKinds)
      BY <2>1 DEF Announced, LifecycleKinds, Terminals
    <2> QED BY <2>1, <2>2, EngineStepOwes
  <1> QED BY <1>2, <1>3, <1>4, <1>5, <1>6, <1>8, <1>9, <1>10 DEF Engine

\* Every step of the server.
LEMMA NextOwes ==
  ASSUME Inv, Leaving, Owed, [Next]_vars
  PROVE  Owed'
  <1>1. CASE Writer \/ UNCHANGED vars
    <2>1. UNCHANGED <<rout, epc, eslot, eout, enext, trail, accepted, active>>
      BY <1>1 DEF Writer, WriterWrite, WriterDies, WriterExit, vars, readerVars, engineVars,
                  tableVars, histVars
    <2> QED BY <2>1, OwedKept
  <1> QED BY <1>1, ReaderOwes, EngineOwes DEF Next, Exited

\* Initially nothing is owed.
LEMMA InitEnd == Init => EndInv
  <1> SUFFICES ASSUME Init PROVE EndInv
    OBVIOUS
  <1>1. ReaderSpeaks /\ Leaving
    BY DEF Init, ReaderSpeaks, Leaving
  <1>2. Owed
    BY DEF Init, Owed, Settled, OnlyAccepted, Announced
  <1> QED BY <1>1, <1>2, InitInv DEF EndInv

\* Every step of the server preserves the invariant.
LEMMA NextEnd == EndInv /\ [Next]_vars => EndInv'
  BY NextInv, NextSpeaks, NextLeaves, NextOwes DEF EndInv

\* The invariant holds in every reachable state.
LEMMA EndInvariance == Spec => []EndInv
  BY InitEnd, NextEnd, PTL DEF Spec

\* A worker that leaves run() holds no slot and has answered every request it accepted,
\* whichever of cancel, shutdown, end of input, framing error and failed startup ended it.
THEOREM ExitSettles == Spec => []ExitOwesNothing
  <1>1. EndInv => ExitOwesNothing
    <2> SUFFICES ASSUME EndInv, rpc = "exited"
                 PROVE  physical = {} /\ \A r \in accepted : Ended(trail, r)
      BY DEF ExitOwesNothing
    <2>1. epc = "done" /\ rout = <<>> /\ pending = <<>>
      BY DEF EndInv, Leaving
    <2>2. physical = {} /\ active = {}
      BY <2>1, EntriesOfEmpty DEF EndInv, Inv, Table, SlotAccounting, Running, EngineBusy
    <2>3. \A r \in accepted : Ended(trail, r)
      BY <2>1, <2>2 DEF EndInv, Owed, Settled, ReaderHolds, EngineHolds
    <2> QED BY <2>2, <2>3
  <1> QED BY <1>1, EndInvariance, PTL
-----------------------------------------------------------------------------
(***************************************************************************)
(* The refinement.  A step of the server is silent for the client, accepts *)
(* a request, or puts one frame on the queue.                              *)
(***************************************************************************)
Silent == UNCHANGED <<trail, acked, accepted>>

Accepts ==
  /\ UNCHANGED <<trail, acked>> /\ ~acked
  /\ \E r \in Ids \ accepted : accepted' = accepted \cup {r}

HandsOver(f) ==
  /\ f \in OutFrame /\ trail' = Record(trail, f)
  /\ acked' = (acked \/ f.kind = "shutdown_ack") /\ accepted' = accepted
  /\ f.kind \in LifecycleKinds => f.id \in accepted
  /\ f.kind = "completed" => HasStarted(trail, f.id)
  /\ f.kind = "shutdown_ack" => \A r \in accepted : Ended(trail, r)

\* A frame put on the queue.
LEMMA PutHandsOver ==
  ASSUME NEW f \in OutFrame, Put(f),
         f.kind \in LifecycleKinds => f.id \in accepted,
         f.kind = "completed" => HasStarted(trail, f.id),
         f.kind = "shutdown_ack" => \A r \in accepted : Ended(trail, r)
  PROVE  HandsOver(f)
  <1>1. trail' = Record(trail, f) /\ acked' = (acked \/ f.kind = "shutdown_ack")
    BY Zenon DEF Put
  <1>2. accepted' = accepted
    BY DEF Put
  <1> QED BY <1>1, <1>2, Zenon DEF HandsOver

\* The main thread.
LEMMA ReaderShows ==
  ASSUME EndInv, ReaderRun \/ ReaderInput
  PROVE  Silent \/ Accepts \/ \E f : HandsOver(f)
  <1>1. CASE \/ StartupSucceeds \/ StartupFails \/ ReaderCheck \/ ReaderNeedMoreData
             \/ ReaderExit \/ ReaderRead \/ ReaderEnqueued \/ ReaderJoin \/ ReaderFramingError
    BY <1>1 DEF StartupSucceeds, StartupFails, ReaderCheck, ReaderNeedMoreData, ReaderExit,
                ReaderRead, ReaderEnqueued, ReaderJoin, ReaderFramingError, histVars, Silent
  <1>2. CASE ReaderClose
    BY <1>2 DEF ReaderClose, DrainPending, Reply, Silent
  <1>3. ASSUME NEW f \in Inputs, Handle(f)
        PROVE  Silent \/ Accepts
    <2>1. CASE AdmitSynthesize(f)
      <3>1. /\ f.id \in Ids /\ f.id > highWater /\ highWater \in 0..MaxId
            /\ accepted \subseteq 1..highWater
        BY <2>1, PyAssumption DEF AdmitSynthesize, Duplicate, ClientFrame, Ids, EndInv, Inv,
                                  Table, TableTypes, Known
      <3>2. f.id \in Ids \ accepted
        BY <3>1 DEF Ids
      <3>3. ~acked
        BY <2>1 DEF AdmitSynthesize, EndInv, Leaving
      <3> QED BY <2>1, <3>2, <3>3 DEF AdmitSynthesize, Reply, Accepts
    <2>2. CASE ~AdmitSynthesize(f)
      BY <1>3, <2>2 DEF Handle, HandleInvalid, HandleHello, HandlePing, RejectSynthesize,
                        CancelQueued, CancelRunning, CancelInactive, HandleShutdown,
                        DrainPending, Reply, Silent
    <2> QED BY <2>1, <2>2
  <1>4. CASE ReaderSend
    <2> DEFINE f == Head(rout)
    <2>1. rout \in Seq(OutFrame) /\ rout # <<>> /\ Put(f)
      BY <1>4 DEF ReaderSend, EndInv, Inv, Control, HandOver, ReaderTypes
    <2>2. f \in OutFrame /\ f = rout[1] /\ 1 \in DOMAIN rout
      BY <2>1, HeadTailProperties, LenProperties, EmptySeq
    <2>3. /\ f.kind \in LifecycleKinds => f.id \in accepted
          /\ f.kind \notin {"completed", "shutdown_ack"}
      BY <2>2 DEF EndInv, Owed, OnlyAccepted, ReaderSpeaks
    <2> HIDE DEF f
    <2> QED BY <2>1, <2>2, <2>3, PutHandsOver
  <1> QED BY <1>1, <1>2, <1>3, <1>4 DEF ReaderRun, ReaderInput

\* The engine thread: when it acknowledges, every accepted request has ended.
LEMMA EngineShows ==
  ASSUME EndInv, Engine
  PROVE  Silent \/ \E f : HandsOver(f)
  <1>1. CASE ~EngineSend
    BY <1>1 DEF Engine, TakeRequest, BeginRequest, EngineChunk, StreamEnds, StreamRaises,
                FinishRequest, FinishCancelled, EndRequest, EngineAck, histVars, Silent
  <1>2. CASE EngineSend
    <2>1. epc = "send" /\ eout \in OutFrame /\ Put(eout)
      BY <1>2 DEF EngineSend, EndInv, Inv, Control, EngineTypes
    <2>2. /\ eout.kind \in LifecycleKinds => eout.id \in accepted
          /\ eout.kind = "completed" => HasStarted(trail, eout.id)
      BY <2>1 DEF EndInv, Owed, OnlyAccepted, Announced
    <2>3. ASSUME eout.kind = "shutdown_ack"
          PROVE  \A r \in accepted : Ended(trail, r)
      <3>1. enext = "done" /\ enqueued /\ shutdown /\ rout = <<>> /\ pending = <<>>
        BY <2>1, <2>3 DEF EndInv, Leaving
      <3>2. active = {}
        BY <2>1, <3>1, EntriesOfEmpty DEF EndInv, Inv, Table, SlotAccounting, Running, EngineBusy
      <3> QED BY <2>3, <3>1, <3>2 DEF EndInv, Owed, Settled, ReaderHolds, EngineHolds, Terminals
    <2> QED BY <2>1, <2>2, <2>3, PutHandsOver
  <1> QED BY <1>1, <1>2

\* The phases that the client sees.
wirePhases == Phases(trail, accepted)

\* What a step does to the phases and the acknowledgement that the client sees.
LEMMA StepShows ==
  ASSUME EndInv, [Next]_vars
  PROVE  \/ wirePhases' = wirePhases /\ acked' = acked
         \/ /\ Moves(wirePhases, wirePhases') /\ acked' = acked
         \/ /\ ~acked /\ acked' = acked
            /\ \E r \in Ids : /\ wirePhases[r] = "created"
                              /\ wirePhases' = [wirePhases EXCEPT ![r] = "queued"]
         \/ /\ ~acked /\ acked' = TRUE /\ wirePhases' = wirePhases
            /\ \A r \in Ids : wirePhases[r] \notin {"queued", "running"}
  <1>1. trail \in Trails /\ accepted \subseteq Ids /\ acked \in BOOLEAN
    BY DEF EndInv, Inv, Control, OutputTypes, Table, TableTypes
  <1>2. CASE Silent
    BY <1>2 DEF Silent, wirePhases, Phases
  <1>3. CASE Accepts
    <2>1. PICK r \in Ids \ accepted : accepted' = accepted \cup {r}
      BY <1>3 DEF Accepts
    <2>2. trail[r] = <<>>
      BY <2>1 DEF EndInv, Owed, OnlyAccepted
    <2>3. wirePhases' = Phases(trail, accepted \cup {r})
      BY <1>3, <2>1 DEF Accepts, wirePhases, Phases
    <2>4. ~acked /\ acked' = acked
      BY <1>3 DEF Accepts
    <2> QED BY <1>1, <2>1, <2>2, <2>3, <2>4, AcceptMoves DEF wirePhases
  <1>4. ASSUME NEW f, HandsOver(f)
        PROVE  \/ wirePhases' = wirePhases /\ acked' = acked
               \/ /\ Moves(wirePhases, wirePhases') /\ acked' = acked
               \/ /\ ~acked /\ acked' = TRUE /\ wirePhases' = wirePhases
                  /\ \A r \in Ids : wirePhases[r] \notin {"queued", "running"}
    <2>1. /\ f \in OutFrame /\ trail' = Record(trail, f) /\ accepted' = accepted
          /\ f.kind \in LifecycleKinds => f.id \in accepted \cap Ids
          /\ f.kind = "completed" => HasStarted(trail, f.id)
      BY <1>1, <1>4 DEF HandsOver
    <2>2. wirePhases' = Phases(Record(trail, f), accepted)
      BY <2>1 DEF wirePhases
    <2>3. wirePhases' = wirePhases \/ Moves(wirePhases, wirePhases')
      BY <1>1, <2>1, <2>2, HandOverMoves DEF wirePhases
    <2>4. CASE f.kind # "shutdown_ack"
      <3>1. acked' <=> acked
        BY <1>4, <2>4, Zenon DEF HandsOver
      <3>2. acked' \in BOOLEAN
        BY <1>4 DEF HandsOver
      <3>3. acked' = acked
        BY <1>1, <3>1, <3>2
      <3> QED BY <2>3, <3>3
    <2>5. CASE f.kind = "shutdown_ack"
      <3>1. \A r \in Ids : wirePhases'[r] = wirePhases[r]
        BY <1>1, <2>1, <2>2, <2>5, PhaseKept DEF wirePhases, Phases, Terminals
      <3>2. wirePhases' = wirePhases
        BY <3>1 DEF wirePhases, Phases
      <3>3. acked' /\ acked' \in BOOLEAN
        BY <1>4, <2>5 DEF HandsOver
      <3>4. ASSUME NEW r \in Ids
            PROVE  wirePhases[r] \notin {"queued", "running"}
        <4>1. wirePhases[r] = WirePhase(trail, accepted, r)
          BY DEF wirePhases, Phases
        <4>2. CASE r \in accepted
          <5>1. PICK i : FirstEnd(trail[r], i)
            BY <1>1, <1>4, <2>5, <4>2, EndedHasFirst DEF HandsOver
          <5>2. wirePhases[r] = trail[r][i]
            BY <1>1, <4>1, <5>1, EndedPhase
          <5> QED BY <5>1, <5>2 DEF FirstEnd, Terminals
        <4>3. CASE r \notin accepted
          <5>1. ~Ended(trail, r) /\ ~HasStarted(trail, r)
            BY <4>3 DEF EndInv, Owed, OnlyAccepted, Ended, HasStarted
          <5> QED BY <4>1, <4>3, <5>1, LivePhase
        <4> QED BY <4>2, <4>3
      <3> QED BY <1>1, <3>2, <3>3, <3>4
    <2> QED BY <2>4, <2>5
  <1>5. CASE Writer \/ UNCHANGED vars
    <2>1. Silent
      BY <1>5 DEF Writer, WriterWrite, WriterDies, WriterExit, vars, histVars, Silent
    <2> QED BY <1>2, <2>1
  <1> QED BY <1>2, <1>3, <1>4, <1>5, ReaderShows, EngineShows DEF Next, Exited

\* The Python worker implements the request lifecycle of the protocol, as a client reads it
\* that discards what follows the first terminal frame of a request: whatever the threads
\* interleave, also when the engine ends a request that cancel has already answered.
THEOREM RefinesLifecycle == Spec => ImplementsLifecycle
  <1>1. Init => Lifecycle!Init
    <2> SUFFICES ASSUME Init PROVE Lifecycle!Init
      OBVIOUS
    <2>1. \A r \in Ids : ~Ended(trail, r) /\ ~HasStarted(trail, r)
      BY DEF Init, Ended, HasStarted
    <2>2. accepted = {} /\ acked = FALSE
      BY DEF Init
    <2>3. \A r \in Ids : WirePhase(trail, accepted, r) = "created"
      BY <2>1, <2>2, LivePhase
    <2> QED BY <2>2, <2>3 DEF Lifecycle!Init
  <1>2. EndInv /\ [Next]_vars => [Lifecycle!Next]_(Lifecycle!lifecycleVars)
    <2> SUFFICES ASSUME EndInv, [Next]_vars
                 PROVE  [Lifecycle!Next]_(Lifecycle!lifecycleVars)
      OBVIOUS
    <2>1. /\ wirePhases = [r \in Ids |-> WirePhase(trail, accepted, r)]
          /\ wirePhases' = [r \in Ids |-> WirePhase(trail, accepted, r)]'
      BY DEF wirePhases, Phases
    <2>2. CASE wirePhases' = wirePhases /\ acked' = acked
      BY <2>1, <2>2 DEF Lifecycle!lifecycleVars
    <2>3. CASE Moves(wirePhases, wirePhases') /\ acked' = acked
      <3>1. PICK r \in Ids :
              \/ wirePhases[r] = "queued" /\ wirePhases' = [wirePhases EXCEPT ![r] = "running"]
              \/ \E outcome \in Terminals :
                   /\ wirePhases[r] = "running" \/ (wirePhases[r] = "queued" /\ outcome # "completed")
                   /\ wirePhases' = [wirePhases EXCEPT ![r] = outcome]
        BY <2>3 DEF Moves
      <3>2. Lifecycle!Start(r) \/ \E outcome \in Lifecycle!Done : Lifecycle!End(r, outcome)
        BY <2>1, <2>3, <3>1 DEF Lifecycle!Start, Lifecycle!End, Lifecycle!Done, Terminals
      <3> QED BY <3>2 DEF Lifecycle!Next
    <2>4. ASSUME ~acked, acked' = acked, NEW r \in Ids, wirePhases[r] = "created",
                 wirePhases' = [wirePhases EXCEPT ![r] = "queued"]
          PROVE  [Lifecycle!Next]_(Lifecycle!lifecycleVars)
      <3>1. Lifecycle!Admit(r)
        BY <2>1, <2>4 DEF Lifecycle!Admit
      <3> QED BY <3>1 DEF Lifecycle!Next
    <2>5. CASE /\ ~acked /\ acked' = TRUE /\ wirePhases' = wirePhases
               /\ \A r \in Ids : wirePhases[r] \notin {"queued", "running"}
      <3>1. Lifecycle!Acknowledge
        BY <2>1, <2>5 DEF Lifecycle!Acknowledge
      <3> QED BY <3>1 DEF Lifecycle!Next
    <2> QED BY <2>2, <2>3, <2>4, <2>5, StepShows
  <1> QED BY <1>1, <1>2, EndInvariance, PTL DEF Spec, ImplementsLifecycle, Lifecycle!Spec
=============================================================================
