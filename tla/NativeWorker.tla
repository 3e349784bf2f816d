---------------------------- MODULE NativeWorker ----------------------------
(***************************************************************************)
(* The native worker's stdio server (worker/native/qwentts/stdio_server):  *)
(* a reader thread (run/read_loop), an engine thread (engine_loop) and an  *)
(* output writer thread share the request table under mutex_ and one       *)
(* bounded output queue.                                                   *)
(*                                                                         *)
(* Grain: a critical section of mutex_ is one step, a frame handed to the  *)
(* writer is one step, a read of an atomic flag is one step.  A slot is    *)
(* identified by its request id, which is unique per session.              *)
(***************************************************************************)
EXTENDS QtbFrames

CONSTANTS
  Inputs,       \* the frames the client may send
  MaxAdmitted,  \* max_admitted_requests_
  Capacity,     \* OutputWriter::max_frames_
  MaxChunks,    \* bound: audio chunks the engine produces per request
  Faults        \* the failures enabled: "stdout" (WriteFile), "chunk" (qwen.dll)

ASSUME NativeAssumption ==
  /\ Inputs \subseteq ClientFrame
  /\ MaxAdmitted \in Nat \ {0}
  /\ Capacity \in Nat \ {0}
  /\ MaxChunks \in Nat
  /\ Faults \subseteq {"stdout", "chunk"}

VARIABLES
  rpc,          \* where the reader thread is
  rout,         \* frames its handler still has to hand to the writer
  rnext,        \* where it goes after them
  epc,          \* where the engine thread is
  eslot,        \* the request it runs, 0 if none
  eout,         \* the frame it is handing to the writer
  enext,        \* where it goes after that
  chunks,       \* audio chunks emitted for eslot
  pending,      \* pending_
  active,       \* the ids of active_
  admitted,     \* admitted_requests_
  highWater,    \* accepted_id_high_water_
  cancelled,    \* the ids whose slot->cancelled is set
  terminal,     \* the ids whose slot->terminal is set
  ready,        \* hello_seen_ and ready_sent_, which are always set together
  shutdown,     \* shutdown_requested_
  ackNeeded,    \* shutdown_ack_needed_
  enqueued,     \* shutdown_terminals_enqueued_
  fatal,        \* fatal_error_
  backlog,      \* the length of OutputWriter::queue_, a FIFO nobody else looks into
  stopping,     \* OutputWriter::stopping_
  failed,       \* OutputWriter::failed_
  wdone,        \* the writer thread has returned
  trail,        \* history: lifecycle frames handed to the writer, per request
  acked         \* history: shutdown_ack handed to the writer

readerVars == <<rpc, rout, rnext>>
engineVars == <<epc, eslot, eout, enext, chunks>>
tableVars  == <<pending, active, admitted, highWater, cancelled, terminal>>
flagVars   == <<ready, shutdown, ackNeeded, enqueued, fatal>>
writerVars == <<backlog, stopping, failed, wdone>>
histVars   == <<trail, acked>>
vars == <<readerVars, engineVars, tableVars, flagVars, writerVars, histVars>>

-----------------------------------------------------------------------------
\* What eout holds while the engine thread is not handing over a frame.
NoFrame == Frame("pong", 0)

Init ==
  /\ rpc = "check" /\ rout = <<>> /\ rnext = "parse"
  /\ epc = "take" /\ eslot = 0 /\ eout = NoFrame /\ enext = "take"
  /\ chunks = 0
  /\ pending = <<>> /\ active = {} /\ admitted = 0 /\ highWater = 0
  /\ cancelled = {} /\ terminal = {}
  /\ ready = FALSE /\ shutdown = FALSE /\ ackNeeded = FALSE
  /\ enqueued = FALSE /\ fatal = FALSE
  /\ backlog = 0 /\ stopping = FALSE /\ failed = FALSE /\ wdone = FALSE
  /\ trail = [r \in Ids |-> <<>>] /\ acked = FALSE

-----------------------------------------------------------------------------
(* OutputWriter and fail_fatal                                             *)

\* OutputWriter::send accepts f: there is room and the writer has not failed.
Accept(f) ==
  /\ backlog < Capacity /\ ~stopping /\ ~failed
  /\ backlog' = backlog + 1
  /\ trail' = Record(trail, f)
  /\ acked' = (acked \/ f.kind = "shutdown_ack")
  /\ UNCHANGED <<stopping, failed, wdone>>

\* fail_fatal: the session is lost; every active request is flagged.
FailFatal ==
  /\ fatal' = TRUE
  /\ cancelled' = cancelled \cup active
  /\ UNCHANGED <<ready, shutdown, ackNeeded, enqueued>>
  /\ UNCHANGED <<pending, active, admitted, highWater, terminal>>

\* OutputWriter::send returned false; send_control and send_error call fail_fatal.
Refused == (stopping \/ failed) /\ FailFatal /\ UNCHANGED <<writerVars, histVars>>

WriterWrite ==
  /\ ~wdone /\ backlog > 0
  /\ backlog' = backlog - 1
  /\ UNCHANGED <<stopping, failed, wdone>>
  /\ UNCHANGED <<readerVars, engineVars, tableVars, flagVars, histVars>>

WriterFail ==
  /\ "stdout" \in Faults
  /\ ~wdone /\ backlog > 0
  /\ backlog' = 0 /\ failed' = TRUE /\ stopping' = TRUE /\ wdone' = TRUE
  /\ UNCHANGED <<readerVars, engineVars, tableVars, flagVars, histVars>>

WriterExit ==
  /\ ~wdone /\ backlog = 0 /\ stopping
  /\ wdone' = TRUE
  /\ UNCHANGED <<backlog, stopping, failed>>
  /\ UNCHANGED <<readerVars, engineVars, tableVars, flagVars, histVars>>

-----------------------------------------------------------------------------
(* The reader thread                                                       *)

\* The reader leaves a handler: it still has fs to hand over, then it is at next.
Reply(fs, next) ==
  /\ rpc' = IF fs = <<>> THEN next ELSE "send"
  /\ rout' = fs
  /\ rnext' = IF fs = <<>> THEN "parse" ELSE next
  /\ UNCHANGED <<engineVars, writerVars, histVars>>

Goto(pc) == rpc' = pc /\ UNCHANGED <<rout, rnext>>

ReaderCheck ==
  /\ rpc = "check"
  /\ Goto(IF shutdown \/ fatal THEN "close" ELSE "read")
  /\ UNCHANGED <<engineVars, tableVars, flagVars, writerVars, histVars>>

\* _read returns: bytes, or end of file.
ReaderRead ==
  /\ rpc = "read"
  /\ Goto("parse") \/ Goto("close")
  /\ UNCHANGED <<engineVars, tableVars, flagVars, writerVars, histVars>>

\* The bytes read so far hold no further complete frame.
ReaderNeedMoreData ==
  /\ rpc = "parse"
  /\ Goto("check")
  /\ UNCHANGED <<engineVars, tableVars, flagVars, writerVars, histVars>>

\* Fatal framing error.
ReaderFramingError ==
  /\ rpc = "parse"
  /\ FailFatal
  /\ rpc' = "close" /\ UNCHANGED <<rout, rnext>>
  /\ UNCHANGED <<engineVars, writerVars, histVars>>

\* One complete frame was parsed.
Parsed(f) ==
  /\ rpc = "parse"
  /\ f \in Inputs

NotReady(f) == ~ready /\ f.type \notin {"hello", "ping", "shutdown"}

\* Every frame answered by an error and otherwise ignored, but for synthesize and cancel.
HandleInvalid(f) ==
  /\ Parsed(f)
  /\ \/ f.type = "malformed"
     \/ NotReady(f)
     \/ f.type = "hello" /\ (f.id # 0 \/ ready \/ shutdown)
     \/ f.type = "ping" /\ f.id # 0
     \/ f.type = "shutdown" /\ (f.id # 0 \/ ~f.valid)
  /\ Reply(<<Frame("reject", f.id)>>, "parse")
  /\ UNCHANGED <<tableVars, flagVars>>

HandleHello(f) ==
  /\ Parsed(f) /\ f.type = "hello"
  /\ f.id = 0 /\ ~ready /\ ~shutdown
  /\ ready' = TRUE
  /\ Reply(<<Frame("ready", 0)>>, "parse")
  /\ UNCHANGED <<tableVars, shutdown, ackNeeded, enqueued, fatal>>

HandlePing(f) ==
  /\ Parsed(f) /\ f.type = "ping" /\ f.id = 0
  /\ Reply(<<Frame("pong", 0)>>, "parse")
  /\ UNCHANGED <<tableVars, flagVars>>

Duplicate(r) == r \in active \/ r <= highWater

RejectSynthesize(f) ==
  /\ Parsed(f) /\ f.type = "synthesize" /\ ready
  /\ \/ f.id = 0
     \/ ~f.valid
     \/ shutdown
     \/ Duplicate(f.id)
     \/ admitted >= MaxAdmitted
  /\ Reply(<<Frame("reject", f.id)>>, "parse")
  /\ UNCHANGED <<tableVars, flagVars>>

AdmitSynthesize(f) ==
  /\ Parsed(f) /\ f.type = "synthesize" /\ ready
  /\ f.id # 0 /\ f.valid
  /\ ~shutdown /\ ~Duplicate(f.id) /\ admitted < MaxAdmitted
  /\ highWater' = f.id
  /\ admitted' = admitted + 1
  /\ active' = active \cup {f.id}
  /\ pending' = Append(pending, f.id)
  /\ Reply(<<Frame("queued", f.id)>>, "parse")
  /\ UNCHANGED <<cancelled, terminal, flagVars>>

\* A slot whose state is Queued is exactly one that waits in pending_.
Queued(r) == \E i \in DOMAIN pending : pending[i] = r

\* Mutant of CancelQueued: the request is dropped without an answer.
CancelQueuedSilently(f) ==
  /\ Parsed(f) /\ f.type = "cancel" /\ ready
  /\ f.id \in active /\ Queued(f.id)
  /\ cancelled' = cancelled \cup {f.id}
  /\ \E i \in DOMAIN pending : pending[i] = f.id /\ pending' = RemoveAt(pending, i)
  /\ terminal' = terminal \cup {f.id}
  /\ active' = active \ {f.id}
  /\ admitted' = admitted - 1
  /\ Reply(<<>>, "parse")
  /\ UNCHANGED <<highWater, flagVars>>

\* cancel of a waiting request: its one entry leaves the queue and its slot is released.
CancelQueued(f) ==
  /\ Parsed(f) /\ f.type = "cancel" /\ ready
  /\ f.id \in active /\ Queued(f.id)
  /\ cancelled' = cancelled \cup {f.id}
  /\ \E i \in DOMAIN pending : pending[i] = f.id /\ pending' = RemoveAt(pending, i)
  /\ IF f.id \in terminal
     THEN Reply(<<>>, "parse") /\ UNCHANGED <<terminal, active, admitted>>
     ELSE /\ terminal' = terminal \cup {f.id}
          /\ active' = active \ {f.id}
          /\ admitted' = admitted - 1
          /\ Reply(<<Frame("cancelled", f.id)>>, "parse")
  /\ UNCHANGED <<highWater, flagVars>>

\* Mutant of CancelRunning: the reader answers for a request the engine will end.
CancelRunningAnswers(f) ==
  /\ Parsed(f) /\ f.type = "cancel" /\ ready
  /\ f.id \in active /\ ~Queued(f.id)
  /\ cancelled' = cancelled \cup {f.id}
  /\ Reply(<<Frame("cancelled", f.id)>>, "parse")
  /\ UNCHANGED <<pending, active, admitted, highWater, terminal, flagVars>>

\* cancel of the running request: only its flag is set.
CancelRunning(f) ==
  /\ Parsed(f) /\ f.type = "cancel" /\ ready
  /\ f.id \in active /\ ~Queued(f.id)
  /\ cancelled' = cancelled \cup {f.id}
  /\ Reply(<<>>, "parse")
  /\ UNCHANGED <<pending, active, admitted, highWater, terminal, flagVars>>

\* cancel of an id that is not active: an error above the high-water mark, else nothing.
CancelInactive(f) ==
  /\ Parsed(f) /\ f.type = "cancel" /\ ready
  /\ f.id = 0 \/ f.id \notin active
  /\ Reply(IF f.id = 0 \/ f.id > highWater THEN <<Frame("reject", f.id)>> ELSE <<>>,
           "parse")
  /\ UNCHANGED <<tableVars, flagVars>>

\* First critical section of request_shutdown: drain the queue, flag the others.
DrainPending(ack) ==
  /\ shutdown' = TRUE
  /\ ackNeeded' = (ackNeeded \/ ack)
  /\ LET waiting == ToSet(pending)
         ended   == Keep(pending, Ids \ terminal)
     IN  /\ pending' = <<>>
         /\ terminal' = terminal \cup waiting
         /\ active' = active \ ToSet(ended)
         /\ admitted' = admitted - Len(ended)
         /\ cancelled' = cancelled \cup waiting \cup active
         /\ Reply([i \in 1..Len(ended) |-> Frame("cancelled", ended[i])], "enqueued")
  /\ UNCHANGED <<highWater, ready, enqueued, fatal>>

HandleShutdown(f) ==
  /\ Parsed(f) /\ f.type = "shutdown" /\ f.id = 0 /\ f.valid
  /\ ~shutdown
  /\ DrainPending(TRUE)

\* run(): request_shutdown(false) once read_loop has returned.
ReaderClose ==
  /\ rpc = "close"
  /\ IF shutdown
     THEN Reply(<<>>, "join") /\ UNCHANGED <<tableVars, flagVars>>
     ELSE DrainPending(FALSE)

\* Mutant of ReaderEnqueued: the loop reads on without a test of the shutdown flag.
ReaderEnqueuedReadsOn ==
  /\ rpc = "enqueued"
  /\ enqueued' = TRUE
  /\ Goto("read")
  /\ UNCHANGED <<engineVars, tableVars, writerVars, histVars>>
  /\ UNCHANGED <<ready, shutdown, ackNeeded, fatal>>

\* Last critical section of request_shutdown.
ReaderEnqueued ==
  /\ rpc = "enqueued"
  /\ enqueued' = TRUE
  /\ Goto("close")
  /\ UNCHANGED <<engineVars, tableVars, writerVars, histVars>>
  /\ UNCHANGED <<ready, shutdown, ackNeeded, fatal>>

ReaderSend ==
  /\ rpc = "send"
  /\ \/ Accept(Head(rout)) /\ UNCHANGED <<tableVars, flagVars>>
     \/ Refused
  /\ rout' = Tail(rout)
  /\ IF Len(rout) = 1
     THEN rpc' = rnext /\ rnext' = "parse"
     ELSE UNCHANGED <<rpc, rnext>>
  /\ UNCHANGED engineVars

\* Mutant of ReaderJoin: the writer is told to stop before the engine thread is joined.
ReaderJoinsNobody ==
  /\ rpc = "join"
  /\ stopping' = TRUE
  /\ Goto("drain")
  /\ UNCHANGED <<backlog, failed, wdone>>
  /\ UNCHANGED <<engineVars, tableVars, flagVars, histVars>>

\* run(): join the engine thread, then stop_when_drained.
ReaderJoin ==
  /\ rpc = "join" /\ epc = "done"
  /\ stopping' = TRUE
  /\ Goto("drain")
  /\ UNCHANGED <<backlog, failed, wdone>>
  /\ UNCHANGED <<engineVars, tableVars, flagVars, histVars>>

ReaderExit ==
  /\ rpc = "drain" /\ wdone
  /\ Goto("exited")
  /\ UNCHANGED <<engineVars, tableVars, flagVars, writerVars, histVars>>

Handle(f) ==
  \/ HandleInvalid(f) \/ HandleHello(f) \/ HandlePing(f)
  \/ RejectSynthesize(f) \/ AdmitSynthesize(f)
  \/ CancelQueued(f) \/ CancelRunning(f) \/ CancelInactive(f)
  \/ HandleShutdown(f)

ReaderRun ==
  \/ ReaderCheck \/ ReaderNeedMoreData \/ ReaderSend \/ ReaderClose
  \/ ReaderEnqueued \/ ReaderJoin \/ ReaderExit

ReaderInput == ReaderRead \/ ReaderFramingError \/ \E f \in Inputs : Handle(f)

-----------------------------------------------------------------------------
(* The engine thread                                                       *)

EngineSends(f, next) ==
  /\ epc' = "send" /\ eout' = f /\ enext' = next

EngineSend ==
  /\ epc = "send"
  /\ \/ Accept(eout) /\ epc' = enext /\ UNCHANGED <<tableVars, flagVars>>
     \/ Refused /\ epc' = IF enext = "chunk_sent" THEN "stopped" ELSE enext
  /\ eout' = NoFrame /\ enext' = "take"
  /\ UNCHANGED <<eslot, chunks, readerVars>>

\* Mutant of TakeRequest: shutdown_terminals_enqueued_ is not waited for.
TakeRequestTooSoon ==
  /\ epc = "take"
  /\ IF pending # <<>>
     THEN /\ eslot' = Head(pending) /\ pending' = Tail(pending)
          /\ epc' = "begin"
     ELSE /\ shutdown \/ fatal
          /\ epc' = "ack"
          /\ UNCHANGED <<eslot, pending>>
  /\ UNCHANGED <<chunks, eout, enext, active, admitted, highWater, cancelled, terminal>>
  /\ UNCHANGED <<readerVars, flagVars, writerVars, histVars>>

\* take_next_request: the oldest waiting request, or none once there is no more to come.
TakeRequest ==
  /\ epc = "take"
  /\ IF pending # <<>>
     THEN /\ eslot' = Head(pending) /\ pending' = Tail(pending)
          /\ epc' = "begin"
     ELSE /\ (shutdown /\ enqueued) \/ fatal
          /\ epc' = "ack"
          /\ UNCHANGED <<eslot, pending>>
  /\ UNCHANGED <<chunks, eout, enext, active, admitted, highWater, cancelled, terminal>>
  /\ UNCHANGED <<readerVars, flagVars, writerVars, histVars>>

\* Mutant of Terminalize: the admission slot is not given back.
TerminalizeKeepsSlot(kind) ==
  /\ IF eslot \in terminal
     THEN epc' = "take" /\ UNCHANGED <<eout, enext, active, terminal>>
     ELSE /\ terminal' = terminal \cup {eslot}
          /\ active' = active \ {eslot}
          /\ EngineSends(Frame(kind, eslot), "take")
  /\ eslot' = 0 /\ chunks' = 0
  /\ UNCHANGED <<pending, admitted, highWater, cancelled>>
  /\ UNCHANGED <<readerVars, flagVars, writerVars, histVars>>

\* terminalize, whose exchange and critical section no other thread can tell apart: for
\* a running slot the reader tests neither terminal nor, but for its flag, membership.
\* The winner then hands over the request's terminal frame.
Terminalize(kind) ==
  /\ IF eslot \in terminal
     THEN epc' = "take" /\ UNCHANGED <<eout, enext, active, admitted, terminal>>
     ELSE /\ terminal' = terminal \cup {eslot}
          /\ active' = active \ {eslot}
          /\ admitted' = IF admitted > 0 THEN admitted - 1 ELSE admitted
          /\ EngineSends(Frame(kind, eslot), "take")
  /\ eslot' = 0 /\ chunks' = 0
  /\ UNCHANGED <<pending, highWater, cancelled>>
  /\ UNCHANGED <<readerVars, flagVars, writerVars, histVars>>

\* Mutant of BeginRequest: synthesis begins without `started`.
BeginUnannounced ==
  /\ epc = "begin"
  /\ IF eslot \in cancelled
     THEN Terminalize("cancelled")
     ELSE /\ epc' = "synthesize" /\ UNCHANGED <<eslot, eout, enext, chunks>>
          /\ UNCHANGED <<readerVars, tableVars, flagVars, writerVars, histVars>>

\* run_request: a request cancelled while it waited never starts.
BeginRequest ==
  /\ epc = "begin"
  /\ IF eslot \in cancelled
     THEN Terminalize("cancelled")
     ELSE /\ EngineSends(Frame("started", eslot), "synthesize")
          /\ UNCHANGED <<eslot, chunks>>
          /\ UNCHANGED <<readerVars, tableVars, flagVars, writerVars, histVars>>

\* The chunk callback up to the call of writer_->send.
EngineChunk ==
  /\ epc = "synthesize" /\ chunks < MaxChunks
  /\ chunks' = chunks + 1
  /\ IF eslot \in cancelled \cup terminal
     THEN epc' = "stopped" /\ UNCHANGED <<eout, enext>>
     ELSE EngineSends(Frame("audio", eslot), "chunk_sent")
  /\ UNCHANGED <<eslot, readerVars, tableVars, flagVars, writerVars, histVars>>

\* The chunk callback after writer_->send succeeded: its value is !cancelled.
EngineChunkSent ==
  /\ epc = "chunk_sent"
  /\ epc' = IF eslot \in cancelled THEN "stopped" ELSE "synthesize"
  /\ UNCHANGED <<eslot, eout, enext, chunks>>
  /\ UNCHANGED <<readerVars, tableVars, flagVars, writerVars, histVars>>

\* The chunk callback on a null or empty chunk.
EngineInvalidChunk ==
  /\ "chunk" \in Faults
  /\ epc = "synthesize" /\ eslot \notin cancelled \cup terminal
  /\ FailFatal
  /\ epc' = "stopped" /\ UNCHANGED <<eslot, eout, enext, chunks>>
  /\ UNCHANGED <<readerVars, writerVars, histVars>>

\* NativeEngine::synthesize returns.  qwen.dll reports success or failure unless it was
\* told to stop; any other status with the cancel flag set counts as cancelled.
SynthesizeReturns(outcome) ==
  /\ \/ epc = "synthesize" /\ outcome \in {"completed", "failed"}
     \/ epc \in {"synthesize", "stopped"} /\ outcome = "cancelled" /\ eslot \in cancelled
  /\ Terminalize(outcome)

\* engine_loop after its last request: read shutdown_ack_needed_, acknowledge if set.
EngineAck ==
  /\ epc = "ack"
  /\ IF ackNeeded
     THEN EngineSends(Frame("shutdown_ack", 0), "done")
     ELSE epc' = "done" /\ UNCHANGED <<eout, enext>>
  /\ UNCHANGED <<eslot, chunks, readerVars, tableVars, flagVars, writerVars, histVars>>

Engine ==
  \/ TakeRequest \/ BeginRequest \/ EngineSend
  \/ EngineChunk \/ EngineChunkSent \/ EngineInvalidChunk
  \/ \E outcome \in Terminals : SynthesizeReturns(outcome)
  \/ EngineAck

Writer == WriterWrite \/ WriterFail \/ WriterExit

\* The process has ended.
Exited == rpc = "exited" /\ UNCHANGED vars

Next == ReaderRun \/ ReaderInput \/ Engine \/ Writer \/ Exited

Spec == Init /\ [][Next]_vars

(***************************************************************************)
(* Each thread keeps running; qwen.dll returns from every call; the client *)
(* drains stdout (or the pipe breaks).  A client that never stops sending  *)
(* can keep the reader competing for room in the output queue: the engine  *)
(* thread, notified whenever room appears, wins eventually.  One _read     *)
(* returns at most 64 KiB, so the frames of one read run out.  Nothing     *)
(* else is assumed of stdin.                                               *)
(***************************************************************************)
Fairness ==
  /\ WF_vars(ReaderRun) /\ SF_vars(ReaderNeedMoreData)
  /\ WF_vars(Engine) /\ SF_vars(EngineSend)
  /\ WF_vars(WriterWrite \/ WriterExit)

FairSpec == Spec /\ Fairness
-----------------------------------------------------------------------------
(* Properties                                                              *)

ReaderPcs == {"check", "read", "parse", "send", "enqueued", "close", "join", "drain",
              "exited"}
EnginePcs == {"take", "begin", "send", "synthesize", "chunk_sent", "stopped", "ack",
              "done"}

ReaderTypeOK == rpc \in ReaderPcs /\ rout \in Seq(OutFrame) /\ rnext \in ReaderPcs

EngineTypeOK ==
  /\ epc \in EnginePcs /\ eslot \in 0..MaxId /\ eout \in OutFrame
  /\ enext \in EnginePcs /\ chunks \in 0..MaxChunks

TableTypeOK ==
  /\ pending \in Seq(Ids) /\ active \subseteq Ids /\ admitted \in Nat
  /\ highWater \in 0..MaxId /\ cancelled \subseteq Ids /\ terminal \subseteq Ids

FlagTypeOK ==
  /\ ready \in BOOLEAN /\ shutdown \in BOOLEAN /\ ackNeeded \in BOOLEAN
  /\ enqueued \in BOOLEAN /\ fatal \in BOOLEAN

WriterTypeOK ==
  /\ backlog \in 0..Capacity
  /\ stopping \in BOOLEAN /\ failed \in BOOLEAN /\ wdone \in BOOLEAN

HistTypeOK == trail \in [Ids -> Seq(LifecycleKinds)] /\ acked \in BOOLEAN

\* Every variable has its type; the output queue never exceeds max_frames_.
TypeOK ==
  /\ ReaderTypeOK /\ EngineTypeOK /\ TableTypeOK
  /\ FlagTypeOK /\ WriterTypeOK /\ HistTypeOK

Accepted == active \cup terminal

\* The engine thread is between take_next_request and terminalize.
EngineBusy ==
  \/ epc \in {"begin", "synthesize", "chunk_sent", "stopped"}
  \/ epc = "send" /\ enext \in {"synthesize", "chunk_sent"}

Running == IF EngineBusy THEN {eslot} ELSE {}

\* admitted_requests_ counts exactly the requests in active_, which are the waiting ones
\* and the one the engine runs, never more than the admission limit: every slot taken in
\* handle_synthesize is released once, by whichever of cancel, shutdown and the engine
\* ends the request.
SlotAccounting ==
  /\ admitted = Cardinality(active) /\ admitted <= MaxAdmitted
  /\ active = ToSet(pending) \cup Running
  /\ Running \cap ToSet(pending) = {}
  /\ IsInjective(pending)
  /\ active \cap terminal = {}

\* No request is answered twice: of the frames handed to the writer for a request nothing
\* follows the first terminal one, whichever thread sent it, but for the `queued` frame
\* that the reader may still be holding.
NothingAfterTerminal ==
  \A r \in Ids : \A i, j \in DOMAIN trail[r] :
    i < j /\ trail[r][i] \in Terminals => trail[r][j] = "queued"

\* A worker that leaves run() with a working stdout owes no answer: every accepted request
\* has its terminal frame, also when engine, framing or shutdown paths overlapped.
ExitOwesNothing ==
  rpc = "exited" /\ ~failed => active = {} /\ \A r \in Accepted : Ended(trail, r)

\* Every accepted request is answered, unless stdout broke.
RequestEnds ==
  \A r \in Ids : r \in active ~> (Ended(trail, r) \/ failed)

\* Once shutdown was requested the process ends, whatever the engine was doing and even
\* when stdout breaks while producers wait for room.
ShutdownExits == shutdown ~> rpc = "exited"

\* The worker implements the request lifecycle of the protocol: each request goes through
\* the allowed transitions only, and the acknowledgement of a session that did not fail
\* comes after every end.
Lifecycle == INSTANCE RequestLifecycle
  WITH Requests <- Ids,
       phase <- [r \in Ids |-> WirePhase(trail, Accepted, r)],
       acked <- acked /\ ~fatal

ImplementsLifecycle == Lifecycle!Spec
=============================================================================
