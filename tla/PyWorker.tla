------------------------------ MODULE PyWorker ------------------------------
(***************************************************************************)
(* The Python worker's StdioWorkerServer (the production worker): the main *)
(* thread starts the engine and then reads stdin, the engine thread runs   *)
(* one request at a time, a writer thread empties one bounded queue.Queue. *)
(*                                                                         *)
(* Grain: a `with self._condition` block is one step, a frame put on the   *)
(* output queue is one step, a test of a cancel_event is one step.         *)
(***************************************************************************)
EXTENDS QtbFrames

CONSTANTS
  Inputs,       \* the frames the client may send
  MaxAdmitted,  \* _max_admitted_requests
  Capacity,     \* the maxsize of the writer's queue
  MaxChunks,    \* bound: audio chunks the engine yields per request
  Faults        \* the failures enabled: "stdout" (write raises), "startup"

ASSUME PyAssumption ==
  /\ Inputs \subseteq ClientFrame
  /\ MaxAdmitted \in Nat \ {0}
  /\ Capacity \in Nat \ {0}
  /\ MaxChunks \in Nat
  /\ Faults \subseteq {"stdout", "startup"}

VARIABLES
  rpc,          \* where the main thread is
  rout,         \* frames its handler still has to put on the queue
  rnext,        \* where it goes after them
  epc,          \* where the engine thread is
  eslot,        \* the request it runs, 0 if none
  eout,         \* the frame it is putting on the queue
  enext,        \* where it goes after that
  chunks,       \* audio chunks sent for eslot
  pending,      \* _pending
  active,       \* the ids of _active: requests not yet answered
  physical,     \* the ids of _physical: requests that hold an admission slot
  admitted,     \* _admitted_requests
  highWater,    \* _accepted_request_id_high_water
  cancelled,    \* the ids whose cancel_event is set
  notified,     \* the ids whose terminal_notified is set
  ready,        \* _hello_seen and _ready_sent, which are always set together
  shutdown,     \* _shutdown_requested
  ackNeeded,    \* _shutdown_ack_needed
  enqueued,     \* _shutdown_terminal_events_enqueued
  fatal,        \* _fatal_error
  backlog,      \* frames in the writer's queue, which nobody else looks into
  sentinel,     \* the None that ends the writer is in the queue
  wdone,        \* the writer thread has ended
  trail,        \* history: lifecycle frames put on the queue, per request
  acked,        \* history: shutdown_ack put on the queue
  accepted      \* history: the requests ever admitted

readerVars == <<rpc, rout, rnext>>
engineVars == <<epc, eslot, eout, enext, chunks>>
tableVars  == <<pending, active, physical, admitted, highWater, cancelled, notified>>
flagVars   == <<ready, shutdown, ackNeeded, enqueued, fatal>>
writerVars == <<backlog, sentinel, wdone>>
histVars   == <<trail, acked, accepted>>
vars == <<readerVars, engineVars, tableVars, flagVars, writerVars, histVars>>

-----------------------------------------------------------------------------
\* What eout holds while the engine thread is not sending.
NoFrame == Frame("pong", 0)

Init ==
  /\ rpc = "startup" /\ rout = <<>> /\ rnext = "parse"
  /\ epc = "startup" /\ eslot = 0 /\ eout = NoFrame /\ enext = "take" /\ chunks = 0
  /\ pending = <<>> /\ active = {} /\ physical = {} /\ admitted = 0 /\ highWater = 0
  /\ cancelled = {} /\ notified = {}
  /\ ready = FALSE /\ shutdown = FALSE /\ ackNeeded = FALSE
  /\ enqueued = FALSE /\ fatal = FALSE
  /\ backlog = 0 /\ sentinel = FALSE /\ wdone = FALSE
  /\ trail = [r \in Ids |-> <<>>] /\ acked = FALSE /\ accepted = {}

-----------------------------------------------------------------------------
(* The output writer                                                       *)

\* _OutputWriter.send: queue.put blocks until there is room, also when the writer thread
\* has died.
Put(f) ==
  /\ backlog < Capacity
  /\ backlog' = backlog + 1
  /\ trail' = Record(trail, f)
  /\ acked' = (acked \/ f.kind = "shutdown_ack")
  /\ UNCHANGED <<sentinel, wdone, accepted>>

WriterWrite ==
  /\ ~wdone /\ backlog > 0
  /\ backlog' = backlog - 1
  /\ UNCHANGED <<sentinel, wdone>>
  /\ UNCHANGED <<readerVars, engineVars, tableVars, flagVars, histVars>>

\* write or flush raises: the thread ends, the queue stays.
WriterDies ==
  /\ "stdout" \in Faults
  /\ ~wdone /\ backlog > 0
  /\ backlog' = backlog - 1 /\ wdone' = TRUE
  /\ UNCHANGED sentinel
  /\ UNCHANGED <<readerVars, engineVars, tableVars, flagVars, histVars>>

WriterExit ==
  /\ ~wdone /\ backlog = 0 /\ sentinel
  /\ wdone' = TRUE
  /\ UNCHANGED <<backlog, sentinel>>
  /\ UNCHANGED <<readerVars, engineVars, tableVars, flagVars, histVars>>

-----------------------------------------------------------------------------
(* The main thread                                                         *)

\* The main thread leaves a handler: it still has fs to send, then it is at next.
Reply(fs, next) ==
  /\ rpc' = IF fs = <<>> THEN next ELSE "send"
  /\ rout' = fs
  /\ rnext' = IF fs = <<>> THEN "parse" ELSE next
  /\ UNCHANGED <<engineVars, writerVars, trail, acked>>

Goto(pc) == rpc' = pc /\ UNCHANGED <<rout, rnext>>

\* run: load and warm up the engine, in whichever thread the startup mode names; the
\* main thread waits for the result.
StartupSucceeds ==
  /\ rpc = "startup"
  /\ Goto("check")
  /\ epc' = "take" /\ UNCHANGED <<eslot, eout, enext, chunks>>
  /\ UNCHANGED <<tableVars, flagVars, writerVars, histVars>>

StartupFails ==
  /\ "startup" \in Faults
  /\ rpc = "startup"
  /\ Goto("close")
  /\ epc' = "done" /\ UNCHANGED <<eslot, eout, enext, chunks>>
  /\ fatal' = TRUE
  /\ UNCHANGED <<ready, shutdown, ackNeeded, enqueued>>
  /\ UNCHANGED <<tableVars, writerVars, histVars>>

ReaderCheck ==
  /\ rpc = "check"
  /\ Goto(IF shutdown \/ fatal THEN "close" ELSE "read")
  /\ UNCHANGED <<engineVars, tableVars, flagVars, writerVars, histVars>>

\* read1 returns: bytes, or end of file.
ReaderRead ==
  /\ rpc = "read"
  /\ Goto("parse") \/ Goto("close")
  /\ UNCHANGED <<engineVars, tableVars, flagVars, writerVars, histVars>>

ReaderNeedMoreData ==
  /\ rpc = "parse"
  /\ Goto("check")
  /\ UNCHANGED <<engineVars, tableVars, flagVars, writerVars, histVars>>

\* Fatal framing error.
ReaderFramingError ==
  /\ rpc = "parse"
  /\ fatal' = TRUE
  /\ Goto("close")
  /\ UNCHANGED <<ready, shutdown, ackNeeded, enqueued>>
  /\ UNCHANGED <<engineVars, tableVars, writerVars, histVars>>

Parsed(f) == rpc = "parse" /\ f \in Inputs

NotReady(f) == ~ready /\ f.type \notin {"hello", "ping", "shutdown"}

\* Every frame answered by an error and otherwise ignored, but for synthesize and cancel.
\* A payload that does not decode is answered with request id 0.
HandleInvalid(f) ==
  /\ Parsed(f)
  /\ \/ f.type = "malformed"
     \/ NotReady(f)
     \/ f.type = "hello" /\ (f.id # 0 \/ ready \/ shutdown)
     \/ f.type = "ping" /\ f.id # 0
     \/ f.type = "shutdown" /\ (f.id # 0 \/ ~f.valid)
  /\ \E r \in IF f.type = "malformed" THEN {0, f.id} ELSE {f.id} :
       Reply(<<Frame("reject", r)>>, "parse")
  /\ UNCHANGED <<tableVars, flagVars, accepted>>

HandleHello(f) ==
  /\ Parsed(f) /\ f.type = "hello"
  /\ f.id = 0 /\ ~ready /\ ~shutdown
  /\ ready' = TRUE
  /\ Reply(<<Frame("ready", 0)>>, "parse")
  /\ UNCHANGED <<tableVars, shutdown, ackNeeded, enqueued, fatal, accepted>>

HandlePing(f) ==
  /\ Parsed(f) /\ f.type = "ping" /\ f.id = 0
  /\ Reply(<<Frame("pong", 0)>>, "parse")
  /\ UNCHANGED <<tableVars, flagVars, accepted>>

Duplicate(r) == r \in active \/ r <= highWater

RejectSynthesize(f) ==
  /\ Parsed(f) /\ f.type = "synthesize" /\ ready
  /\ \/ f.id = 0
     \/ ~f.valid
     \/ shutdown
     \/ Duplicate(f.id)
     \/ admitted >= MaxAdmitted
  /\ Reply(<<Frame("reject", f.id)>>, "parse")
  /\ UNCHANGED <<tableVars, flagVars, accepted>>

AdmitSynthesize(f) ==
  /\ Parsed(f) /\ f.type = "synthesize" /\ ready
  /\ f.id # 0 /\ f.valid
  /\ ~shutdown /\ ~Duplicate(f.id) /\ admitted < MaxAdmitted
  /\ highWater' = f.id
  /\ admitted' = admitted + 1
  /\ active' = active \cup {f.id}
  /\ physical' = physical \cup {f.id}
  /\ pending' = Append(pending, f.id)
  /\ accepted' = accepted \cup {f.id}
  /\ Reply(<<Frame("queued", f.id)>>, "parse")
  /\ UNCHANGED <<cancelled, notified, flagVars>>

\* _terminalize_locked for the requests rs; a request without a slot releases none.
Terminalize(rs) ==
  /\ active' = active \ rs
  /\ physical' = physical \ rs
  /\ admitted' = admitted - Cardinality(physical \cap rs)

\* A slot whose state is "queued" is exactly one that waits in _pending.
Queued(r) == \E i \in DOMAIN pending : pending[i] = r

\* Mutant of CancelQueued: the request is dropped without an answer.
CancelQueuedSilently(f) ==
  /\ Parsed(f) /\ f.type = "cancel" /\ ready
  /\ f.id \in active /\ Queued(f.id)
  /\ \E i \in DOMAIN pending : pending[i] = f.id /\ pending' = RemoveAt(pending, i)
  /\ Terminalize({f.id})
  /\ Reply(<<>>, "parse")
  /\ UNCHANGED <<highWater, cancelled, notified, flagVars, accepted>>

\* Mutant of CancelQueued: the entry of the ended request stays in _pending.
CancelQueuedKeepsEntry(f) ==
  /\ Parsed(f) /\ f.type = "cancel" /\ ready
  /\ f.id \in active /\ Queued(f.id)
  /\ Terminalize({f.id})
  /\ Reply(<<Frame("cancelled", f.id)>>, "parse")
  /\ UNCHANGED <<pending, highWater, cancelled, notified, flagVars, accepted>>

\* cancel of a waiting request: its one entry leaves the queue and its slot is released.
CancelQueued(f) ==
  /\ Parsed(f) /\ f.type = "cancel" /\ ready
  /\ f.id \in active /\ Queued(f.id)
  /\ \E i \in DOMAIN pending : pending[i] = f.id /\ pending' = RemoveAt(pending, i)
  /\ Terminalize({f.id})
  /\ Reply(<<Frame("cancelled", f.id)>>, "parse")
  /\ UNCHANGED <<highWater, cancelled, notified, flagVars, accepted>>

\* Mutant of CancelRunning: the slot is released while the engine still runs.
CancelRunningReleases(f) ==
  /\ Parsed(f) /\ f.type = "cancel" /\ ready
  /\ f.id \in active /\ ~Queued(f.id)
  /\ cancelled' = cancelled \cup {f.id}
  /\ Terminalize({f.id})
  /\ notified' = notified \cup {f.id}
  /\ Reply(IF f.id \in notified THEN <<>> ELSE <<Frame("cancelled", f.id)>>, "parse")
  /\ UNCHANGED <<pending, highWater, flagVars, accepted>>

\* cancel of the running request: it is answered at once, the engine keeps its slot.
CancelRunning(f) ==
  /\ Parsed(f) /\ f.type = "cancel" /\ ready
  /\ f.id \in active /\ ~Queued(f.id)
  /\ cancelled' = cancelled \cup {f.id}
  /\ active' = active \ {f.id}
  /\ notified' = notified \cup {f.id}
  /\ Reply(IF f.id \in notified THEN <<>> ELSE <<Frame("cancelled", f.id)>>, "parse")
  /\ UNCHANGED <<pending, physical, admitted, highWater, flagVars, accepted>>

\* cancel of an id that is not active: an error above the high-water mark, else nothing.
CancelInactive(f) ==
  /\ Parsed(f) /\ f.type = "cancel" /\ ready
  /\ f.id = 0 \/ f.id \notin active
  /\ Reply(IF f.id = 0 \/ f.id > highWater THEN <<Frame("reject", f.id)>> ELSE <<>>,
           "parse")
  /\ UNCHANGED <<tableVars, flagVars, accepted>>

\* First critical section of _request_shutdown: drain the queue, flag the others.
DrainPending(ack) ==
  /\ shutdown' = TRUE
  /\ ackNeeded' = ack
  /\ LET drained == Keep(pending, active)
     IN  /\ pending' = <<>>
         /\ Terminalize(ToSet(drained))
         /\ cancelled' = cancelled \cup active
         /\ Reply([i \in 1..Len(drained) |-> Frame("cancelled", drained[i])], "enqueued")
  /\ UNCHANGED <<highWater, notified, ready, enqueued, fatal, accepted>>

HandleShutdown(f) ==
  /\ Parsed(f) /\ f.type = "shutdown" /\ f.id = 0 /\ f.valid
  /\ ~shutdown
  /\ DrainPending(TRUE)

\* run: _request_shutdown(send_ack=False) in the finally block.
ReaderClose ==
  /\ rpc = "close"
  /\ IF shutdown
     THEN /\ enqueued' = TRUE
          /\ Reply(<<>>, "join")
          /\ UNCHANGED <<tableVars, ready, shutdown, ackNeeded, fatal, accepted>>
     ELSE DrainPending(FALSE)

\* Mutant of ReaderEnqueued: the loop reads on without a test of the shutdown flag.
ReaderEnqueuedReadsOn ==
  /\ rpc = "enqueued"
  /\ enqueued' = TRUE
  /\ Goto("read")
  /\ UNCHANGED <<engineVars, tableVars, writerVars, histVars>>
  /\ UNCHANGED <<ready, shutdown, ackNeeded, fatal>>

\* Last critical section of _request_shutdown.
ReaderEnqueued ==
  /\ rpc = "enqueued"
  /\ enqueued' = TRUE
  /\ Goto("close")
  /\ UNCHANGED <<engineVars, tableVars, writerVars, histVars>>
  /\ UNCHANGED <<ready, shutdown, ackNeeded, fatal>>

ReaderSend ==
  /\ rpc = "send"
  /\ Put(Head(rout))
  /\ rout' = Tail(rout)
  /\ IF Len(rout) = 1
     THEN rpc' = rnext /\ rnext' = "parse"
     ELSE UNCHANGED <<rpc, rnext>>
  /\ UNCHANGED <<engineVars, tableVars, flagVars>>

\* run: join the engine thread, then stop_when_drained, whose put may block.
ReaderJoin ==
  /\ rpc = "join" /\ epc = "done"
  /\ backlog < Capacity
  /\ sentinel' = TRUE
  /\ Goto("drain")
  /\ UNCHANGED <<backlog, wdone>>
  /\ UNCHANGED <<engineVars, tableVars, flagVars, histVars>>

ReaderExit ==
  /\ rpc = "drain" /\ wdone
  /\ Goto("exited")
  /\ UNCHANGED <<engineVars, tableVars, flagVars, writerVars, histVars>>

Handle(f) ==
  \/ HandleInvalid(f) \/ HandleHello(f) \/ HandlePing(f)
  \/ RejectSynthesize(f) \/ AdmitSynthesize(f)
  \/ CancelQueued(f) \/ CancelRunning(f) \/ CancelInactive(f)
  \/ HandleShutdown(f)

ReaderRun ==
  \/ StartupSucceeds \/ StartupFails
  \/ ReaderCheck \/ ReaderNeedMoreData \/ ReaderSend \/ ReaderClose
  \/ ReaderEnqueued \/ ReaderJoin \/ ReaderExit

ReaderInput == ReaderRead \/ ReaderFramingError \/ \E f \in Inputs : Handle(f)

-----------------------------------------------------------------------------
(* The engine thread                                                       *)

EngineSends(f, next) == epc' = "send" /\ eout' = f /\ enext' = next

EngineGoto(pc) == epc' = pc /\ UNCHANGED <<eout, enext>>

EngineSend ==
  /\ epc = "send"
  /\ Put(eout)
  /\ epc' = enext /\ eout' = NoFrame /\ enext' = "take"
  /\ UNCHANGED <<eslot, chunks, readerVars, tableVars, flagVars>>

\* Mutant of TakeRequest: _shutdown_terminal_events_enqueued is not waited for.
TakeRequestTooSoon ==
  /\ epc = "take"
  /\ IF pending # <<>>
     THEN /\ pending' = Tail(pending)
          /\ IF Head(pending) \in active
             THEN eslot' = Head(pending) /\ EngineGoto("begin")
             ELSE eslot' = 0 /\ EngineGoto("ack")
     ELSE /\ shutdown
          /\ EngineGoto("ack")
          /\ UNCHANGED <<eslot, pending>>
  /\ UNCHANGED <<chunks, active, physical, admitted, highWater, cancelled, notified>>
  /\ UNCHANGED <<readerVars, flagVars, writerVars, histVars>>

\* _take_next_request: the oldest waiting request, or None once there is no more to come
\* (or when the request is unknown, which would end the engine thread).
TakeRequest ==
  /\ epc = "take"
  /\ IF pending # <<>>
     THEN /\ pending' = Tail(pending)
          /\ IF Head(pending) \in active
             THEN eslot' = Head(pending) /\ EngineGoto("begin")
             ELSE eslot' = 0 /\ EngineGoto("ack")
     ELSE /\ shutdown /\ enqueued
          /\ EngineGoto("ack")
          /\ UNCHANGED <<eslot, pending>>
  /\ UNCHANGED <<chunks, active, physical, admitted, highWater, cancelled, notified>>
  /\ UNCHANGED <<readerVars, flagVars, writerVars, histVars>>

\* Mutant of BeginRequest: synthesis begins without `started`.
BeginUnannounced ==
  /\ epc = "begin"
  /\ IF eslot \in cancelled
     THEN EngineGoto("finish_cancelled")
     ELSE EngineGoto("fail") \/ EngineGoto("synthesize")
  /\ UNCHANGED <<eslot, chunks>>
  /\ UNCHANGED <<readerVars, tableVars, flagVars, writerVars, histVars>>

\* _run_one_request up to `started`: a request cancelled while it waited never starts;
\* describe_request may refuse it.
BeginRequest ==
  /\ epc = "begin"
  /\ IF eslot \in cancelled
     THEN EngineGoto("finish_cancelled")
     ELSE \/ EngineGoto("fail")
          \/ EngineSends(Frame("started", eslot), "synthesize")
  /\ UNCHANGED <<eslot, chunks>>
  /\ UNCHANGED <<readerVars, tableVars, flagVars, writerVars, histVars>>

\* The generator yields a non-empty chunk: the loop tests cancel_event, then sends.
EngineChunk ==
  /\ epc = "synthesize" /\ chunks < MaxChunks
  /\ IF eslot \in cancelled
     THEN EngineGoto("finish") /\ UNCHANGED chunks
     ELSE EngineSends(Frame("audio", eslot), "synthesize") /\ chunks' = chunks + 1
  /\ UNCHANGED <<eslot, readerVars, tableVars, flagVars, writerVars, histVars>>

\* The generator ends; the next step tests cancel_event once more.
StreamEnds ==
  /\ epc = "synthesize"
  /\ EngineGoto("finish")
  /\ UNCHANGED <<eslot, chunks>>
  /\ UNCHANGED <<readerVars, tableVars, flagVars, writerVars, histVars>>

\* The generator raises: one of the three typed errors fails the request; for any other
\* exception a set cancel_event turns the failure into a cancellation.
StreamRaises ==
  /\ epc = "synthesize"
  /\ \/ EngineGoto("fail")
     \/ eslot \in cancelled /\ EngineGoto("finish_cancelled")
  /\ UNCHANGED <<eslot, chunks>>
  /\ UNCHANGED <<readerVars, tableVars, flagVars, writerVars, histVars>>

FinishRequest ==
  /\ epc = "finish"
  /\ EngineGoto(IF eslot \in cancelled THEN "finish_cancelled" ELSE "complete")
  /\ UNCHANGED <<eslot, chunks>>
  /\ UNCHANGED <<readerVars, tableVars, flagVars, writerVars, histVars>>

\* Completion and failure: release the slot, then send the terminal frame.
EndRequest(kind) ==
  /\ epc = IF kind = "completed" THEN "complete" ELSE "fail"
  /\ Terminalize({eslot})
  /\ EngineSends(Frame(kind, eslot), "take")
  /\ eslot' = 0 /\ chunks' = 0
  /\ UNCHANGED <<pending, highWater, cancelled, notified>>
  /\ UNCHANGED <<readerVars, flagVars, writerVars, histVars>>

\* Mutant of FinishCancelled: it takes for granted that the main thread answered.
FinishCancelledSilently ==
  /\ epc = "finish_cancelled"
  /\ Terminalize({eslot})
  /\ notified' = notified \cup {eslot}
  /\ EngineGoto("take")
  /\ eslot' = 0 /\ chunks' = 0
  /\ UNCHANGED <<pending, highWater, cancelled>>
  /\ UNCHANGED <<readerVars, flagVars, writerVars, histVars>>

\* _finish_cancelled: release the slot; answer unless the main thread already did.
FinishCancelled ==
  /\ epc = "finish_cancelled"
  /\ Terminalize({eslot})
  /\ notified' = notified \cup {eslot}
  /\ IF eslot \in notified
     THEN EngineGoto("take")
     ELSE EngineSends(Frame("cancelled", eslot), "take")
  /\ eslot' = 0 /\ chunks' = 0
  /\ UNCHANGED <<pending, highWater, cancelled>>
  /\ UNCHANGED <<readerVars, flagVars, writerVars, histVars>>

\* _run_engine_loop after its last request.
EngineAck ==
  /\ epc = "ack"
  /\ IF ackNeeded
     THEN EngineSends(Frame("shutdown_ack", 0), "done")
     ELSE EngineGoto("done")
  /\ UNCHANGED <<eslot, chunks, readerVars, tableVars, flagVars, writerVars, histVars>>

Engine ==
  \/ TakeRequest \/ BeginRequest \/ EngineSend
  \/ EngineChunk \/ StreamEnds \/ StreamRaises
  \/ FinishRequest \/ FinishCancelled
  \/ \E kind \in {"completed", "failed"} : EndRequest(kind)
  \/ EngineAck

Writer == WriterWrite \/ WriterDies \/ WriterExit

\* The process has ended.
Exited == rpc = "exited" /\ UNCHANGED vars

Next == ReaderRun \/ ReaderInput \/ Engine \/ Writer \/ Exited

Spec == Init /\ [][Next]_vars

(***************************************************************************)
(* Each thread keeps running; the engine returns from every call; the      *)
(* client drains stdout.  queue.Queue wakes a blocked producer whenever    *)
(* room appears, so the engine thread gets its turn even against a client  *)
(* that keeps the main thread answering.  One read1 returns a bounded      *)
(* chunk, whose frames run out.                                            *)
(***************************************************************************)
Fairness ==
  /\ WF_vars(ReaderRun) /\ SF_vars(ReaderNeedMoreData)
  /\ WF_vars(Engine) /\ SF_vars(EngineSend)
  /\ WF_vars(WriterWrite \/ WriterExit)

FairSpec == Spec /\ Fairness
-----------------------------------------------------------------------------
(* Properties                                                              *)

ReaderPcs == {"startup", "check", "read", "parse", "send", "enqueued", "close", "join",
              "drain", "exited"}
EnginePcs == {"startup", "take", "begin", "send", "synthesize", "finish",
              "finish_cancelled", "complete", "fail", "ack", "done"}

\* Every variable has its type; the output queue never exceeds its maxsize.
TypeOK ==
  /\ rpc \in ReaderPcs /\ rout \in Seq(OutFrame) /\ rnext \in ReaderPcs
  /\ epc \in EnginePcs /\ eslot \in 0..MaxId /\ eout \in OutFrame
  /\ enext \in EnginePcs /\ chunks \in 0..MaxChunks
  /\ pending \in Seq(Ids) /\ active \subseteq Ids /\ physical \subseteq Ids
  /\ admitted \in Nat /\ highWater \in 0..MaxId
  /\ cancelled \subseteq Ids /\ notified \subseteq Ids
  /\ ready \in BOOLEAN /\ shutdown \in BOOLEAN /\ ackNeeded \in BOOLEAN
  /\ enqueued \in BOOLEAN /\ fatal \in BOOLEAN
  /\ backlog \in 0..Capacity /\ sentinel \in BOOLEAN /\ wdone \in BOOLEAN
  /\ trail \in [Ids -> Seq(LifecycleKinds)] /\ acked \in BOOLEAN
  /\ accepted \subseteq Ids

\* The engine thread is between _take_next_request and the release of the slot.
EngineBusy ==
  \/ epc \in {"begin", "synthesize", "finish", "finish_cancelled", "complete", "fail"}
  \/ epc = "send" /\ enext = "synthesize"

Running == IF EngineBusy THEN {eslot} ELSE {}

\* _admitted_requests counts exactly the requests in _physical: the waiting ones and the
\* one the engine runs, a cancelled one included until its engine call returned, never
\* more than the admission limit.  Every slot is released once.  A waiting request is always
\* known, so the engine loop never stops on an unknown id; only a cancelled running request
\* is answered before it has released its slot.
SlotAccounting ==
  /\ admitted = Cardinality(physical) /\ admitted <= MaxAdmitted
  /\ physical = ToSet(pending) \cup Running
  /\ Running \cap ToSet(pending) = {} /\ IsInjective(pending)
  /\ ToSet(pending) \subseteq active /\ active \subseteq physical
  /\ physical \ active \subseteq notified \cap cancelled

\* A worker that leaves run() owes no answer and holds no slot.
ExitOwesNothing ==
  rpc = "exited" => physical = {} /\ \A r \in accepted : Ended(trail, r)

\* The writer thread ended on an exception, before the sentinel told it to.
WriterDied == wdone /\ ~sentinel

\* Every accepted request is answered, unless the writer thread died.
RequestEnds == \A r \in Ids : r \in accepted ~> (Ended(trail, r) \/ WriterDied)

\* Once shutdown was requested the process ends, whatever the engine was doing, unless the
\* writer thread died.
ShutdownExits == shutdown ~> (rpc = "exited" \/ WriterDied)

\* stdio_server.py, run(): "Run the server until shutdown, EOF, or a fatal framing error."
\* Also with a broken stdout the process ends once shutdown was requested.
RunReturns == shutdown ~> rpc = "exited"

\* Seen by a client that discards what follows the first terminal frame of a request, the
\* worker implements the request lifecycle of the protocol.
Lifecycle == INSTANCE RequestLifecycle
  WITH Requests <- Ids,
       phase <- [r \in Ids |-> WirePhase(trail, accepted, r)]

ImplementsLifecycle == Lifecycle!Spec

\* protocol-v1.md, "Request Lifecycle": each request that reaches queued or running must
\* produce exactly one terminal event.
OneTerminal ==
  \A r \in Ids : \A i, j \in DOMAIN trail[r] :
    trail[r][i] \in Terminals /\ trail[r][j] \in Terminals => i = j
=============================================================================
