--------------------------- MODULE StdIoTransport ---------------------------
(***************************************************************************)
(* transport/stdio/std_io_transport.cpp: the object that owns the worker   *)
(* process.  Threads: the owner (start, stop), the senders (send), the     *)
(* process library's reader of each output stream, the exit watcher and    *)
(* the callback thread, which alone runs the handlers of WorkerSession.    *)
(*                                                                         *)
(* A critical section of state_mutex_ or callback_mutex_ is one step.      *)
(* lifecycle_mutex_ and write_mutex_ are held across steps; state_mutex_   *)
(* is too in one place, where send() reports an error while it holds it.   *)
(* stop() is the same code on the owner and on the callback thread, so its *)
(* actions take the thread as a parameter.                                 *)
(*                                                                         *)
(* Not modelled: validation of the options, start() called from a callback *)
(* (refused), failure to create a thread, empty and null sends.            *)
(***************************************************************************)
EXTENDS Naturals, Sequences, SequencesExt, FiniteSets

CONSTANTS
  Streams,      \* output streams of the worker that have a handler
  Senders,      \* threads that call send()
  MaxEvents,    \* max_callback_queue_events
  MaxReads,     \* bound: chunks the worker writes in one life
  MaxStarts,    \* bound: processes launched
  SerialStops   \* no start() or stop() begins while another one is in progress

ASSUME TransportAssumption ==
  /\ MaxEvents \in Nat \ {0} /\ MaxReads \in Nat /\ MaxStarts \in Nat
  /\ SerialStops \in BOOLEAN
  /\ Streams \cap {"error", "overflow", "exit", "none"} = {} /\ "none" \notin Senders

VARIABLES
  state,        \* state_
  process,      \* process_: the number of the launch, 0 when null
  exited,       \* exited_
  handlers,     \* the three handlers are set
  queue,        \* callback_events_: the kinds of the waiting events
  accepting,    \* callback_accepting_events_
  stopRequested,\* callback_stop_requested_
  overflowed,   \* callback_queue_overflowed_
  lifecycle,    \* holder of lifecycle_mutex_
  writing,      \* holder of write_mutex_
  stateHeld,    \* a sender holds state_mutex_ and waits for it
  pc,           \* positions of the owner and of the callback thread
  event,        \* what the callback thread took from the queue
  wpc,          \* position of the exit watcher
  rpc,          \* positions of the stream readers
  spc,          \* positions of the senders
  sproc,        \* the process a sender copied
  alive,        \* the worker process runs
  stdinOpen,    \* its stdin is open
  reads,        \* chunks it may still write
  launches,     \* processes launched so far
  heard,        \* exit and overflow, once their handler was called, since start()
  watched,      \* start() succeeded: an exit is to be reported
  quiet         \* the owner returned from stop() and has not started since

stateVars == <<state, process, exited, handlers>>
queueVars == <<queue, accepting, stopRequested, overflowed>>
lockVars  == <<lifecycle, writing, stateHeld>>
sendVars  == <<spc, sproc>>
procVars  == <<alive, stdinOpen, reads, launches>>
histVars  == <<heard, watched, quiet>>
vars == <<stateVars, queueVars, lockVars, pc, event, wpc, rpc, sendVars, procVars, histVars>>

None == "none"
Threads == {"owner", "callback"}
Kinds == Streams \cup {"error", "overflow", "exit"}

Init ==
  /\ state = "stopped" /\ process = 0 /\ exited = FALSE /\ handlers = FALSE
  /\ queue = <<>> /\ accepting = FALSE /\ stopRequested = FALSE /\ overflowed = FALSE
  /\ lifecycle = None /\ writing = None /\ stateHeld = FALSE
  /\ pc = [t \in Threads |-> IF t = "owner" THEN "idle" ELSE "ended"]
  /\ event = None
  /\ wpc = None /\ rpc = [s \in Streams |-> "ended"]
  /\ spc = [t \in Senders |-> "idle"] /\ sproc = [t \in Senders |-> 0]
  /\ alive = FALSE /\ stdinOpen = FALSE /\ reads = 0 /\ launches = 0
  /\ heard = {} /\ watched = FALSE /\ quiet = FALSE

Move(t, next) == pc' = [pc EXCEPT ![t] = next]
-----------------------------------------------------------------------------
(* The callback queue                                                      *)

\* would_overflow_regular_callback_queue; big stands for the limit in bytes.
WouldOverflow(big) == Len(queue) >= MaxEvents \/ big

\* This event is the one that makes the queue overflow.
Overflows(e, big) ==
  accepting /\ ~overflowed /\ e # "exit" /\ WouldOverflow(big)

\* Mutant of Enqueue: an overflow refuses the exit event too.
EnqueueNoExemption(e, big) ==
  /\ CASE ~accepting \/ overflowed -> UNCHANGED <<queue, overflowed>>
       [] Overflows(e, big) -> queue' = Append(queue, "overflow") /\ overflowed' = TRUE
       [] OTHER -> queue' = Append(queue, e) /\ UNCHANGED overflowed
  /\ UNCHANGED <<accepting, stopRequested>>

\* Mutant of Enqueue: events after the overflow are queued as long as there is room.
EnqueueAfterOverflow(e, big) ==
  /\ CASE ~accepting -> UNCHANGED <<queue, overflowed>>
       [] Overflows(e, big) -> queue' = Append(queue, "overflow") /\ overflowed' = TRUE
       [] OTHER -> queue' = Append(queue, e) /\ UNCHANGED overflowed
  /\ UNCHANGED <<accepting, stopRequested>>

\* The critical section of enqueue_event.
Enqueue(e, big) ==
  /\ CASE ~accepting \/ (overflowed /\ e # "exit") -> UNCHANGED <<queue, overflowed>>
       [] Overflows(e, big) -> queue' = Append(queue, "overflow") /\ overflowed' = TRUE
       [] OTHER -> queue' = Append(queue, e) /\ UNCHANGED overflowed
  /\ UNCHANGED <<accepting, stopRequested>>

\* request_callback_thread_stop
RequestCallbackStop ==
  accepting' = FALSE /\ stopRequested' = TRUE /\ UNCHANGED <<queue, overflowed>>

\* if (state_ is Running or Starting) state_ = Stopping
BeginStopping ==
  state' = IF state \in {"running", "starting"} THEN "stopping" ELSE state

\* stop_after_callback_queue_overflow, on whichever thread met the limit.
StopAfterOverflow ==
  /\ ~stateHeld
  /\ BeginStopping
  /\ alive' = (alive /\ process = 0)
  /\ UNCHANGED <<process, exited, handlers, stdinOpen, reads, launches>>
-----------------------------------------------------------------------------
(* start()                                                                 *)

\* The owner calls start(); an object that was not stopped is refused.
StartCheck ==
  /\ pc["owner"] = "start" /\ lifecycle = None /\ ~stateHeld
  /\ IF state # "stopped" \/ process # 0
     THEN Move("owner", "idle") /\ UNCHANGED lifecycle
     ELSE Move("owner", "start_join") /\ lifecycle' = "owner"
  /\ UNCHANGED <<writing, stateHeld>>
  /\ UNCHANGED <<stateVars, queueVars, event, wpc, rpc, sendVars, procVars, histVars>>

\* join_exit_thread_if_needed, then request_callback_thread_stop.
StartJoin ==
  /\ pc["owner"] = "start_join" /\ wpc \in {None, "ended"}
  /\ wpc' = None
  /\ RequestCallbackStop
  /\ Move("owner", "start_reset")
  /\ UNCHANGED <<stateVars, lockVars, event, rpc, sendVars, procVars, histVars>>

\* join_callback_thread_if_needed, then the handlers and the state of a new start.
StartReset ==
  /\ pc["owner"] = "start_reset" /\ pc["callback"] = "ended" /\ ~stateHeld
  /\ state' = "starting" /\ handlers' = TRUE /\ exited' = FALSE /\ UNCHANGED process
  /\ heard' = {} /\ watched' = FALSE /\ quiet' = FALSE
  /\ Move("owner", "start_thread")
  /\ UNCHANGED <<queueVars, lockVars, event, wpc, rpc, sendVars, procVars>>

\* start_callback_thread
StartThread ==
  /\ pc["owner"] = "start_thread"
  /\ queue' = <<>> /\ overflowed' = FALSE /\ stopRequested' = FALSE /\ accepting' = TRUE
  /\ pc' = [pc EXCEPT !["owner"] = "start_process", !["callback"] = "wait"]
  /\ UNCHANGED <<stateVars, lockVars, event, wpc, rpc, sendVars, procVars, histVars>>

\* The process is created; its streams are read from here on.
StartProcess ==
  /\ pc["owner"] = "start_process" /\ launches < MaxStarts
  /\ alive' = TRUE /\ stdinOpen' = TRUE /\ reads' = MaxReads /\ launches' = launches + 1
  /\ rpc' = [s \in Streams |-> "read"]
  /\ Move("owner", "start_running")
  /\ UNCHANGED <<stateVars, queueVars, lockVars, event, wpc, sendVars, histVars>>

\* No process id: fail_start, up to the join of the callback thread.
StartProcessFails ==
  /\ pc["owner"] = "start_process"
  /\ RequestCallbackStop
  /\ Move("owner", "fail")
  /\ UNCHANGED <<stateVars, lockVars, event, wpc, rpc, sendVars, procVars, histVars>>

\* process_ is published and the state set to Running, whatever it is.
StartRunning ==
  /\ pc["owner"] = "start_running" /\ ~stateHeld
  /\ process' = launches /\ state' = "running" /\ UNCHANGED <<exited, handlers>>
  /\ Move("owner", "start_watch")
  /\ UNCHANGED <<queueVars, lockVars, event, wpc, rpc, sendVars, procVars, histVars>>

\* The exit watcher is created and start() returns true.
StartWatch ==
  /\ pc["owner"] = "start_watch"
  /\ wpc' = "wait" /\ watched' = TRUE
  /\ lifecycle' = None
  /\ Move("owner", "idle")
  /\ UNCHANGED <<writing, stateHeld, heard, quiet>>
  /\ UNCHANGED <<stateVars, queueVars, event, rpc, sendVars, procVars>>

\* The rest of fail_start; the error handler runs on the owner's thread.
FailStart ==
  /\ pc["owner"] = "fail" /\ pc["callback"] = "ended" /\ ~stateHeld
  /\ process' = 0 /\ state' = "stopped" /\ exited' = FALSE /\ handlers' = FALSE
  /\ lifecycle' = None
  /\ Move("owner", "idle")
  /\ UNCHANGED <<writing, stateHeld>>
  /\ UNCHANGED <<queueVars, event, wpc, rpc, sendVars, procVars, histVars>>
-----------------------------------------------------------------------------
(* stop(), called by the owner or, from a handler, by the callback thread  *)

StopEnter(t) ==
  /\ pc[t] = "stop" /\ lifecycle = None /\ ~stateHeld
  /\ lifecycle' = t
  /\ BeginStopping /\ UNCHANGED <<process, exited, handlers>>
  /\ Move(t, IF process # 0 THEN "stop_close" ELSE "stop_reset")
  /\ UNCHANGED <<writing, stateHeld>>
  /\ UNCHANGED <<queueVars, event, wpc, rpc, sendVars, procVars, histVars>>

\* Mutant of StopCloseStdin: write_mutex_ is not tried.
StopClosesAnyway(t) ==
  /\ pc[t] = "stop_close"
  /\ stdinOpen' = FALSE
  /\ Move(t, "stop_wait")
  /\ UNCHANGED <<alive, reads, launches>>
  /\ UNCHANGED <<stateVars, queueVars, lockVars, event, wpc, rpc, sendVars, histVars>>

\* close_stdin_if_write_is_idle
StopCloseStdin(t) ==
  /\ pc[t] = "stop_close"
  /\ stdinOpen' = (stdinOpen /\ writing # None)
  /\ Move(t, "stop_wait")
  /\ UNCHANGED <<alive, reads, launches>>
  /\ UNCHANGED <<stateVars, queueVars, lockVars, event, wpc, rpc, sendVars, histVars>>

\* wait_for_process_or_kill: the worker ended in time, or is killed.
StopWait(t) ==
  /\ pc[t] = "stop_wait" /\ ~stateHeld
  /\ \/ exited /\ UNCHANGED alive
     \/ ~exited /\ alive' = FALSE
  /\ Move(t, "stop_join")
  /\ UNCHANGED <<stdinOpen, reads, launches>>
  /\ UNCHANGED <<stateVars, queueVars, lockVars, event, wpc, rpc, sendVars, histVars>>

\* Mutant of StopJoin: the exit watcher is left to itself.
StopDetaches(t) ==
  /\ pc[t] = "stop_join"
  /\ Move(t, "stop_reset")
  /\ UNCHANGED <<stateVars, queueVars, lockVars, event, wpc, rpc, sendVars>>
  /\ UNCHANGED <<procVars, histVars>>

\* join_exit_thread_if_needed
StopJoin(t) ==
  /\ pc[t] = "stop_join" /\ wpc \in {None, "ended"}
  /\ wpc' = None
  /\ Move(t, "stop_reset")
  /\ UNCHANGED <<stateVars, queueVars, lockVars, event, rpc, sendVars, procVars, histVars>>

StopReset(t) ==
  /\ pc[t] = "stop_reset" /\ ~stateHeld
  /\ process' = 0 /\ state' = "stopped" /\ UNCHANGED <<exited, handlers>>
  /\ Move(t, "stop_request")
  /\ UNCHANGED <<queueVars, lockVars, event, wpc, rpc, sendVars, procVars, histVars>>

\* Mutant of StopRequest: the callback thread goes on to join itself.
StopRequestJoinsItself(t) ==
  /\ pc[t] = "stop_request"
  /\ RequestCallbackStop
  /\ Move(t, "stop_callback") /\ UNCHANGED lifecycle
  /\ UNCHANGED <<writing, stateHeld>>
  /\ UNCHANGED <<stateVars, event, wpc, rpc, sendVars, procVars, histVars>>

\* request_callback_thread_stop; on the callback thread stop() returns here, and so does
\* the handler.
StopRequest(t) ==
  /\ pc[t] = "stop_request"
  /\ RequestCallbackStop
  /\ IF t = "callback"
     THEN Move(t, "wait") /\ lifecycle' = None
     ELSE Move(t, "stop_callback") /\ UNCHANGED lifecycle
  /\ UNCHANGED <<writing, stateHeld>>
  /\ UNCHANGED <<stateVars, event, wpc, rpc, sendVars, procVars, histVars>>

\* Mutant of StopCallback: the callback thread is not joined.
StopCallbackUnjoined ==
  /\ pc["owner"] = "stop_callback" /\ ~stateHeld
  /\ handlers' = FALSE /\ UNCHANGED <<state, process, exited>>
  /\ lifecycle' = None /\ quiet' = TRUE
  /\ Move("owner", "idle")
  /\ UNCHANGED <<writing, stateHeld, heard, watched>>
  /\ UNCHANGED <<queueVars, event, wpc, rpc, sendVars, procVars>>

\* join_callback_thread_if_needed, clear_handlers_locked, and stop() returns.
StopCallback ==
  /\ pc["owner"] = "stop_callback" /\ pc["callback"] = "ended" /\ ~stateHeld
  /\ handlers' = FALSE /\ UNCHANGED <<state, process, exited>>
  /\ lifecycle' = None /\ quiet' = TRUE
  /\ Move("owner", "idle")
  /\ UNCHANGED <<writing, stateHeld, heard, watched>>
  /\ UNCHANGED <<queueVars, event, wpc, rpc, sendVars, procVars>>

StopRuns(t) ==
  \/ StopEnter(t) \/ StopCloseStdin(t) \/ StopWait(t) \/ StopJoin(t)
  \/ StopReset(t) \/ StopRequest(t)

OwnerRuns ==
  \/ StartCheck \/ StartJoin \/ StartReset \/ StartThread
  \/ StartProcess \/ StartProcessFails \/ StartRunning \/ StartWatch \/ FailStart
  \/ StopRuns("owner") \/ StopCallback

StopPcs == {"stop", "stop_close", "stop_wait", "stop_join", "stop_reset", "stop_request",
            "stop_callback"}

OwnerCalls(call) ==
  /\ pc["owner"] = "idle"
  /\ SerialStops => pc["callback"] \notin StopPcs
  /\ Move("owner", call)
  /\ UNCHANGED <<stateVars, queueVars, lockVars, event, wpc, rpc, sendVars>>
  /\ UNCHANGED <<procVars, histVars>>
-----------------------------------------------------------------------------
(* The callback thread                                                     *)

\* callback_loop: the oldest event, or the end of the loop.
CallbackTake ==
  /\ pc["callback"] = "wait"
  /\ \/ /\ queue # <<>>
        /\ event' = Head(queue) /\ queue' = Tail(queue)
        /\ Move("callback", "dispatch")
     \/ /\ queue = <<>> /\ stopRequested
        /\ Move("callback", "ended")
        /\ UNCHANGED <<event, queue>>
  /\ UNCHANGED <<accepting, stopRequested, overflowed>>
  /\ UNCHANGED <<stateVars, lockVars, wpc, rpc, sendVars, procVars, histVars>>

\* dispatch_event copies the handler and calls it; that of stderr is an option and is
\* always there.
CallbackDispatch ==
  /\ pc["callback"] = "dispatch"
  /\ event = "stderr" \/ ~stateHeld
  /\ Move("callback", IF handlers \/ event = "stderr" THEN "handler" ELSE "wait")
  /\ heard' = IF handlers THEN heard \cup ({event} \cap {"exit", "overflow"}) ELSE heard
  /\ UNCHANGED <<stateVars, queueVars, lockVars, event, wpc, rpc, sendVars, procVars>>
  /\ UNCHANGED <<watched, quiet>>

HandlerReturns ==
  /\ pc["callback"] = "handler"
  /\ Move("callback", "wait") /\ event' = None
  /\ UNCHANGED <<stateVars, queueVars, lockVars, wpc, rpc, sendVars, procVars, histVars>>

\* handle_bytes ends with transport_->stop() after a fatal error.
HandlerStops ==
  /\ pc["callback"] = "handler" /\ event \in Streams
  /\ SerialStops => pc["owner"] = "idle"
  /\ Move("callback", "stop") /\ event' = None
  /\ UNCHANGED <<stateVars, queueVars, lockVars, wpc, rpc, sendVars, procVars, histVars>>

CallbackRuns == CallbackTake \/ CallbackDispatch \/ HandlerReturns \/ StopRuns("callback")
-----------------------------------------------------------------------------
(* send()                                                                  *)

SendTo(t, next) == spc' = [spc EXCEPT ![t] = next]

\* The first look at the state.
SendCall(t) ==
  /\ spc[t] = "idle" /\ ~stateHeld
  /\ IF state = "running" /\ ~exited
     THEN SendTo(t, "lock") /\ sproc' = [sproc EXCEPT ![t] = process]
     ELSE SendTo(t, "report") /\ UNCHANGED sproc
  /\ UNCHANGED <<stateVars, queueVars, lockVars, pc, event, wpc, rpc, procVars, histVars>>

SendLock(t) ==
  /\ spc[t] = "lock" /\ writing = None
  /\ writing' = t
  /\ SendTo(t, "check")
  /\ UNCHANGED <<lifecycle, stateHeld, sproc>>
  /\ UNCHANGED <<stateVars, queueVars, pc, event, wpc, rpc, procVars, histVars>>

\* The second look, under write_mutex_.  The error of a transport that stopped in between
\* is reported under state_mutex_; if it overflows the queue, the report goes on to
\* stop_after_callback_queue_overflow, which locks state_mutex_ again: the sender waits
\* for itself.
SendCheck(t) ==
  /\ spc[t] = "check" /\ ~stateHeld
  /\ \/ /\ state = "running" /\ process = sproc[t] /\ ~exited
        /\ SendTo(t, "write")
        /\ UNCHANGED <<queueVars, writing, stateHeld>>
     \/ /\ ~(state = "running" /\ process = sproc[t] /\ ~exited)
        /\ Enqueue("error", FALSE)
        /\ IF Overflows("error", FALSE)
           THEN SendTo(t, "stuck") /\ stateHeld' = TRUE /\ UNCHANGED writing
           ELSE SendTo(t, "idle") /\ writing' = None /\ UNCHANGED stateHeld
  /\ UNCHANGED <<lifecycle, sproc>>
  /\ UNCHANGED <<stateVars, pc, event, wpc, rpc, procVars, histVars>>

\* process->write returns; it blocks as long as a live worker does not read.
SendWritten(t) ==
  /\ spc[t] = "write"
  /\ SendTo(t, "idle") /\ writing' = None
  /\ UNCHANGED <<lifecycle, stateHeld, sproc>>
  /\ UNCHANGED <<stateVars, queueVars, pc, event, wpc, rpc, procVars, histVars>>

SendWriteFails(t) ==
  /\ spc[t] = "write"
  /\ SendTo(t, "report") /\ writing' = None
  /\ UNCHANGED <<lifecycle, stateHeld, sproc>>
  /\ UNCHANGED <<stateVars, queueVars, pc, event, wpc, rpc, procVars, histVars>>

\* report_error without a lock.
SendReport(t) ==
  /\ spc[t] = "report"
  /\ Enqueue("error", FALSE)
  /\ SendTo(t, IF Overflows("error", FALSE) THEN "overflow" ELSE "idle")
  /\ UNCHANGED <<stateVars, lockVars, pc, event, wpc, rpc, sproc, procVars, histVars>>

SendOverflow(t) ==
  /\ spc[t] = "overflow"
  /\ StopAfterOverflow
  /\ SendTo(t, "idle")
  /\ UNCHANGED <<queueVars, lockVars, pc, event, wpc, rpc, sproc, histVars>>

SendRuns(t) ==
  SendLock(t) \/ SendCheck(t) \/ SendReport(t) \/ SendOverflow(t)
-----------------------------------------------------------------------------
(* The worker process, its stream readers and the exit watcher             *)

\* External: the worker ends, by itself or because its stdin was closed.
ProcessEnds ==
  /\ alive /\ alive' = FALSE
  /\ UNCHANGED <<stdinOpen, reads, launches>>
  /\ UNCHANGED <<stateVars, queueVars, lockVars, pc, event, wpc, rpc, sendVars, histVars>>

\* handle_stdout, handle_stderr; what the worker wrote before it ended is still read.
ReaderReads(s) ==
  /\ rpc[s] = "read" /\ reads > 0
  /\ \E big \in BOOLEAN :
        /\ Enqueue(s, big)
        /\ rpc' = [rpc EXCEPT ![s] = IF Overflows(s, big) THEN "overflow" ELSE "read"]
  /\ reads' = reads - 1
  /\ UNCHANGED <<alive, stdinOpen, launches>>
  /\ UNCHANGED <<stateVars, lockVars, pc, event, wpc, sendVars, histVars>>

ReaderOverflow(s) ==
  /\ rpc[s] = "overflow"
  /\ StopAfterOverflow
  /\ rpc' = [rpc EXCEPT ![s] = "read"]
  /\ UNCHANGED <<queueVars, lockVars, pc, event, wpc, sendVars, histVars>>

\* The stream of a process that ended is exhausted.
ReaderEnds(s) ==
  /\ rpc[s] = "read" /\ ~alive
  /\ rpc' = [rpc EXCEPT ![s] = "ended"]
  /\ UNCHANGED <<stateVars, queueVars, lockVars, pc, event, wpc, sendVars, procVars, histVars>>

ReaderRuns(s) == ReaderOverflow(s) \/ ReaderEnds(s)

\* Mutant of WatcherExit: the readers are not joined first.
WatcherExitEarly ==
  /\ wpc = "wait" /\ ~alive /\ ~stateHeld
  /\ exited' = TRUE
  /\ state' = IF process = launches THEN "stopped" ELSE state
  /\ wpc' = "report"
  /\ UNCHANGED <<process, handlers>>
  /\ UNCHANGED <<queueVars, lockVars, pc, event, rpc, sendVars, procVars, histVars>>

\* watch_process_exit: get_exit_status returns after the readers were joined.
WatcherExit ==
  /\ wpc = "wait" /\ ~alive /\ \A s \in Streams : rpc[s] = "ended"
  /\ ~stateHeld
  /\ exited' = TRUE
  /\ state' = IF process = launches THEN "stopped" ELSE state
  /\ wpc' = "report"
  /\ UNCHANGED <<process, handlers>>
  /\ UNCHANGED <<queueVars, lockVars, pc, event, rpc, sendVars, procVars, histVars>>

WatcherReports ==
  /\ wpc = "report"
  /\ Enqueue("exit", FALSE)
  /\ wpc' = "ended"
  /\ UNCHANGED <<stateVars, lockVars, pc, event, rpc, sendVars, procVars, histVars>>

WatcherRuns == WatcherExit \/ WatcherReports
-----------------------------------------------------------------------------
Next ==
  \/ OwnerRuns \/ OwnerCalls("stop") \/ OwnerCalls("start")
  \/ CallbackRuns \/ HandlerStops
  \/ \E t \in Senders : SendRuns(t) \/ SendCall(t) \/ SendWritten(t) \/ SendWriteFails(t)
  \/ \E s \in Streams : ReaderRuns(s) \/ ReaderReads(s)
  \/ WatcherRuns \/ ProcessEnds

Spec == Init /\ [][Next]_vars

(***************************************************************************)
(* Every thread keeps running and handlers return.  A write returns once   *)
(* the worker is dead.  Nothing is assumed of the worker, of the senders   *)
(* or of when the owner calls.                                             *)
(***************************************************************************)
Fairness ==
  /\ WF_vars(OwnerRuns) /\ WF_vars(CallbackRuns) /\ WF_vars(WatcherRuns)
  /\ \A s \in Streams : WF_vars(ReaderRuns(s))
  /\ \A t \in Senders : WF_vars(SendRuns(t) \/ (~alive /\ SendWriteFails(t)))

FairSpec == Spec /\ Fairness
-----------------------------------------------------------------------------
(* Properties                                                              *)

OwnerPcs == StopPcs \cup
  {"idle", "start", "start_join", "start_reset", "start_thread", "start_process",
   "start_running", "start_watch", "fail"}
CallbackPcs == StopPcs \cup {"ended", "wait", "dispatch", "handler"}

\* Every variable has its type.  The callback queue exceeds its limit only by the overflow
\* diagnostic and the exit event, which are exempt.
TypeOK ==
  /\ state \in {"stopped", "starting", "running", "stopping"}
  /\ process \in 0..MaxStarts /\ exited \in BOOLEAN /\ handlers \in BOOLEAN
  /\ queue \in Seq(Kinds) /\ Len(queue) <= MaxEvents + 2
  /\ accepting \in BOOLEAN /\ stopRequested \in BOOLEAN /\ overflowed \in BOOLEAN
  /\ lifecycle \in Threads \cup {None} /\ writing \in Senders \cup {None}
  /\ stateHeld \in BOOLEAN
  /\ pc \in [Threads -> OwnerPcs \cup CallbackPcs]
  /\ pc["owner"] \in OwnerPcs /\ pc["callback"] \in CallbackPcs
  /\ event \in Kinds \cup {None}
  /\ wpc \in {None, "wait", "report", "ended"}
  /\ rpc \in [Streams -> {"read", "overflow", "ended"}]
  /\ spc \in [Senders -> {"idle", "lock", "check", "write", "report", "overflow", "stuck"}]
  /\ sproc \in [Senders -> 0..MaxStarts]
  /\ alive \in BOOLEAN /\ stdinOpen \in BOOLEAN
  /\ reads \in 0..MaxReads /\ launches \in 0..MaxStarts
  /\ heard \subseteq {"exit", "overflow"} /\ watched \in BOOLEAN /\ quiet \in BOOLEAN

\* watch_process_exit: "Queue Exit only after that, so all Receive/Stderr events produced
\* by those readers are already queued."  No output is delivered after the exit it belongs
\* to, nothing but the exit after the overflow diagnostic, and an owner that returned from
\* stop() has been told of the end of every process it started (std_io_transport.hpp:
\* overflow and exit are exempt from the limits "so failure and termination remain
\* observable").
CallbackOrder ==
  /\ \A i, j \in 1..Len(queue) : i < j =>
        /\ queue[i] = "exit" => queue[j] \notin Streams
        /\ queue[i] = "overflow" => queue[j] = "exit"
  /\ "exit" \in heard => ToSet(queue) \cap Streams = {}
  /\ "overflow" \in heard => ToSet(queue) \subseteq {"exit"}
  /\ quiet /\ watched => "exit" \in heard

\* Once stop() returned to the owner, no handler is running or will be called, and no
\* thread of the transport is left: the session may be destroyed.
QuietAfterStop ==
  quiet /\ pc["owner"] = "idle" =>
    pc["callback"] = "ended" /\ wpc = None /\ \A s \in Streams : rpc[s] = "ended"

\* The stdin of the worker is never closed under a sender that is writing to it.
StdinOpenWhileWriting == \A t \in Senders : spc[t] = "write" => stdinOpen

Stuck == \E t \in Senders : spc[t] = "stuck"

\* std_io_transport.hpp: "stop() is idempotent and may be called from a transport callback".
\* Every call of stop() returns, unless a sender waits for itself.
StopReturns == \A t \in Threads : pc[t] \in StopPcs ~> (pc[t] \notin StopPcs \/ Stuck)

\* The end of a process that was started is reported to the session even if nobody calls
\* stop() and whatever the queue held.
DeathReported == watched /\ ~alive ~> ("exit" \in heard \/ Stuck)

\* i_transport.hpp: "A send attempted after shutdown starts should return quickly with
\* SendResult::Closed".
SendReturns ==
  \A t \in Senders :
    spc[t] # "idle" /\ state \in {"stopping", "stopped"} ~> spc[t] = "idle"
=============================================================================
