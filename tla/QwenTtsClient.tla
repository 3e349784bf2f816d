--------------------------- MODULE QwenTtsClient ---------------------------
(***************************************************************************)
(* QwenTtsClient over one WorkerSession: application threads submit and    *)
(* cancel, a writer thread sends commands, a dispatcher thread turns       *)
(* session events into user callbacks, the transport's callback thread     *)
(* feeds the session, and an owner thread starts and stops the client.     *)
(* User callbacks run without the client's mutex and may call stop().      *)
(*                                                                         *)
(* Grain: a critical section of the client's or the session's mutex is one *)
(* step, a user callback is one step.  What a thread is in the middle of   *)
(* is its stack of calls.                                                  *)
(***************************************************************************)
EXTENDS Naturals, FiniteSets, Sequences, SequencesExt

CONSTANTS
  MaxId,        \* numeric_limits<RequestId>::max()
  MaxOutbound,  \* max_outbound_commands
  MaxEvents,    \* max_event_queue_events
  MaxExempt,    \* bound: events queued beyond MaxEvents
  MaxStarts,    \* bound: sessions started by the owner
  MaxDepth,     \* bound: nested calls on one thread
  Frames,       \* the frames the worker may send
  SerialStops   \* TRUE: no callback stops the client while the owner starts or stops it

Ids == 1..MaxId

\* "empty" is an audio frame without payload, "partial" one that ends inside a sample,
\* "other" every control frame the client ignores, "garbage" a frame that does not
\* decode and "broken" a byte stream that does not parse.
WorkerFrames ==
  [type: {"started", "completed", "cancelled", "audio", "partial", "empty", "error",
          "other", "garbage", "broken"},
   id: 0..MaxId]

ASSUME ClientAssumption ==
  /\ MaxId \in Nat \ {0} /\ MaxOutbound \in Nat \ {0} /\ MaxEvents \in Nat \ {0}
  /\ MaxExempt \in Nat /\ MaxStarts \in Nat \ {0} /\ MaxDepth \in Nat \ {0}
  /\ Frames \subseteq WorkerFrames
  /\ SerialStops \in BOOLEAN

VARIABLES
  running,      \* running_
  stopping,     \* stopping_
  handled,      \* terminal_failure_handled_
  active,       \* the keys of active_requests_
  told,         \* the active requests whose text_context_delivered is set
  outbound,     \* outbound_queue_
  nextId,       \* next_request_id_, 0 when the ids are exhausted
  sess,         \* which session session_ points to, 0 if none
  starts,       \* sessions started so far
  wpc, wcmd,    \* the writer thread: "none" before it is started and once it is joined
  dpc,          \* the dispatcher thread
  calls,        \* per thread, the calls it is in, innermost first
  sstate,       \* WorkerSession::state_
  events,       \* WorkerSession::events_
  overflowed,   \* WorkerSession::event_queue_overflowed_
  transport,    \* "running"; "closing": the process ends; "exited": handle_exit has run
  accepted,     \* history: requests synthesize_async returned an id for
  ended,        \* history: requests whose terminal callback ran
  repeated,     \* history: a second terminal callback ran for some request
  lastSent      \* history: the last synthesize id handed to the transport

clientVars  == <<running, stopping, handled, active, told, outbound, nextId, sess, starts>>
threadVars  == <<wpc, wcmd, dpc>>
sessionVars == <<sstate, events, overflowed, transport>>
histVars    == <<accepted, ended, repeated, lastSent>>
vars == <<clientVars, threadVars, calls, sessionVars, histVars>>

Threads == {"owner", "dispatcher"}

Command(t, r) == [type |-> t, id |-> r]
NoCommand == Command("none", 0)

Event(t, r) == [type |-> t, id |-> r]
\* Transport, protocol and session errors and the exit event, which the client treats alike.
Local == Event("local", 0)

\* A call in progress: what it is, where it is, the session it points to and the
\* callbacks it still has to make.
Call(kind, pc, s, cbs) == [kind |-> kind, pc |-> pc, sp |-> s, cbs |-> cbs]
Callback(cb, r) == [cb |-> cb, id |-> r]
Ends(rs) == {Callback("end", r) : r \in rs}

Init ==
  /\ running = FALSE /\ stopping = FALSE /\ handled = FALSE
  /\ active = {} /\ told = {} /\ outbound = <<>> /\ nextId = 1 /\ sess = 0 /\ starts = 0
  /\ wpc = "none" /\ wcmd = NoCommand /\ dpc = "none"
  /\ calls = [t \in Threads |-> <<>>]
  /\ sstate = "none" /\ events = <<>> /\ overflowed = FALSE /\ transport = "none"
  /\ accepted = {} /\ ended = {} /\ repeated = FALSE /\ lastSent = 0

-----------------------------------------------------------------------------
(* The calls of a thread                                                   *)

Idle(t) == calls[t] = <<>>
Top(t) == Head(calls[t])
At(t, pc) == ~Idle(t) /\ Top(t).pc = pc

Enter(t, c) == calls' = [calls EXCEPT ![t] = <<c>> \o @]
Step(t, c) == calls' = [calls EXCEPT ![t] = <<c>> \o Tail(@)]
Move(t, pc) == Step(t, [Top(t) EXCEPT !.pc = pc])
Leave(t) == calls' = [calls EXCEPT ![t] = Tail(@)]

InStop(t) == \E i \in DOMAIN calls[t] : calls[t][i].kind = "stop"

-----------------------------------------------------------------------------
(* WorkerSession: the transport's callback thread                          *)

Failed == IF sstate = "ready" THEN "failed" ELSE sstate

\* enqueue_event_locked, exempt from the limits.
EnqueueExempt == events' = Append(events, Local) /\ UNCHANGED overflowed

\* The first event beyond a limit fails the session, which then stops the transport.
Overflow ==
  /\ ~overflowed
  /\ overflowed' = TRUE
  /\ sstate' = Failed
  /\ events' = Append(events, Local)
  /\ transport' = "closing"

\* enqueue_event_locked.  max_event_queue_bytes, which depends on payloads, may be
\* reached by any event.
EnqueueRegular(e) ==
  \/ overflowed /\ transport' = "closing" /\ UNCHANGED <<sstate, events, overflowed>>
  \/ Overflow
  \/ /\ ~overflowed /\ Len(events) < MaxEvents
     /\ events' = Append(events, e)
     /\ UNCHANGED <<sstate, overflowed, transport>>

Allowed(f) ==
  \/ f.type = "error"
  \/ f.type \notin {"garbage", "broken", "other"} /\ sstate = "ready" /\ f.id # 0
  \/ f.type = "other" /\ sstate = "ready"

\* handle_bytes for one frame.
ReceiveFrame(f) ==
  /\ f \in Frames
  /\ sess # 0 /\ transport \in {"running", "closing"}
  /\ Len(events) < MaxEvents + MaxExempt
  /\ IF Allowed(f)
     THEN EnqueueRegular(Event(f.type, f.id))
     ELSE /\ sstate' = Failed
          /\ EnqueueExempt
          /\ transport' = IF f.type = "broken" THEN "closing" ELSE transport
  /\ UNCHANGED <<clientVars, threadVars, calls, histVars>>

\* handle_transport_error.
TransportError ==
  /\ sess # 0 /\ transport \in {"running", "closing"}
  /\ Len(events) < MaxEvents + MaxExempt
  /\ sstate' = Failed
  /\ EnqueueExempt
  /\ UNCHANGED <<transport, clientVars, threadVars, calls, histVars>>

\* The worker process ends by itself.
ProcessEnds ==
  /\ sess # 0 /\ transport = "running"
  /\ transport' = "closing"
  /\ UNCHANGED <<sstate, events, overflowed, clientVars, threadVars, calls, histVars>>

\* handle_exit, the last callback of the transport.
ReceiveExit ==
  /\ sess # 0 /\ transport = "closing"
  /\ transport' = "exited"
  /\ sstate' = "exited"
  /\ EnqueueExempt
  /\ UNCHANGED <<clientVars, threadVars, calls, histVars>>

-----------------------------------------------------------------------------
(* Application threads                                                     *)

CanSubmit == running /\ ~stopping /\ sess # 0

\* Mutant of Allocates: an explicit id is only compared with the active ones.
AllocatesLowerIds(requested, r) ==
  /\ nextId # 0
  /\ r = IF requested = 0 THEN nextId ELSE requested
  /\ r \notin active
  /\ nextId' = IF r = MaxId THEN 0 ELSE r + 1

\* allocate_request_id_locked: ids increase strictly and never wrap.
Allocates(requested, r) ==
  /\ nextId # 0
  /\ r = IF requested = 0 THEN nextId ELSE requested
  /\ r >= nextId /\ r \notin active
  /\ nextId' = IF r = MaxId THEN 0 ELSE r + 1

Synthesize(requested) ==
  \E r \in Ids :
    /\ CanSubmit /\ Allocates(requested, r)
    /\ Len(outbound) < MaxOutbound
    /\ active' = active \cup {r}
    /\ outbound' = Append(outbound, Command("synthesize", r))
    /\ accepted' = accepted \cup {r}
    /\ UNCHANGED <<running, stopping, handled, told, sess, starts>>
    /\ UNCHANGED <<threadVars, calls, sessionVars, ended, repeated, lastSent>>

\* The queue has no room for the command, or for its bytes: the id is lost.
SynthesizeRefused(requested) ==
  \E r \in Ids :
    /\ CanSubmit /\ Allocates(requested, r)
    /\ UNCHANGED <<running, stopping, handled, active, told, outbound, sess, starts>>
    /\ UNCHANGED <<threadVars, calls, sessionVars, histVars>>

Cancel(r) ==
  /\ CanSubmit /\ r \in active /\ Len(outbound) < MaxOutbound
  /\ outbound' = Append(outbound, Command("cancel", r))
  /\ UNCHANGED <<running, stopping, handled, active, told, nextId, sess, starts>>
  /\ UNCHANGED <<threadVars, calls, sessionVars, histVars>>

-----------------------------------------------------------------------------
(* The writer thread                                                       *)

WriterTake ==
  /\ wpc = "wait"
  /\ IF outbound # <<>>
     THEN /\ wcmd' = Head(outbound) /\ outbound' = Tail(outbound)
          /\ wpc' = "send"
     ELSE /\ stopping
          /\ wpc' = "done" /\ UNCHANGED <<wcmd, outbound>>
  /\ UNCHANGED <<running, stopping, handled, active, told, nextId, sess, starts, dpc>>
  /\ UNCHANGED <<calls, sessionVars, histVars>>

\* WorkerSession::send_control: nothing is sent unless the session is ready.
WriterSend ==
  /\ wpc = "send"
  /\ \/ /\ sstate = "ready" /\ transport = "running"
        /\ lastSent' = IF wcmd.type = "synthesize" THEN wcmd.id ELSE lastSent
        /\ UNCHANGED <<sstate, events, overflowed>>
     \/ /\ sstate = "ready"
        /\ sstate' = Failed /\ EnqueueExempt
        /\ UNCHANGED lastSent
     \/ /\ ~(sstate = "ready" /\ transport = "running")
        /\ UNCHANGED <<sstate, events, overflowed, lastSent>>
  /\ wpc' = "wait" /\ wcmd' = NoCommand
  /\ UNCHANGED <<dpc, transport, clientVars, calls, accepted, ended, repeated>>

-----------------------------------------------------------------------------
(* The dispatcher thread                                                   *)

\* What a handler takes out of the table, and the callbacks it then makes.
Takes(rs, cbs) ==
  /\ active' = active \ rs
  /\ told' = (told \ rs) \cup {c.id : c \in {x \in cbs : x.cb = "text"}}
  /\ IF cbs = {} THEN UNCHANGED calls
                 ELSE Enter("dispatcher", Call("event", "tell", 0, cbs))
  /\ UNCHANGED <<running, stopping, handled, outbound>>

TextOnce(r) == IF r \in told THEN {} ELSE {Callback("text", r)}

HandleProgress(e) ==
  /\ e.type \in {"started", "audio", "empty"}
  /\ Takes({}, IF e.id \notin active THEN {}
               ELSE TextOnce(e.id) \cup
                    IF e.type = "audio" THEN {Callback("audio", e.id)} ELSE {})

\* Mutant of HandleTerminal: the request stays in the table.
HandleTerminalKeepsRequest(e) ==
  /\ e.type \in {"completed", "cancelled", "error", "partial"}
  /\ LET rs == IF e.id = 0 THEN active ELSE active \cap {e.id}
     IN  Takes({}, Ends(rs))

\* complete_request, cancel_request_locally, fail_request, fail_all_requests.
HandleTerminal(e) ==
  /\ e.type \in {"completed", "cancelled", "error", "partial"}
  /\ LET rs == IF e.id = 0 THEN active ELSE active \cap {e.id}
     IN  Takes(rs, Ends(rs))

HandleIgnored(e) == e.type = "other" /\ Takes({}, {})

\* Mutant of HandleLocalError: the failure is noted but nobody is told.
HandleLocalErrorNotesOnly(e) ==
  /\ e.type = "local"
  /\ handled' = TRUE /\ running' = FALSE /\ stopping' = TRUE /\ outbound' = <<>>
  /\ UNCHANGED <<active, told, calls>>

\* handle_local_error: the first one brings the client down.
HandleLocalError(e) ==
  /\ e.type = "local"
  /\ IF handled
     THEN UNCHANGED <<running, stopping, handled, outbound, calls>>
     ELSE /\ handled' = TRUE /\ running' = FALSE /\ stopping' = TRUE
          /\ outbound' = <<>>
          /\ Enter("dispatcher", Call("error", "sstop", sess, {}))
  /\ UNCHANGED <<active, told>>

DispatchEvent ==
  /\ dpc = "loop" /\ Idle("dispatcher")
  /\ sess # 0 /\ events # <<>>
  /\ events' = Tail(events)
  /\ LET e == Head(events)
     IN  HandleProgress(e) \/ HandleTerminal(e) \/ HandleIgnored(e) \/ HandleLocalError(e)
  /\ UNCHANGED <<nextId, sess, starts, threadVars, sstate, overflowed, transport, histVars>>

\* wait_for_event timed out, or the session is gone.
DispatchTimeout ==
  /\ dpc = "loop" /\ Idle("dispatcher")
  /\ \/ sess = 0 /\ dpc' = "done"
     \/ sess # 0 /\ events = <<>> /\ dpc' = "check"
  /\ UNCHANGED <<wpc, wcmd, clientVars, calls, sessionVars, histVars>>

\* Mutant of DispatchCheck: the loop does not end when the client stops.
DispatchCheckLoops ==
  /\ dpc = "check"
  /\ dpc' = "loop"
  /\ UNCHANGED <<wpc, wcmd, clientVars, calls, sessionVars, histVars>>

DispatchCheck ==
  /\ dpc = "check"
  /\ dpc' = IF stopping THEN "done" ELSE "loop"
  /\ UNCHANGED <<wpc, wcmd, clientVars, calls, sessionVars, histVars>>

-----------------------------------------------------------------------------
(* User callbacks, stop() and start()                                      *)

\* A callback stops the client: the owner may be doing so as well unless they agreed.
MayStop(t) ==
  /\ Len(calls[t]) < MaxDepth
  /\ SerialStops => t = "owner" \/ Idle("owner")

\* One user callback, which may call stop().
Tell(t) ==
  /\ At(t, "tell")
  /\ \E c \in Top(t).cbs :
       /\ (\E x \in Top(t).cbs : x.cb = "text") => c.cb = "text"
       /\ LET rest == [Top(t) EXCEPT !.cbs = @ \ {c}]
          IN  \/ Step(t, rest)
              \/ /\ MayStop(t)
                 /\ calls' = [calls EXCEPT ![t] =
                      <<Call("stop", "stop", 0, {}), rest>> \o Tail(@)]
       /\ IF c.cb = "end"
          THEN /\ ended' = ended \cup {c.id}
               /\ repeated' = (repeated \/ c.id \in ended)
          ELSE UNCHANGED <<ended, repeated>>
  /\ UNCHANGED <<clientVars, threadVars, sessionVars, accepted, lastSent>>

\* The callbacks are made.
Told(t) ==
  /\ At(t, "tell") /\ Top(t).cbs = {}
  /\ IF Top(t).kind = "stop" THEN Move(t, "finish") ELSE Leave(t)
  /\ UNCHANGED <<clientVars, threadVars, sessionVars, histVars>>

\* stop(), first critical section.
StopBegin(t) ==
  /\ At(t, "stop")
  /\ running' = FALSE /\ stopping' = TRUE /\ outbound' = <<>>
  /\ IF sess = 0 THEN Move(t, "joinw")
                 ELSE Step(t, [Top(t) EXCEPT !.pc = "sstop", !.sp = sess])
  /\ UNCHANGED <<handled, active, told, nextId, sess, starts>>
  /\ UNCHANGED <<threadVars, sessionVars, histVars>>

\* WorkerSession::stop has returned.
AfterSession(t) ==
  Step(t, [Top(t) EXCEPT !.pc = IF Top(t).kind = "stop" THEN "joinw" ELSE "fail",
                         !.sp = 0])

\* WorkerSession::stop: the first caller stops a running transport, later ones return.
SessionStop(t) ==
  /\ At(t, "sstop")
  /\ IF Top(t).sp # sess \/ sstate \in {"stopping", "stopped"}
     THEN AfterSession(t) /\ UNCHANGED sessionVars
     ELSE IF transport = "running"
     THEN /\ sstate' = "stopping" /\ transport' = "closing"
          /\ Move(t, "tstop")
          /\ UNCHANGED <<events, overflowed>>
     ELSE /\ sstate' = IF sstate = "exited" THEN sstate ELSE "stopped"
          /\ AfterSession(t)
          /\ UNCHANGED <<events, overflowed, transport>>
  /\ UNCHANGED <<clientVars, threadVars, histVars>>

\* The transport's stop returns once the process ended and its callbacks ran.
TransportStopped(t) ==
  /\ At(t, "tstop")
  /\ Top(t).sp # sess \/ transport = "exited"
  /\ AfterSession(t)
  /\ UNCHANGED <<clientVars, threadVars, sessionVars, histVars>>

\* join_threads: the writer, then the dispatcher unless it is the caller.
JoinWriter(t) ==
  /\ At(t, "joinw")
  /\ wpc \in {"none", "done"}
  /\ wpc' = "none"
  /\ Move(t, IF t = "dispatcher" THEN "fail" ELSE "joind")
  /\ UNCHANGED <<wcmd, dpc, clientVars, sessionVars, histVars>>

\* Mutant of JoinDispatcher: the dispatcher is detached, not joined.
JoinDispatcherDetaches(t) ==
  /\ At(t, "joind")
  /\ dpc' = "none"
  /\ Move(t, IF Top(t).kind = "start" THEN "reap" ELSE "fail")
  /\ UNCHANGED <<wpc, wcmd, clientVars, sessionVars, histVars>>

\* Mutant of JoinDispatcher: stop() does not fail the remaining requests.
JoinDispatcherForgets(t) ==
  /\ At(t, "joind")
  /\ dpc \in {"none", "done"}
  /\ dpc' = "none"
  /\ Move(t, IF Top(t).kind = "start" THEN "reap" ELSE "finish")
  /\ UNCHANGED <<wpc, wcmd, clientVars, sessionVars, histVars>>

JoinDispatcher(t) ==
  /\ At(t, "joind")
  /\ dpc \in {"none", "done"}
  /\ dpc' = "none"
  /\ Move(t, IF Top(t).kind = "start" THEN "reap" ELSE "fail")
  /\ UNCHANGED <<wpc, wcmd, clientVars, sessionVars, histVars>>

\* fail_all_requests takes every request that is still active.
FailAll(t) ==
  /\ At(t, "fail")
  /\ active' = {} /\ told' = {}
  /\ Step(t, [Top(t) EXCEPT !.pc = "tell", !.cbs = Ends(active)])
  /\ UNCHANGED <<running, stopping, handled, outbound, nextId, sess, starts>>
  /\ UNCHANGED <<threadVars, sessionVars, histVars>>

\* session_.reset().
ResetSession ==
  /\ sess' = 0
  /\ sstate' = "none" /\ events' = <<>> /\ overflowed' = FALSE /\ transport' = "none"
  /\ outbound' = <<>> /\ handled' = FALSE

\* stop(), last critical section.
StopFinish(t) ==
  /\ At(t, "finish")
  /\ IF wpc = "none" /\ (dpc = "none" \/ t = "dispatcher")
     THEN /\ ResetSession
          /\ stopping' = FALSE /\ running' = FALSE
     ELSE UNCHANGED <<sess, sessionVars, outbound, handled, stopping, running>>
  /\ Leave(t)
  /\ UNCHANGED <<active, told, nextId, starts, threadVars, histVars>>

OwnerMay == Idle("owner") /\ (SerialStops => ~InStop("dispatcher"))

OwnerStops ==
  /\ OwnerMay /\ starts > 0
  /\ Enter("owner", Call("stop", "stop", 0, {}))
  /\ UNCHANGED <<clientVars, threadVars, sessionVars, histVars>>

\* start(): join what an earlier session left behind.
OwnerStarts ==
  /\ OwnerMay /\ starts < MaxStarts
  /\ ~running /\ ~stopping
  /\ Enter("owner", Call("start", "joinw", 0, {}))
  /\ UNCHANGED <<clientVars, threadVars, sessionVars, histVars>>

\* reap_finished_threads, its critical section.
Reap ==
  /\ At("owner", "reap")
  /\ IF ~running /\ ~stopping /\ wpc = "none" /\ dpc = "none"
     THEN ResetSession
     ELSE UNCHANGED <<sess, sessionVars, outbound, handled>>
  /\ Move("owner", "install")
  /\ UNCHANGED <<running, stopping, active, told, nextId, starts, threadVars, histVars>>

\* start(): the worker became ready, unless its session failed to start.
StartInstall ==
  /\ At("owner", "install")
  /\ Leave("owner")
  /\ \/ UNCHANGED <<clientVars, threadVars, sessionVars, histVars>>
     \/ /\ ~running /\ ~stopping /\ sess = 0 /\ wpc = "none" /\ dpc = "none"
        /\ starts' = starts + 1 /\ sess' = starts + 1
        /\ sstate' = "ready" /\ events' = <<Event("other", 0)>> /\ overflowed' = FALSE
        /\ transport' = "running"
        /\ active' = {} /\ told' = {} /\ outbound' = <<>> /\ nextId' = 1
        /\ running' = TRUE /\ stopping' = FALSE /\ handled' = FALSE
        /\ wpc' = "wait" /\ dpc' = "loop" /\ UNCHANGED wcmd
        /\ accepted' = {} /\ ended' = {} /\ lastSent' = 0 /\ UNCHANGED repeated

-----------------------------------------------------------------------------
Application ==
  \/ \E requested \in 0..MaxId : Synthesize(requested) \/ SynthesizeRefused(requested)
  \/ \E r \in Ids : Cancel(r)

Session == TransportError \/ ProcessEnds \/ \E f \in Frames : ReceiveFrame(f)

Calling(t) ==
  \/ Tell(t) \/ Told(t)
  \/ StopBegin(t) \/ SessionStop(t) \/ TransportStopped(t)
  \/ JoinWriter(t) \/ JoinDispatcher(t) \/ FailAll(t) \/ StopFinish(t)

Starting == Reap \/ StartInstall
Dispatcher == DispatchEvent \/ DispatchTimeout \/ DispatchCheck
WriterThread == WriterTake \/ WriterSend

Next ==
  \/ Application \/ Session \/ ReceiveExit
  \/ WriterThread \/ Dispatcher
  \/ \E t \in Threads : Calling(t)
  \/ OwnerStarts \/ OwnerStops \/ Starting

Spec == Init /\ [][Next]_vars

(***************************************************************************)
(* The client's threads keep running, user callbacks return, and a worker  *)
(* process that is asked to stop ends (it is killed after                  *)
(* shutdown_timeout) and its exit is reported.                             *)
(***************************************************************************)
Fairness ==
  /\ WF_vars(WriterThread) /\ WF_vars(Dispatcher) /\ WF_vars(ReceiveExit)
  /\ \A t \in Threads : WF_vars(Calling(t))
  /\ WF_vars(Starting)

FairSpec == Spec /\ Fairness
-----------------------------------------------------------------------------
(* Properties                                                              *)

CallOf ==
  [kind: {"event", "error", "stop", "start"},
   pc: {"tell", "stop", "sstop", "tstop", "joinw", "joind", "reap", "install", "fail",
        "finish"},
   sp: 0..MaxStarts,
   cbs: SUBSET [cb: {"text", "audio", "end"}, id: Ids]]

\* Every variable has its type; the outbound queue never exceeds max_outbound_commands.
TypeOK ==
  /\ running \in BOOLEAN /\ stopping \in BOOLEAN /\ handled \in BOOLEAN
  /\ active \subseteq Ids /\ told \subseteq active
  /\ outbound \in Seq([type: {"synthesize", "cancel"}, id: Ids])
  /\ Len(outbound) <= MaxOutbound
  /\ nextId \in 0..MaxId /\ sess \in 0..MaxStarts /\ starts \in 0..MaxStarts
  /\ wpc \in {"none", "wait", "send", "done"}
  /\ wcmd \in [type: {"none", "synthesize", "cancel"}, id: 0..MaxId]
  /\ dpc \in {"none", "loop", "check", "done"}
  /\ \A t \in Threads : \A i \in DOMAIN calls[t] : calls[t][i] \in CallOf
  /\ sstate \in {"none", "ready", "failed", "stopping", "stopped", "exited"}
  /\ \A i \in DOMAIN events :
       events[i] = Local \/ events[i] \in WorkerFrames
  /\ overflowed \in BOOLEAN
  /\ transport \in {"none", "running", "closing", "exited"}
  /\ accepted \subseteq Ids /\ ended \subseteq Ids /\ repeated \in BOOLEAN
  /\ lastSent \in 0..MaxId

\* The requests whose terminal callback some thread is committed to make.
Committed(t) == {r \in Ids : \E i \in DOMAIN calls[t] : Callback("end", r) \in calls[t][i].cbs}

\* Exactly one terminal callback per accepted request: at any time a request is either
\* still active, or one thread is committed to end it, or its callback has run; a worker
\* that answers twice, an error that fails everything, a failing session and stop() from
\* any thread do not lose or repeat one.
OneTerminalCallback ==
  /\ ~repeated
  /\ accepted \ ended = active \cup UNION {Committed(t) : t \in Threads}
  /\ \A t \in Threads : active \cap Committed(t) = {}
  /\ Committed("owner") \cap Committed("dispatcher") = {}

\* Once no session is left and no callback is in progress, every request was answered
\* and nothing waits to be sent.
NothingLeftBehind ==
  sess = 0 => /\ active = {} /\ outbound = <<>>
              /\ (\A t \in Threads : Idle(t)) => accepted \subseteq ended

\* What reaches the transport respects the worker's id policy: synthesize ids increase
\* strictly, also when explicit ids and refused submissions leave gaps, and a cancel never
\* overtakes its synthesize.
WireOrder ==
  wpc = "send" /\ sstate = "ready" /\ transport = "running" =>
    IF wcmd.type = "synthesize" THEN wcmd.id > lastSent ELSE wcmd.id <= lastSent

\* stop() on the owner thread returns only when the dispatcher is gone: no callback runs
\* afterwards.
NoCallbackAfterStop ==
  [][InStop("owner") /\ ~InStop("owner")' =>
       dpc' = "none" /\ Idle("dispatcher")' /\ wpc' = "none"]_vars

\* A session that died or is being stopped does not strand a request: each one that is
\* active then gets its terminal callback.
RequestsSettle ==
  \A r \in Ids :
    (r \in active /\ (stopping \/ sstate \in {"failed", "stopping", "exited"}))
      ~> r \in ended

\* stop() and start() on the owner thread return.
OwnerReturns == ~Idle("owner") ~> Idle("owner")

\* qwen_tts_client.hpp on stop(): "It is safe to call from request callbacks": the session
\* is not destroyed while another thread is inside one of its functions.
SessionOutlivesCalls ==
  \A t \in Threads : \A i \in DOMAIN calls[t] : calls[t][i].sp \in {0, sess}

=============================================================================
