------------------------------ MODULE PlayApp ------------------------------
(***************************************************************************)
(* The player program, examples/qwen_tts_play.cpp: the main thread with    *)
(* its prompt or its one-shot request, and the callbacks that the          *)
(* dispatcher thread of each QwenTtsClient runs (--auto-profile keeps two  *)
(* clients), over one WaveOutPlayer, one ActiveRequestState and one chain  *)
(* of audio post-processors per request.                                   *)
(*                                                                         *)
(* The clients are external here and keep the contract QwenTtsClient is    *)
(* checked for: callbacks of a client run one at a time, audio comes in    *)
(* order, every request gets one terminal callback and nothing after it,   *)
(* stop() returns once all that has happened.                              *)
(***************************************************************************)
EXTENDS WaveOutPlayer

CONSTANTS
  Clients,      \* the dispatcher threads, named after their clients
  Modes,        \* subset of {"interactive", "oneshot"}
  MaxRequests,  \* texts the user enters
  MaxLines,     \* lines the user enters before /quit
  MaxChunks,    \* audio chunks of a request, for each mode
  MaxFaults     \* failing driver calls

ASSUME PlayAppAssumption ==
  /\ "main" \notin Clients
  /\ Modes \subseteq {"interactive", "oneshot"}
  /\ {MaxRequests, MaxLines, MaxFaults} \subseteq Nat /\ MaxChunks \in [Modes -> Nat]

Requests == 1..MaxRequests
None == 0

VARIABLES
  opts,     \* ProgramOptions: mode and whether the terminal fade is on
  p,        \* the WaveOutPlayer
  active,   \* active_state.active_request_id
  next,     \* active_state.next_request_id
  chain,    \* the AudioPostProcessorChain of a request: the chunk it holds
            \* back (0 for none) and finished_
  ep,       \* the playback_epoch a request's callbacks captured
  owner,    \* the client a request was submitted to
  req,      \* "new", "live" or "ended": the client's view of a request
  sent,     \* audio callbacks delivered for a request
  shot,     \* OneShotState: "open", "success", "failure"
  pc, loc,  \* per thread
  lines,  \* lines entered at the prompt
  heard     \* one-shot: chunks the device has played, in order

vars == <<opts, p, active, next, chain, ep, owner, req, sent, shot,
          pc, loc, lines, heard>>

Threads == Clients \cup {"main"}

\* r: the request at hand; kind: the callback, or what main does once
\* cancel_active_request returns; out: chunks still to enqueue; drain: the epoch
\* of the reset underway; resumed: the thread sleeps in a loop of the player;
\* keep: the epoch main passes to submit_request.
NoLoc == [r |-> None, kind |-> "none", out |-> <<>>, drain |-> 0,
          resumed |-> FALSE, keep |-> 0]

FreshChain == [held |-> 0, finished |-> FALSE]

Init ==
  /\ opts \in [mode: Modes, fade: BOOLEAN]
  /\ p \in {NewPlayer(s, n, IF s = "WaveOut" THEN MaxFaults ELSE 1) :
              s \in Sinks, n \in Prebuffers}
  /\ active = None /\ next = 1
  /\ chain = [r \in Requests |-> FreshChain]
  /\ ep = [r \in Requests |-> 0]
  /\ owner = [r \in Requests |-> "none"]
  /\ req = [r \in Requests |-> "new"]
  /\ sent = [r \in Requests |-> 0] /\ shot = "open"
  /\ pc = [t \in Threads |-> IF t # "main" THEN "idle"
                             ELSE IF opts.mode = "oneshot" THEN "claim" ELSE "prompt"]
  /\ loc = [t \in Threads |->
              IF t = "main" /\ opts.mode = "oneshot"
              THEN [NoLoc EXCEPT !.kind = "oneshot"] ELSE NoLoc]
  /\ lines = 0 /\ heard = <<>>

\* The thread goes on at label with locals l; at rest it has none.
Resume(t, label, l) ==
  /\ pc' = [pc EXCEPT ![t] = label]
  /\ loc' = [loc EXCEPT ![t] = IF label \in {"idle", "prompt", "gone"}
                               THEN NoLoc ELSE l]

Goto(t, label) == Resume(t, label, loc[t])
Chunk(r, n, e) == [req |-> r, n |-> n, ep |-> e]

\* Everything but the player and the thread that called it.
AppUnchanged ==
  UNCHANGED <<opts, active, next, chain, ep, owner, req, sent, shot,
              lines, heard>>

-----------------------------------------------------------------------------
(* The post-processor chain (audio/post_processor.cpp) with at most the    *)
(* TerminalFadePostProcessor, whose look-ahead is one chunk here.          *)

ProcessOut(c, n) ==
  IF c.finished THEN <<>>
  ELSE IF ~opts.fade THEN <<n>>
  ELSE IF c.held = 0 THEN <<>> ELSE <<c.held>>

ProcessNext(c, n) == IF c.finished \/ ~opts.fade THEN c ELSE [c EXCEPT !.held = n]

FinishOut(c) == IF c.finished \/ c.held = 0 THEN <<>> ELSE <<c.held>>
FinishNext == [held |-> 0, finished |-> TRUE]

-----------------------------------------------------------------------------
(* Calls into the player, shared by all threads.                           *)

\* player.enqueue of the next chunk of loc.out; with none left, the code after
\* the loop; an exception goes to its handler.
EnqueueNext(t, after, handler) ==
  /\ pc[t] = "enqueue"
  /\ IF loc[t].out = <<>> THEN Goto(t, after) /\ UNCHANGED p
     ELSE \E x \in Enqueue(p, Head(loc[t].out), loc[t].resumed) :
            /\ p' = x.p
            /\ Resume(t, IF x.out = "threw" THEN handler ELSE "enqueue",
                      [loc[t] EXCEPT !.resumed = (x.out = "wait"),
                                     !.out = IF x.out \in {"done", "late"}
                                             THEN Tail(@) ELSE @])
  /\ AppUnchanged

\* The place after a reset or interruption with this outcome: its loop, the
\* queueing of the tail, or the handler of an exception.
AfterReset(out, handler) ==
  CASE out = "wait" -> "drain" [] out = "done" -> "enqueue" [] OTHER -> handler

\* A reset or interruption begins with outcome x; a faded tail is queued under
\* the epoch it returns.
BeginReset(t, x, tail, handler) ==
  /\ p' = x.p
  /\ Resume(t, AfterReset(x.out, handler),
            [loc[t] EXCEPT !.drain = x.p.epoch,
                           !.out = IF tail = NoTail THEN <<>>
                                   ELSE <<Chunk(tail, 0, x.p.epoch)>>])

\* A turn of the loop in reset_locked.
Drain(t, handler) ==
  /\ pc[t] = "drain"
  /\ \E x \in ResetResume(p, loc[t].drain) :
       p' = x.p /\ Goto(t, AfterReset(x.out, handler))
  /\ AppUnchanged

-----------------------------------------------------------------------------
(* The callbacks submit_request installs, on the thread of client d.       *)

\* The client delivers an event of one of its requests: audio in order, then
\* one terminal.  A cancelled the worker sends unasked is passed on, so that
\* client->cancel() itself needs no state here.
Deliver(d) ==
  /\ pc[d] = "idle"
  /\ \E r \in Requests, kind \in {"audio", "completed", "cancelled", "error"} :
       /\ req[r] = "live" /\ owner[r] = d
       /\ kind = "audio" => sent[r] < MaxChunks[opts.mode]
       /\ sent' = IF kind = "audio" THEN [sent EXCEPT ![r] = @ + 1] ELSE sent
       /\ req' = IF kind = "audio" THEN req ELSE [req EXCEPT ![r] = "ended"]
       /\ Resume(d, "enter", [NoLoc EXCEPT !.r = r, !.kind = kind])
  /\ UNCHANGED <<opts, p, active, next, chain, ep, owner, shot, lines,
                 heard>>

\* on_audio and on_completed look whether the request is still the active one;
\* a one-shot completion that does not confirm a natural end is a failure.
EnterActive(d) ==
  /\ pc[d] = "enter" /\ loc[d].kind \in {"audio", "completed"}
  /\ \/ active # loc[d].r /\ Goto(d, "idle")
     \/ active = loc[d].r /\ Goto(d, "process")
     \/ /\ active = loc[d].r /\ loc[d].kind = "completed" /\ opts.mode = "oneshot"
        /\ Goto(d, "fail")
  /\ UNCHANGED p /\ AppUnchanged

\* on_cancelled and on_error clear_active_request.
EnterTerminal(d) ==
  /\ pc[d] = "enter" /\ loc[d].kind \in {"cancelled", "error"}
  /\ Goto(d, IF active = loc[d].r THEN "chain" ELSE "note")
  /\ active' = IF active = loc[d].r THEN None ELSE active
  /\ UNCHANGED <<opts, p, next, chain, ep, owner, req, sent, shot,
                 lines, heard>>

\* processors->process(chunk) or processors->finish(Completed).
Process(d) ==
  /\ pc[d] = "process"
  /\ LET r == loc[d].r
         audio == loc[d].kind = "audio"
         ns == IF audio THEN ProcessOut(chain[r], sent[r]) ELSE FinishOut(chain[r])
     IN /\ chain' = [chain EXCEPT ![r] = IF audio THEN ProcessNext(@, sent[r])
                                         ELSE FinishNext]
        /\ Resume(d, "enqueue", [loc[d] EXCEPT !.out =
                     [i \in 1..Len(ns) |-> Chunk(r, ns[i], ep[r])]])
  /\ UNCHANGED <<opts, p, active, next, ep, owner, req, sent, shot,
                 lines, heard>>

CallbackEnqueue(d) ==
  LET kind == loc[d].kind
  IN EnqueueNext(d,
       CASE kind = "audio" -> "idle" [] kind = "completed" -> "complete"
         [] OTHER -> "note",
       IF kind \in {"audio", "completed"} THEN "fail" ELSE "note")

\* complete_active_request.
Complete(d) ==
  /\ pc[d] = "complete" /\ Goto(d, "idle")
  /\ IF active = loc[d].r
     THEN active' = None /\ shot' = IF shot = "open" THEN "success" ELSE shot
     ELSE UNCHANGED <<active, shot>>
  /\ UNCHANGED <<opts, p, next, chain, ep, owner, req, sent, lines, heard>>

\* fail_playback_request up to its reset: whoever is not active any more leaves;
\* the other claims the request and cancels it.
Fail(d) ==
  /\ pc[d] = "fail"
  /\ IF active = loc[d].r
     THEN active' = None /\ Resume(d, "reset", [loc[d] EXCEPT !.kind = "failed"])
     ELSE UNCHANGED active /\ Goto(d, "idle")
  /\ UNCHANGED <<opts, p, next, chain, ep, owner, req, sent, shot, lines, heard>>

\* processors->reset() of on_cancelled and on_error.
CallbackChainReset(d) ==
  /\ pc[d] = "chain" /\ Goto(d, "reset")
  /\ chain' = [chain EXCEPT ![loc[d].r] = FreshChain]
  /\ UNCHANGED <<opts, p, active, next, ep, owner, req, sent, shot,
                 lines, heard>>

\* on_cancelled fades what is audible; on_error and a failure reset.
CallbackReset(d) ==
  /\ pc[d] = "reset"
  /\ LET e == ep[loc[d].r]
     IN IF loc[d].kind = "cancelled"
        THEN \E x \in InterruptIfEpoch(p, e, opts.fade) :
               BeginReset(d, x, x.tail, "note")
        ELSE \E x \in ResetIfEpoch(p, e) : BeginReset(d, x, NoTail, "note")
  /\ AppUnchanged

CallbackDrain(d) == Drain(d, "note")

\* The end of on_cancelled, on_error and fail_playback_request.
Note(d) ==
  /\ pc[d] = "note" /\ Goto(d, "idle")
  /\ shot' = IF shot = "open" THEN "failure" ELSE shot
  /\ UNCHANGED <<opts, p, active, next, chain, ep, owner, req, sent,
                 lines, heard>>

CallbackStep(d) ==
  \/ EnterActive(d) \/ EnterTerminal(d) \/ Process(d) \/ CallbackEnqueue(d)
  \/ Complete(d) \/ Fail(d) \/ CallbackChainReset(d) \/ CallbackReset(d)
  \/ CallbackDrain(d) \/ Note(d)

-----------------------------------------------------------------------------
(* The main thread.                                                        *)

\* cancel_active_request is called; kind tells what its caller does then.
CallCancel(kind) ==
  Resume("main", "claim", [loc["main"] EXCEPT !.kind = kind])

\* A line at the prompt: /cancel, a text, /quit or the end of the input.
Prompt ==
  /\ pc["main"] = "prompt"
  /\ \/ lines < MaxLines /\ lines' = lines + 1 /\ CallCancel("prompt")
     \/ lines < MaxLines /\ lines' = lines + 1 /\ next <= MaxRequests
        /\ CallCancel("text")
     \/ UNCHANGED lines /\ CallCancel("quit")
  /\ UNCHANGED <<opts, p, active, next, chain, ep, owner, req, sent, shot,
                 heard>>

\* cancel_active_request takes the active request and cancels it.
Claim ==
  /\ pc["main"] = "claim"
  /\ Resume("main", IF active = None THEN "interrupt" ELSE "chain",
            [loc["main"] EXCEPT !.r = active])
  /\ active' = None
  /\ UNCHANGED <<opts, p, next, chain, ep, owner, req, sent, shot, lines, heard>>

ClaimedChainReset ==
  /\ pc["main"] = "chain"
  /\ Resume("main", "interrupt", [loc["main"] EXCEPT !.r = None])
  /\ chain' = [chain EXCEPT ![loc["main"].r] = FreshChain]
  /\ UNCHANGED <<opts, p, active, next, ep, owner, req, sent, shot,
                 lines, heard>>

InterruptActive ==
  /\ pc["main"] = "interrupt"
  /\ \E x \in Interrupt(p, opts.fade) : BeginReset("main", x, x.tail, "unwind")
  /\ AppUnchanged

MainDrain ==
  Drain("main", IF loc["main"].kind = "closing" THEN "abandon" ELSE "unwind")

MainEnqueue == EnqueueNext("main", "cancelled", "unwind")

\* cancel_active_request has returned loc.drain, which the caller may keep.
Cancelled ==
  /\ pc["main"] = "cancelled"
  /\ LET l == loc["main"]
         kept == [l EXCEPT !.keep = l.drain]
     IN CASE l.kind = "text"               -> Resume("main", "prepare", kept)
          [] l.kind = "oneshot"            -> Resume("main", "submit", kept)
          [] l.kind \in {"quit", "timeout"} -> Goto("main", "stop")
          [] l.kind = "closing"            -> Goto("main", "close")
          [] OTHER                         -> Goto("main", l.kind)
  /\ UNCHANGED p /\ AppUnchanged

\* prepare_request, whose exception goes back to the prompt.  The epoch kept is
\* passed to submit_request, where the argument of value_or runs
\* cancel_active_request once more and its result is not used.
PrepareRequest ==
  /\ pc["main"] = "prepare"
  /\ \/ CallCancel("submit")
     \/ Goto("main", "prompt")
  /\ UNCHANGED p /\ AppUnchanged

\* The request gets its id, its client and the epoch its callbacks capture.
Allocate ==
  /\ pc["main"] = "submit"
  /\ Resume("main", "send", [NoLoc EXCEPT !.r = next])
  /\ active' = next /\ next' = next + 1
  /\ ep' = [ep EXCEPT ![next] = loc["main"].keep]
  /\ \E c \in Clients : owner' = [owner EXCEPT ![next] = c]
  /\ UNCHANGED <<opts, p, chain, req, sent, shot, lines, heard>>

\* synthesize_async; a refusal is an exception nobody in the loop catches.
Send ==
  /\ pc["main"] = "send"
  /\ LET r == loc["main"].r
     IN \/ /\ req' = [req EXCEPT ![r] = "live"] /\ UNCHANGED active
           /\ Resume("main", IF opts.mode = "oneshot" THEN "await" ELSE "prompt", NoLoc)
        \/ /\ active' = IF active = r THEN None ELSE active
           /\ UNCHANGED req /\ Goto("main", "unwind")
  /\ UNCHANGED <<opts, p, next, chain, ep, owner, sent, shot, lines,
                 heard>>

\* wait_for_one_shot: the terminal callback or the timeout.
Await ==
  /\ pc["main"] = "await"
  /\ \/ shot = "success" /\ Resume("main", "flush", [NoLoc EXCEPT !.kind = "success"])
     \/ shot = "failure" /\ Resume("main", "stop", [NoLoc EXCEPT !.kind = "failure"])
     \/ shot = "open" /\ CallCancel("timeout")
  /\ UNCHANGED p /\ AppUnchanged

\* player.wait_until_idle.
AwaitIdle ==
  /\ pc["main"] = "flush"
  /\ \E x \in WaitUntilIdle(p, loc["main"].resumed) :
       /\ p' = x.p
       /\ Resume("main", CASE x.out = "wait" -> "flush" [] x.out = "done" -> "stop"
                           [] OTHER -> "unwind",
                 [loc["main"] EXCEPT !.resumed = (x.out = "wait")])
  /\ AppUnchanged

Quiet == (\A r \in Requests : req[r] # "live") /\ \A d \in Clients : pc[d] = "idle"

\* client.stop() returns once its requests have ended and its thread is joined.
\* An exception that leaves the try block of wmain destroys the player before the
\* client; that is modelled only when no callback is left to run.
Stop ==
  /\ pc["main"] \in {"stop", "unwind"} /\ Quiet
  /\ Resume("main", "destroy", [NoLoc EXCEPT !.kind = "closing"])
  /\ UNCHANGED p /\ AppUnchanged

\* ~WaveOutPlayer: reset(), whose failure is noted, then the device is closed.
Destroy ==
  /\ pc["main"] = "destroy"
  /\ \E x \in ResetBegin(p) : BeginReset("main", x, NoTail, "abandon")
  /\ AppUnchanged

CloseDevice ==
  /\ pc["main"] \in {"close", "abandon"}
  /\ p' \in Close(p, pc["main"] = "close")
  /\ Goto("main", "gone")
  /\ AppUnchanged

MainStep ==
  \/ Claim \/ ClaimedChainReset \/ InterruptActive \/ MainDrain \/ MainEnqueue
  \/ Cancelled \/ PrepareRequest \/ Allocate \/ Send \/ Await \/ AwaitIdle \/ Stop \/ Destroy
  \/ CloseDevice

-----------------------------------------------------------------------------
\* The driver plays a buffer and returns it, or returns it after waveOutReset.
DeviceReturns ==
  /\ CanReturn(p)
  /\ p' = Returned(p)
  /\ heard' = IF opts.mode = "oneshot"
              THEN Append(heard, p.buffers[p.returned + 1].n) ELSE heard
  /\ UNCHANGED <<opts, active, next, chain, ep, owner, req, sent, shot,
                 pc, loc, lines>>

Next ==
  \/ Prompt \/ MainStep \/ DeviceReturns
  \/ \E d \in Clients : Deliver(d) \/ CallbackStep(d)

Spec == Init /\ [][Next]_vars

\* Threads that can run do.  The device need not make progress, and the user
\* need not type.
FairSpec ==
  /\ Spec /\ WF_vars(MainStep)
  /\ \A d \in Clients : WF_vars(Deliver(d)) /\ WF_vars(CallbackStep(d))

-----------------------------------------------------------------------------
\* Storage whose header is prepared is never freed: not when a write and the
\* unprepare that should undo it both fail, not when a reset is overtaken or
\* times out, and not when the player is destroyed ("Deliberately leak the
\* affected storage", abandon_driver_owned_resources_locked).
DriverMemoryAlive == p.driver \subseteq Alive(p)

\* A thread inside the waiting loop of the reset that made the epoch current.
ResetUnderway ==
  \E t \in Threads : pc[t] = "drain" /\ loc[t].drain = p.epoch

\* Audio of an earlier epoch is in the player only while the reset that ended
\* that epoch is still draining the device, or after the driver has failed.
OnlyCurrentAudio ==
  \/ p.unhealthy \/ ResetUnderway
  \/ \A b \in Range(p.buffers) \cup Range(p.pending) : b.ep = p.epoch

\* "<text>: Cancel current generation and speak this text" (print_usage): while a
\* request is the active one, the player accepts the epoch its callbacks captured.
ActiveOwnsPlayer == active # None => ep[active] = p.epoch

\* When a one-shot run is about to exit with success, the device has played every
\* chunk the worker delivered, once and in order, prebuffered ones and the chunk
\* the fade held back included (wait_until_idle after on_completed).
OneShotHeard ==
  pc["main"] = "stop" /\ loc["main"].kind = "success" /\ p.sink # "Disabled"
    => heard = [i \in 1..sent[1] |-> i]

\* /quit, a timeout and the end of a one-shot request end the program even when
\* the device stalls: a callback waiting for room in the player is released by
\* the new epoch, a reset gives up after its deadline.
QuitReturns ==
  pc["main"] # "prompt" /\ loc["main"].kind \in {"quit", "timeout", "success", "failure"}
    ~> pc["main"] \in {"gone", "unwind"}
=============================================================================
