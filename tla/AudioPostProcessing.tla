------------------------ MODULE AudioPostProcessing ------------------------
(***************************************************************************)
(* with_audio_post_processing: the adapter between a request's callbacks   *)
(* and the application's, with an AudioPostProcessorChain of               *)
(* TerminalFadePostProcessors in between.  Callbacks arrive from the       *)
(* client's dispatcher, from a thread inside stop(), and from inside an    *)
(* application callback that calls stop(); the adapter runs one event at a *)
(* time, on the thread that found it idle.                                 *)
(*                                                                         *)
(* Audio is one channel of integer samples, a duration a number of frames. *)
(***************************************************************************)
EXTENDS Integers, Sequences, SequencesExt

CONSTANTS
  Chains,      \* the chains of processor options [fade, silence, cancelled] to try
  Chunks,      \* the sample sequences the worker may send in one chunk
  MaxChunks,   \* bound: chunks of a request
  MaxThrows    \* bound: application callbacks that throw

\* The options of a TerminalFadePostProcessor, as numbers of frames.
Options == [fade : Nat, silence : Nat, cancelled : Nat]

ASSUME AudioAssumption ==
  /\ MaxChunks \in Nat /\ MaxThrows \in Nat
  /\ Chains \subseteq Seq(Options) /\ Chunks \subseteq Seq(Int)

VARIABLES
  chain,       \* processors_ and finished_ of the chain
  queue,       \* events
  running,     \* the thread that is dispatching, or "none"
  calls,       \* application callbacks the running event still has to make
  terminal,    \* terminal
  ended,       \* the client has delivered the request's terminal callback
  posted,      \* history: the events in the order they were queued
  delivered,   \* history: the application callbacks made, in order
  throws,      \* history: application callbacks that threw
  lost         \* history: one threw inside the terminal event

adapterVars == <<chain, queue, running, calls, terminal, ended, posted, delivered, throws, lost>>

Threads == {"dispatcher", "owner"}
Reasons == {"completed", "cancelled", "error"}

\* A processor that has seen nothing: TerminalFadePostProcessor::reset.
NewProcessor(o) ==
  [options |-> o, first |-> 0, count |-> 0, pending |-> <<>>, received |-> FALSE,
   finished |-> FALSE]

AdapterInit ==
  /\ \E os \in Chains :
       chain = [processors |-> [i \in DOMAIN os |-> NewProcessor(os[i])], finished |-> FALSE]
  /\ queue = <<>> /\ running = "none" /\ calls = <<>> /\ terminal = FALSE /\ ended = FALSE
  /\ posted = <<>> /\ delivered = <<>> /\ throws = 0 /\ lost = FALSE

-----------------------------------------------------------------------------
(* TerminalFadePostProcessor                                               *)

\* A chunk: the position and number of its samples, and whether its format and request
\* are the stream's and it ends on a whole frame.
Chunk(first, samples, same) == [first |-> first, samples |-> samples, same |-> same]

validate_chunk(p, c) ==
  c.same /\ (p.received /\ c.samples # <<>> => c.first = p.first + p.count)

Out(ok, p, chunks) == [ok |-> ok, p |-> p, chunks |-> chunks]
ChunkOf(first, samples) == IF samples = <<>> THEN <<>> ELSE <<Chunk(first, samples, TRUE)>>

\* The plausible bug: every chunk that is longer than the fade keeps no tail.
FadeProcessKeepsNothing(p, c) ==
  LET all == p.pending \o c.samples
  IN  IF p.finished THEN Out(TRUE, p, <<>>)
      ELSE IF ~validate_chunk(p, c) THEN Out(FALSE, p, <<>>)
      ELSE IF Len(all) <= p.options.fade
      THEN Out(TRUE, [p EXCEPT !.received = TRUE, !.count = @ + Len(c.samples),
                               !.first = IF p.pending = <<>> THEN c.first ELSE @,
                               !.pending = all], <<>>)
      ELSE Out(TRUE, [p EXCEPT !.received = TRUE, !.first = c.first + Len(c.samples),
                               !.count = 0, !.pending = <<>>],
               ChunkOf(IF p.pending = <<>> THEN c.first ELSE p.first, all))

\* process: hold back the samples a fade may still change, pass on the rest.
FadeProcess(p, c) ==
  LET all == p.pending \o c.samples
      emit == Len(all) - p.options.fade
      first == IF p.pending = <<>> THEN c.first ELSE p.first
      kept == [p EXCEPT !.received = TRUE, !.first = first, !.count = @ + Len(c.samples),
                        !.pending = all]
  IN  IF p.finished THEN Out(TRUE, p, <<>>)
      ELSE IF ~validate_chunk(p, c) THEN Out(FALSE, p, <<>>)
      ELSE IF c.samples = <<>> THEN Out(TRUE, p, <<>>)
      ELSE IF emit <= 0 THEN Out(TRUE, kept, <<>>)
      ELSE Out(TRUE, [kept EXCEPT !.first = @ + emit, !.count = @ - emit,
                                  !.pending = SubSeq(all, emit + 1, Len(all))],
               ChunkOf(first, SubSeq(all, 1, emit)))

\* lround(s * num / den), halves away from zero.
lround(s, num, den) ==
  LET n == 2 * (IF s < 0 THEN -s ELSE s) * num + den
  IN  IF s < 0 THEN -(n \div (2 * den)) ELSE n \div (2 * den)

\* apply_fade: a linear ramp to zero over what is held.
apply_fade(samples, fade) ==
  LET n == Len(samples)
  IN  IF fade = 0 THEN samples
      ELSE [i \in DOMAIN samples |-> IF n = 1 THEN 0 ELSE lround(samples[i], n - i, n - 1)]

Silence(n) == [i \in 1..n |-> 0]

FadeFinish(p, reason) ==
  LET o == p.options
      silence == IF reason = "completed" THEN o.silence ELSE o.cancelled
      tail == IF reason = "error" THEN p.pending
              ELSE apply_fade(p.pending, o.fade) \o Silence(silence)
      done == [p EXCEPT !.finished = TRUE, !.pending = <<>>]
  IN  IF p.finished THEN Out(TRUE, p, <<>>)
      ELSE Out(TRUE, done, IF p.received THEN ChunkOf(p.first, tail) ELSE <<>>)

-----------------------------------------------------------------------------
(* AudioPostProcessorChain                                                 *)

\* The loops of process_range: a chunk goes into one processor, and what the j-th made of
\* all chunks goes on; a processor that throws ends both.
ProcessChunk(acc, c) ==
  LET r == FadeProcess(acc.p, c)
  IN  IF acc.ok THEN Out(r.ok, r.p, acc.chunks \o r.chunks) ELSE acc
ProcessStage(acc, j) ==
  LET r == FoldLeft(ProcessChunk, Out(TRUE, acc.p[j], <<>>), acc.chunks)
  IN  IF acc.ok THEN Out(r.ok, [acc.p EXCEPT ![j] = r.p], r.chunks) ELSE acc

process_range(ps, from, chunks) ==
  FoldLeft(ProcessStage, Out(TRUE, ps, chunks),
           [k \in 1..(Len(ps) - from + 1) |-> from + k - 1])

ChainProcess(ch, c) ==
  IF ch.finished THEN Out(TRUE, ch, <<>>)
  ELSE LET r == process_range(ch.processors, 1, <<c>>)
       IN  Out(r.ok, [ch EXCEPT !.processors = r.p], r.chunks)

\* finish: what a processor held goes through the ones after it before they finish.
FinishStage(acc, j, reason) ==
  LET f == FadeFinish(acc.p[j], reason)
      r == process_range([acc.p EXCEPT ![j] = f.p], j + 1, f.chunks)
  IN  IF acc.ok THEN Out(r.ok, r.p, acc.chunks \o r.chunks) ELSE acc

ChainFinish(ch, reason) ==
  LET all == FoldLeft(LAMBDA acc, j : FinishStage(acc, j, reason),
                      Out(TRUE, ch.processors, <<>>), [j \in DOMAIN ch.processors |-> j])
  IN  IF ch.finished THEN Out(TRUE, ch, <<>>)
      ELSE Out(all.ok, [processors |-> all.p, finished |-> TRUE], all.chunks)

-----------------------------------------------------------------------------
(* The adapter                                                             *)

Audio(c) == [type |-> "audio", chunk |-> c]
End(reason) == [type |-> reason, chunk |-> Chunk(0, <<>>, TRUE)]

\* dispatch_event up to the loop: queue the event; the thread that finds the adapter idle
\* dispatches.
Post(t, e) ==
  /\ queue' = Append(queue, e) /\ posted' = Append(posted, e)
  /\ running' = IF running = "none" THEN t ELSE running

\* The client's dispatcher delivers a chunk, which follows the ones before unless the
\* worker broke the stream.
AddSamples(n, e) == IF e.type = "audio" THEN n + Len(e.chunk.samples) ELSE n
SampleCount == FoldLeft(AddSamples, 0, posted)
OnAudio(samples, same) ==
  /\ running # "dispatcher" /\ Len(posted) < MaxChunks
  /\ Post("dispatcher", Audio(Chunk(SampleCount, samples, same)))
  /\ UNCHANGED <<chain, calls, terminal, ended, delivered, throws, lost>>

\* The terminal callback: of the dispatcher, or on_error of a stop() on the owner's thread.
OnEnd(t, reason) ==
  /\ ~ended /\ ended' = TRUE /\ running # t
  /\ t = "owner" => reason = "error"
  /\ Post(t, End(reason))
  /\ UNCHANGED <<chain, calls, terminal, delivered, throws, lost>>

\* The plausible bug: an end is delivered although one was delivered before.
TakeEndsAgain ==
  /\ running # "none" /\ calls = <<>> /\ queue # <<>> /\ queue' = Tail(queue)
  /\ LET e == Head(queue)
         r == IF e.type = "audio" THEN ChainProcess(chain, e.chunk) ELSE ChainFinish(chain, e.type)
         emit == [i \in DOMAIN r.chunks |-> Audio(r.chunks[i])]
     IN  /\ chain' = r.p
         /\ terminal' = (terminal \/ e.type # "audio" \/ ~r.ok)
         /\ calls' = IF ~r.ok THEN <<End("client_error")>>
                     ELSE IF e.type = "audio" THEN emit ELSE Append(emit, End(e.type))
  /\ UNCHANGED <<running, ended, posted, delivered, throws, lost>>

\* One event of the loop, up to the application callbacks it makes: emit_chunks, then the
\* terminal callback; a processor that throws ends the request with a client error.
Take ==
  /\ running # "none" /\ calls = <<>> /\ queue # <<>> /\ queue' = Tail(queue)
  /\ LET e == Head(queue)
         r == IF e.type = "audio" THEN ChainProcess(chain, e.chunk) ELSE ChainFinish(chain, e.type)
         emit == [i \in DOMAIN r.chunks |-> Audio(r.chunks[i])]
     IN  IF terminal THEN UNCHANGED <<chain, calls, terminal>>
         ELSE /\ chain' = r.p
              /\ terminal' = (e.type # "audio" \/ ~r.ok)
              /\ calls' = IF ~r.ok THEN <<End("client_error")>>
                          ELSE IF e.type = "audio" THEN emit ELSE Append(emit, End(e.type))
  /\ UNCHANGED <<running, ended, posted, delivered, throws, lost>>

\* An application callback.  It may call stop(), whose on_error comes back to the adapter
\* on the same thread; it may throw, and then the rest of its event is not delivered.
Call ==
  /\ calls # <<>> /\ delivered' = Append(delivered, Head(calls))
  /\ \/ calls' = Tail(calls) /\ UNCHANGED <<queue, posted, ended, throws, lost>>
     \/ /\ ~ended /\ ended' = TRUE /\ calls' = Tail(calls)
        /\ queue' = Append(queue, End("error")) /\ posted' = Append(posted, End("error"))
        /\ UNCHANGED <<throws, lost>>
     \/ /\ throws < MaxThrows /\ throws' = throws + 1 /\ calls' = <<>>
        /\ lost' = (lost \/ (terminal /\ Len(calls) > 1))
        /\ UNCHANGED <<queue, posted, ended>>
  /\ UNCHANGED <<chain, running, terminal>>

\* The queue is empty: the thread leaves, with the first exception if there was one.
LeaveDispatch ==
  /\ running # "none" /\ calls = <<>> /\ queue = <<>> /\ running' = "none"
  /\ UNCHANGED <<chain, queue, calls, terminal, ended, posted, delivered, throws, lost>>

AdapterNext ==
  \/ \E s \in Chunks, same \in BOOLEAN : OnAudio(s, same)
  \/ \E t \in Threads, reason \in Reasons : OnEnd(t, reason)
  \/ Take \/ Call \/ LeaveDispatch

AdapterSpec == AdapterInit /\ [][AdapterNext]_adapterVars

-----------------------------------------------------------------------------
(* Properties                                                              *)

\* The whole signal at once: what one processor makes of a complete signal.
Shaped(x, o, reason) ==
  LET h == IF o.fade < Len(x) THEN o.fade ELSE Len(x)
      n == Len(x) - h
  IN  IF reason = "error" \/ x = <<>> THEN x
      ELSE SubSeq(x, 1, n) \o apply_fade(SubSeq(x, n + 1, Len(x)), o.fade)
             \o Silence(IF reason = "completed" THEN o.silence ELSE o.cancelled)

Samples(es) ==
  FoldLeft(LAMBDA x, e : IF e.type = "audio" THEN x \o e.chunk.samples ELSE x, <<>>, es)

\* Which event ended the request: the first terminal one, or a chunk the chain refuses.
EndIndex ==
  SelectInSeq(posted, LAMBDA e : e.type # "audio" \/ (~e.chunk.same /\ chain.processors # <<>>))

HeardEnds == SelectSeq(delivered, LAMBDA e : e.type # "audio")

\* What the application hears up to the terminal callback is what shaping the whole signal
\* at once gives: no sample lost, repeated or shaped twice at a chunk's edge, whichever
\* thread ran the events; before the end it is a part of the signal, unshaped; and its
\* chunks continue one another on the sample timeline.
HeardIsShaped ==
  throws = 0 =>
    LET a == SelectSeq(delivered, LAMBDA e : e.type = "audio")
        x == Samples(IF EndIndex = 0 THEN posted ELSE SubSeq(posted, 1, EndIndex - 1))
        y == Samples(delivered)
        ps == chain.processors
    IN  /\ IF HeardEnds # <<>> /\ HeardEnds[1].type # "client_error"
           THEN y = FoldLeft(LAMBDA z, p : Shaped(z, p.options, HeardEnds[1].type), x, ps)
           ELSE (terminal /\ HeardEnds = <<>>) \/ IsPrefix(y, x)
        /\ \A i \in 2..Len(a) :
             a[i].chunk.first = a[i - 1].chunk.first + Len(a[i - 1].chunk.samples)

\* The application hears at most one end and nothing after it, and once the adapter is idle
\* after the client's terminal callback it has heard it, unless it threw out of that event.
OneEnd ==
  /\ \A i \in DOMAIN delivered : delivered[i].type # "audio" => i = Len(delivered)
  /\ running = "none" /\ ended /\ ~lost =>
       delivered # <<>> /\ delivered[Len(delivered)].type # "audio"

=============================================================================
