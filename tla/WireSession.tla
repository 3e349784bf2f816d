---------------------------- MODULE WireSession ----------------------------
(***************************************************************************)
(* WorkerSession at the level of bytes: the handshake of start(), the      *)
(* parsing and decoding of what the worker writes into events, sending,    *)
(* and stop(), against a worker that reads with the C++ or the Python      *)
(* parser and decoder.  Threads: the owner (start, send, stop), the        *)
(* transport's callback thread, and a thread that takes events.  While the *)
(* callback thread parses it holds the session's mutex.                    *)
(***************************************************************************)
EXTENDS FrameParser, ControlCodec

CONSTANTS
  MaxEvents, MaxBytes,  \* max_event_queue_events, max_event_queue_bytes
  MaxTraffic,           \* bound: frames beside the handshake, both directions together;
                        \* a synthesize counts as two
  MaxSends,             \* bound: frames the owner sends, hello included
  ReadSizes,            \* bound: how many bytes a read may return
  ClientSays,           \* the messages the owner may send
  WorkerSays,           \* the messages the worker may write
  Strays                \* bound: bytes and payloads no encoder of this system writes

ASSUME WireAssumption ==
  /\ {MaxEvents, MaxBytes, MaxTraffic, MaxSends} \subseteq Nat /\ ReadSizes \subseteq Nat \ {0}
  /\ 0 \notin {MaxEvents, MaxBytes}

VARIABLES
  lang,          \* the worker's language: its parser and its codec
  state,         \* state_
  overflowed,    \* event_queue_overflowed_
  shutdown,      \* shutdown_requested_
  parser,        \* parser_
  events, bytes, \* events_, queued_event_bytes_
  callback,      \* the callback thread: "idle", "parsing", "stopping"
  pc,            \* the owner thread
  result,        \* what start() returned, "none" while it runs
  outcome,       \* the transport's answer to the frame being sent
  transport,     \* "off", "running", "closing", "exited"
  toWorker, toClient,        \* bytes on the way
  workerParser,
  traffic,
  sent, said,                \* history: what each side's encoder wrote, in order
  heard, reported            \* history: what the other side made of it

sessionVars == <<state, overflowed, shutdown, parser, events, bytes, callback>>
ownerVars == <<pc, result, outcome>>
workerVars == <<lang, workerParser>>
wireVars == <<transport, toWorker, toClient, traffic>>
histVars == <<sent, said, heard, reported>>
vars == <<sessionVars, ownerVars, workerVars, wireVars, histVars>>

Init ==
  /\ lang \in {"cpp", "python"}
  /\ state = "stopped" /\ overflowed = FALSE /\ shutdown = FALSE
  /\ parser = NewParser("cpp") /\ events = <<>> /\ bytes = 0 /\ callback = "idle"
  /\ pc = "new" /\ result = "none" /\ outcome = "none" /\ transport = "off"
  /\ toWorker = <<>> /\ toClient = <<>> /\ workerParser = NewParser(lang) /\ traffic = 0
  /\ sent = <<>> /\ said = <<>> /\ heard = <<>> /\ reported = <<>>

Payload(json) == Bytes("payload", json, 1)
\* The frame of a message, by the encoder of a language; request frames carry id 1.
Wire(m, l) ==
  encode_frame(IF m.type = "error" THEN "error_json" ELSE "control_json",
               IF m.type \in {"synthesize", "cancel", "queued", "started", "completed",
                              "cancelled", "error"} THEN 1 ELSE 0,
               Payload(message_to_json(m, l)))

-----------------------------------------------------------------------------
(* Events                                                                  *)

Event(t, v) == [type |-> t, value |-> v]
Local(why) == Event(why, 0)

\* event_payload_size: the audio or the text a message carries.
event_payload_size(e) ==
  CASE e.type = "audio" -> e.value
    [] e.type = "control" -> IF e.value.type \in {"ready", "started"} THEN 1 ELSE 0
    [] e.type = "exit" -> 0
    [] OTHER -> 1

Failed == IF state \in {"starting", "ready"} THEN "failed" ELSE state

\* enqueue_event_locked, with the state the session has once the event is in.
Enqueue(e, exempt, after) ==
  LET n == event_payload_size(e)
      full == Len(events) >= MaxEvents \/ n > MaxBytes \/ bytes > MaxBytes - n
  IN  IF ~exempt /\ ~overflowed /\ full
      THEN /\ overflowed' = TRUE /\ state' = Failed
           /\ events' = Append(events, Local("overflow")) /\ bytes' = bytes + 1
           /\ reported' = Append(reported, Local("overflow"))
      ELSE IF ~exempt /\ overflowed
      THEN UNCHANGED <<state, overflowed, events, bytes, reported>>
      ELSE /\ events' = Append(events, e) /\ bytes' = bytes + n
           /\ reported' = Append(reported, e)
           /\ state' = after /\ UNCHANGED overflowed

\* The plausible bug: the bytes of a taken event stay counted.
TakeEventKeepsBytes ==
  /\ callback # "parsing" /\ events # <<>> /\ events' = Tail(events)
  /\ UNCHANGED <<bytes, state, overflowed, shutdown, parser, callback, ownerVars, workerVars,
                 wireVars, histVars>>

\* wait_for_event
TakeEvent ==
  /\ callback # "parsing" /\ events # <<>>
  /\ LET n == event_payload_size(Head(events))
     IN  bytes' = bytes - (IF n < bytes THEN n ELSE bytes)
  /\ events' = Tail(events)
  /\ UNCHANGED <<state, overflowed, shutdown, parser, callback, ownerVars, workerVars,
                 wireVars, histVars>>

-----------------------------------------------------------------------------
(* The transport's callback thread                                         *)

\* handle_bytes up to the loop: a read of the worker's stdout.
HandleBytes(k) ==
  /\ callback = "idle" /\ transport \in {"running", "closing"} /\ toClient # <<>>
  /\ LET n == IF k < Len(toClient) THEN k ELSE Len(toClient)
     IN  /\ parser' = Append_(parser, SubSeq(toClient, 1, n))
         /\ toClient' = SubSeq(toClient, n + 1, Len(toClient))
  /\ callback' = "parsing"
  /\ UNCHANGED <<state, overflowed, shutdown, events, bytes, ownerVars, workerVars,
                 transport, toWorker, traffic, histVars>>

\* is_control_message_allowed_locked
Allowed(id, t) ==
  IF t = "ready" THEN state = "starting" /\ id = 0
  ELSE /\ state = "ready"
       /\ IF t = "shutdown_ack" THEN id = 0 /\ shutdown
          ELSE IF t = "pong" THEN id = 0 ELSE id # 0

\* The payload's JSON, if the bytes are one whole payload.
JsonOf(f) ==
  IF f.payload # <<>> /\ f.payload[1].part = "payload" THEN f.payload[1].of ELSE Null

\* handle_frame_locked
HandleFrame(f) ==
  LET control == decode_message(JsonOf(f), WorkerToClient)
      error == decode_error(JsonOf(f))
      bad == Enqueue(Local("protocol"), TRUE, Failed)
  IN  IF f.type = "control_json"
      THEN IF control[1] = "error" \/ ~Allowed(f.id, control[2].type) THEN bad
           ELSE Enqueue(Event("control", control[2]), FALSE,
                        IF control[2].type = "ready" THEN "ready" ELSE state)
      ELSE IF f.type = "audio_pcm"
      THEN IF state # "ready" \/ f.id = 0 THEN bad
           ELSE Enqueue(Event("audio", Len(f.payload)), FALSE, state)
      ELSE IF f.type = "error_json"
      THEN IF error[1] = "error" THEN bad
           ELSE Enqueue(Event("error", error[2]), FALSE,
                        IF state = "starting" THEN "failed" ELSE state)
      ELSE bad

\* One turn of the loop of handle_bytes.  A frame that overflows the queue ends it and
\* stops the transport once the mutex is released; so does a stream that does not parse,
\* even when its error event is queued.
ParseOne ==
  /\ callback = "parsing"
  /\ LET r == parse_next(parser)
     IN  /\ parser' = r.parser
         /\ IF r.status = "more"
            THEN callback' = "idle" /\ UNCHANGED <<state, overflowed, events, bytes, reported>>
            ELSE IF r.status = "fatal"
            THEN Enqueue(Local("broken"), TRUE, Failed) /\ callback' = "stopping"
            ELSE /\ HandleFrame(r.frame)
                 /\ callback' = IF Len(reported') = Len(reported) \/ (overflowed' /\ ~overflowed)
                                THEN "stopping" ELSE "parsing"
  /\ UNCHANGED <<shutdown, ownerVars, workerVars, wireVars, sent, said, heard>>

\* transport_->stop() on the callback thread closes the streams and does not wait.
CallbackStop ==
  /\ callback = "stopping" /\ callback' = "idle"
  /\ transport' = IF transport = "running" THEN "closing" ELSE transport
  /\ UNCHANGED <<state, overflowed, shutdown, parser, events, bytes, ownerVars, workerVars,
                 toWorker, toClient, traffic, histVars>>

\* handle_exit: the process has ended, of itself or because it was stopped, and what it
\* had written has been read.
HandleExit ==
  /\ callback = "idle" /\ transport \in {"running", "closing"} /\ toClient = <<>>
  /\ transport' = "exited" /\ Enqueue(Local("exit"), TRUE, "exited")
  /\ UNCHANGED <<shutdown, parser, callback, ownerVars, workerVars, toWorker, toClient,
                 traffic, sent, said, heard>>

-----------------------------------------------------------------------------
(* start()                                                                 *)

Start ==
  /\ pc = "new" /\ pc' = "launch"
  /\ state' = "starting" /\ overflowed' = FALSE /\ shutdown' = FALSE
  /\ parser' = NewParser("cpp") /\ events' = <<>> /\ bytes' = 0
  /\ UNCHANGED <<callback, result, outcome, workerVars, wireVars, histVars>>

\* transport_->start(): from here on the callbacks run.
Launch ==
  /\ pc = "launch"
  /\ \/ transport' = "running" /\ pc' = "launched" /\ UNCHANGED <<state, result>>
     \/ state' = "failed" /\ result' = "false" /\ pc' = "returned" /\ UNCHANGED transport
  /\ UNCHANGED <<overflowed, shutdown, parser, events, bytes, callback, outcome, workerVars,
                 toWorker, toClient, traffic, histVars>>

\* A callback may have reported a failure while start() was still launching.
CheckLaunched ==
  /\ pc = "launched" /\ callback # "parsing"
  /\ pc' = IF state = "starting" THEN "hello" ELSE "stop"
  /\ result' = IF state = "starting" THEN result ELSE "failing"
  /\ UNCHANGED <<sessionVars, outcome, workerVars, wireVars, histVars>>

\* send_control_frame.  The transport may refuse the bytes; what it refuses fails a
\* session that starts or runs.
Send(m, next, failed) ==
  LET frame == Wire(m, "cpp")
      Refuse == Enqueue(Local("transport"), TRUE, Failed) /\ pc' = failed /\ UNCHANGED <<toWorker, sent>>
  IN  /\ callback # "parsing"
      /\ IF ~Valid(m) \/ frame = <<>>
         THEN /\ Enqueue(Local("session"), TRUE, IF state = "starting" THEN "failed" ELSE state)
              /\ pc' = failed /\ UNCHANGED <<shutdown, toWorker, sent>>
         ELSE /\ shutdown' = (shutdown \/ m.type = "shutdown")
              /\ \/ /\ transport = "running" /\ pc' = next
                    /\ toWorker' = toWorker \o frame /\ sent' = Append(sent, Heard(m))
                    /\ UNCHANGED <<state, overflowed, events, bytes, reported>>
                 \/ Refuse
      /\ UNCHANGED <<parser, callback, outcome, workerVars, transport, toClient, said, heard>>

Hello == Message("hello", [client_name |-> "c", client_version |-> "1"])

SendHello ==
  /\ pc = "hello" /\ Send(Hello, "wait", "stop")
  /\ result' = IF pc' = "stop" THEN "failing" ELSE result
  /\ UNCHANGED traffic

\* The plausible bug: a handshake that failed is reported and the worker left running.
WaitReadyForgetsStop ==
  /\ pc = "wait" /\ callback # "parsing"
  /\ IF state = "ready" /\ ~overflowed /\ transport = "running"
     THEN pc' = "up" /\ result' = "true"
     ELSE pc' = "returned" /\ result' = "false"
  /\ UNCHANGED <<sessionVars, outcome, workerVars, wireVars, histVars>>

\* The wait for ready ends with the state or with startup_timeout.
WaitReady ==
  /\ pc = "wait" /\ callback # "parsing"
  /\ IF state = "ready" /\ ~overflowed /\ transport = "running"
     THEN pc' = "up" /\ result' = "true"
     ELSE pc' = "stop" /\ result' = "failing"
  /\ UNCHANGED <<sessionVars, outcome, workerVars, wireVars, histVars>>

\* send_control: refused unless the session is ready and the transport runs.
OwnerSend(m) ==
  /\ pc = "up" /\ Len(sent) < MaxSends
  /\ traffic' = traffic + (IF m.type = "synthesize" THEN 2 ELSE 1) /\ traffic' <= MaxTraffic
  /\ state = "ready" /\ transport = "running"
  /\ Send(m, "up", "up") /\ UNCHANGED result

-----------------------------------------------------------------------------
(* stop()                                                                  *)

\* The owner stops a session it has started; start() stops one it has failed to start.
OwnerStop ==
  /\ pc = "up" /\ pc' = "stop"
  /\ UNCHANGED <<sessionVars, result, outcome, workerVars, wireVars, histVars>>

StopBegin ==
  /\ pc = "stop" /\ callback # "parsing" /\ pc' = "stopping"
  /\ outcome' = IF state = "ready" THEN "shutdown" ELSE "none"
  /\ state' = IF state = "exited" THEN state ELSE "stopping"
  /\ UNCHANGED <<overflowed, shutdown, parser, events, bytes, callback, result, workerVars,
                 wireVars, histVars>>

\* A transport that has ended or is being stopped by its callback is left alone.
StopCheck ==
  /\ pc = "stopping"
  /\ pc' = IF transport # "running" THEN "stopped"
           ELSE IF outcome = "shutdown" THEN "farewell" ELSE "close"
  /\ UNCHANGED <<sessionVars, result, outcome, workerVars, wireVars, histVars>>

StopSend ==
  /\ pc = "farewell"
  /\ Send(Message("shutdown", [mode |-> "cancel"]), "close", "close")
  /\ UNCHANGED <<result, traffic>>

\* transport_->stop() on the owner's thread returns when the callbacks have ended.
StopTransport ==
  /\ pc = "close" /\ pc' = "join"
  /\ transport' = IF transport = "running" THEN "closing" ELSE transport
  /\ UNCHANGED <<sessionVars, result, outcome, workerVars, toWorker, toClient, traffic, histVars>>

StopJoin ==
  /\ pc = "join" /\ transport = "exited" /\ pc' = "stopped"
  /\ UNCHANGED <<sessionVars, result, outcome, workerVars, wireVars, histVars>>

StopEnd ==
  /\ pc = "stopped" /\ pc' = "returned"
  /\ state' = IF state = "stopping" THEN "stopped" ELSE state
  /\ result' = IF result = "failing" THEN "false" ELSE result
  /\ UNCHANGED <<overflowed, shutdown, parser, events, bytes, callback, outcome, workerVars,
                 wireVars, histVars>>

-----------------------------------------------------------------------------
(* The worker                                                              *)

\* A read of the worker's read loop and, one after the other, the frames it completes.
WorkerRead(k) ==
  /\ transport \in {"running", "closing"} /\ toWorker # <<>>
  /\ parse_next(workerParser).status = "more"
  /\ LET n == IF k < Len(toWorker) THEN k ELSE Len(toWorker)
     IN  /\ workerParser' = Append_(workerParser, SubSeq(toWorker, 1, n))
         /\ toWorker' = SubSeq(toWorker, n + 1, Len(toWorker))
  /\ UNCHANGED <<sessionVars, ownerVars, lang, transport, toClient, traffic, histVars>>

WorkerDecode(f) ==
  IF f.type # "control_json" THEN Refused("protocol_error", "invalid_message_direction")
  ELSE IF lang = "cpp" THEN decode_message(JsonOf(f), ClientToWorker) ELSE py_decode(JsonOf(f))

WorkerFrame ==
  LET r == parse_next(workerParser)
  IN  /\ transport \in {"running", "closing"} /\ r.status = "frame"
      /\ workerParser' = r.parser
      /\ heard' = Append(heard, WorkerDecode(r.frame))
      /\ UNCHANGED <<sessionVars, ownerVars, lang, wireVars, sent, said, reported>>

HelloHeard == \E i \in DOMAIN heard : heard[i][1] = "message" /\ heard[i][2].type = "hello"
ReadySaid == \E i \in DOMAIN said : said[i].what.type = "ready"

Writes(data, what) ==
  /\ transport = "running"
  /\ toClient' = toClient \o data /\ said' = Append(said, [what |-> what, size |-> Len(data)])
  /\ UNCHANGED <<sessionVars, ownerVars, workerVars, transport, toWorker, sent, heard, reported>>

Spends == traffic < MaxTraffic /\ traffic' = traffic + 1

\* The worker answers hello with ready, refuses and answers pings at any time, and
\* answers requests once it is ready.  The native worker validates what it encodes.
WorkerWrite(m) ==
  /\ IF m.type = "ready" THEN HelloHeard /\ ~ReadySaid /\ UNCHANGED traffic
     ELSE Spends /\ (ReadySaid \/ m.type \in {"error", "pong"})
  /\ lang = "cpp" => Valid(m)
  /\ Writes(Wire(m, lang), m)

\* An audio frame of n bytes, for a request or, from a confused worker, for none.
WorkerAudio(id, n) ==
  /\ ReadySaid /\ Spends
  /\ Writes(encode_frame("audio_pcm", id, Bytes("payload", "pcm", n)),
            Message("audio", [id |-> id, size |-> n]))

\* Something else prints to the worker's stdout, or a worker of another version writes
\* what this one does not.
WorkerStray(s) == Spends /\ Writes(s, Message("stray", s))

-----------------------------------------------------------------------------
Next ==
  \/ TakeEvent
  \/ \E k \in ReadSizes : HandleBytes(k) \/ WorkerRead(k)
  \/ ParseOne \/ CallbackStop \/ HandleExit
  \/ Start \/ Launch \/ CheckLaunched \/ SendHello \/ WaitReady
  \/ \E m \in ClientSays : OwnerSend(m)
  \/ OwnerStop \/ StopBegin \/ StopCheck \/ StopSend \/ StopTransport \/ StopJoin \/ StopEnd
  \/ WorkerFrame
  \/ \E m \in WorkerSays : WorkerWrite(m)
  \/ \E id \in {0, 1} : WorkerAudio(id, 2)
  \/ \E s \in Strays : WorkerStray(s)

Spec == Init /\ [][Next]_vars

-----------------------------------------------------------------------------
(* Properties                                                              *)

\* What the client's encoder accepted, the worker's parser and decoder hear: every message
\* once, in order and with the same fields, however the reads cut the stream and whether
\* the worker is the native one or the Python one.
HeardAsSent ==
  /\ Len(heard) <= Len(sent)
  /\ \A i \in DOMAIN heard : heard[i] = sent[i]
  /\ toWorker = <<>> /\ parse_next(workerParser).status = "more" => Len(heard) = Len(sent)

\* The items of said that have arrived whole, and of those the ones before the first that
\* breaks the stream.
Arrived ==
  LET total == FoldSeq(LAMBDA w, n : w.size + n, 0, said) - Len(toClient)
  IN  {i \in DOMAIN said :
         FoldSeq(LAMBDA w, n : w.size + n, 0, SubSeq(said, 1, i)) <= total}
Breaks(w) == w.what.type = "stray" /\ HeaderError(w.what.body[1]) # "none"
Readable == {i \in Arrived : \A j \in 1..i : ~Breaks(said[j])}

FrameEvents == SelectSeq(reported, LAMBDA e : e.type \in {"control", "audio", "error", "protocol"})

\* An event that carries what the worker wrote.
Carries(e, m) ==
  CASE m.type = "audio" -> e.type = "audio" /\ e.value = m.body.size
    [] m.type = "stray" -> FALSE
    [] OTHER -> e.type = (IF m.type = "error" THEN "error" ELSE "control") /\ e.value = m

\* Why a session may answer the i-th frame with a protocol error.
MayRefuse(i) ==
  \/ said[i].what.type = "stray"
  \/ said[i].what.type = "audio" /\ said[i].what.body.id = 0
  \/ said[i].what.type = "shutdown_ack" /\ ~shutdown
  \/ \A j \in 1..(i - 1) : said[j].what.type # "ready"
  \/ \E j \in DOMAIN reported : reported[j].type \in {"transport", "session", "exit"}
  \/ \E j \in 1..(i - 1) : FrameEvents[j].type = "protocol"
  \/ \E j \in 1..(i - 1) : said[j].what.type = "error"
  \/ pc \in {"stop", "stopping", "farewell", "close", "join", "stopped", "returned"}

\* What the worker wrote becomes one event per frame, in order, with the fields the worker
\* encoded, however the reads cut the stream; a refused frame costs neither the frames
\* around it nor the synchronisation of the stream, no frame is made up after a broken
\* header, and a frame is refused only for a reason.  The queue's byte counter is the size
\* of what is queued, and only events exempt from the limits take the queue past them.
EventsAsSaid ==
  /\ Len(FrameEvents) <= Cardinality(Readable)
  /\ callback = "idle" /\ ~overflowed => Len(FrameEvents) = Cardinality(Readable)
  /\ \A i \in DOMAIN FrameEvents :
       IF FrameEvents[i].type = "protocol" THEN MayRefuse(i)
       ELSE Carries(FrameEvents[i], said[i].what)
  /\ LET Size(es) == FoldSeq(LAMBDA e, n : event_payload_size(e) + n, 0, es)
         regular == SelectSeq(events, LAMBDA e : e.type \in {"control", "audio", "error"})
     IN  bytes = Size(events) /\ Len(regular) <= MaxEvents /\ Size(regular) <= MaxBytes

\* start() that failed leaves no transport running, and start() that succeeded has put the
\* worker's ready event first into the queue.
StartOutcome ==
  /\ result = "false" => transport # "running"
  /\ result = "true" => reported[1].type = "control" /\ reported[1].value.type = "ready"

=============================================================================
