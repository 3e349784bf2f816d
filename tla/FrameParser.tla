---------------------------- MODULE FrameParser ----------------------------
(***************************************************************************)
(* QTB v1 frames on a byte stream: the encoders, and the incremental       *)
(* parsers of the C++ library and of the Python worker.  A byte remembers  *)
(* what it was written as, [part, of, at]: the at-th byte of the header or *)
(* payload "of".  The fixed header is MinHeader bytes long, a header with  *)
(* extensions up to MaxHeader.                                             *)
(***************************************************************************)
EXTENDS Naturals, Sequences, SequencesExt

CONSTANTS
  MinHeader, MaxHeader,   \* min_header_size, max_header_size
  CompactThreshold        \* compact_threshold of FrameParser::compact_buffer

ASSUME HeaderAssumption ==
  MinHeader \in Nat \ {0} /\ MaxHeader \in Nat /\ MaxHeader >= MinHeader
  /\ CompactThreshold \in Nat

FrameTypes == {"control_json", "audio_pcm", "error_json"}

\* The payload limit of each frame type, scaled down.
max_payload_size(t) == IF t = "audio_pcm" THEN 3 ELSE 2
MaxFramePayload == 3

Header(t, id, n) ==
  [magic |-> TRUE, version |-> 1, size |-> MinHeader, type |-> t, flags |-> 0,
   payload |-> n, id |-> id]

Bytes(part, of, n) == [i \in 1..n |-> [part |-> part, of |-> of, at |-> i]]

\* The first check of a sequence of <<condition, error>> that applies.
FirstOf(checks) ==
  LET hit == SelectSeq(checks, LAMBDA c : c[1])
  IN  IF hit = <<>> THEN "none" ELSE hit[1][2]

-----------------------------------------------------------------------------
(* Encoding                                                                *)

EncodeError(h, payload) ==
  FirstOf(<< <<h.version # 1, "version">>, <<h.size # MinHeader, "header_size">>,
             <<h.type \notin FrameTypes, "type">>, <<h.flags # 0, "flags">>,
             <<h.payload # Len(payload), "mismatch">>,
             <<Len(payload) > MaxFramePayload, "too_large">>,
             <<Len(payload) > max_payload_size(h.type), "too_large">> >>)

\* encode_frame: no bytes when the frame is refused.
encode_frame(t, id, payload) ==
  LET h == Header(t, id, Len(payload))
  IN  IF EncodeError(h, payload) # "none" THEN <<>>
      ELSE Bytes("header", h, h.size) \o payload

-----------------------------------------------------------------------------
(* Parsing                                                                 *)

NewParser(lang) == [lang |-> lang, buffer |-> <<>>, offset |-> 0, fatal |-> "none"]

Unread(p) == SubSeq(p.buffer, p.offset + 1, Len(p.buffer))

Append_(p, data) == IF p.fatal # "none" THEN p ELSE [p EXCEPT !.buffer = @ \o data]

\* The bytes at the read position are the start of a header, or not a frame at all.
HeaderError(b) ==
  IF ~(b.part = "header" /\ b.at = 1 /\ b.of.magic) THEN "magic"
  ELSE LET h == b.of
       IN FirstOf(<< <<h.version # 1, "version">>, <<h.size < MinHeader, "too_small">>,
                     <<h.size > MaxHeader, "header_too_large">>,
                     <<h.type \notin FrameTypes, "type">>, <<h.flags # 0, "flags">>,
                     <<h.payload > MaxFramePayload, "too_large">>,
                     <<h.payload > max_payload_size(h.type), "too_large">> >>)

\* The plausible bug: the bytes are dropped and the offset is kept.
compact_bufferKeepsOffset(p) ==
  IF p.offset >= CompactThreshold \/ p.offset > Len(p.buffer) \div 2
  THEN [p EXCEPT !.buffer = Unread(p)]
  ELSE p

\* compact_buffer of the C++ parser, which moves a read offset over the buffer.
compact_buffer(p) ==
  IF p.offset = Len(p.buffer)
     \/ p.offset >= CompactThreshold \/ p.offset > Len(p.buffer) \div 2
  THEN [p EXCEPT !.buffer = Unread(p), !.offset = 0]
  ELSE p

\* The Python parser deletes the frame from the front of its buffer.
Consumed(p, n) ==
  IF p.lang = "cpp" THEN compact_buffer([p EXCEPT !.offset = @ + n])
  ELSE [p EXCEPT !.buffer = SubSeq(@, n + 1, Len(@))]

\* parse_next: the status, the frame when there is one, and the parser afterwards.
parse_next(p) ==
  LET data == Unread(p)
      h == data[1].of
      total == h.size + h.payload
      more == [status |-> "more", frame |-> <<>>, parser |-> p]
  IN  IF p.fatal # "none" THEN [more EXCEPT !.status = "fatal"]
      ELSE IF Len(data) < MinHeader THEN more
      ELSE IF HeaderError(data[1]) # "none"
           THEN [more EXCEPT !.status = "fatal", !.parser.fatal = HeaderError(data[1])]
      ELSE IF Len(data) < total THEN more
      ELSE [status |-> "frame", parser |-> Consumed(p, total),
            frame |-> [type |-> h.type, id |-> h.id, payload |-> SubSeq(data, h.size + 1, total)]]

=============================================================================
