---------------------------- MODULE ControlCodec ----------------------------
(***************************************************************************)
(* The JSON of control and error payloads: how the C++ library encodes,    *)
(* validates and decodes it, and how the Python worker does.  A JSON value *)
(* is <<kind, value>>; an object is a function from its members' names.    *)
(* A message is [type, body]; an optional field without default is a set   *)
(* of at most one value.  Floating-point numbers count halves.             *)
(***************************************************************************)
EXTENDS Integers, Sequences, FiniteSets, SequencesExt

CONSTANTS MaxU32, MaxU64   \* the largest 32-bit and 64-bit numbers, scaled down

ASSUME WidthAssumption == MaxU32 \in Nat /\ MaxU64 \in Nat /\ 0 < MaxU32 /\ MaxU32 < MaxU64

ClientToWorker == {"hello", "synthesize", "cancel", "ping", "shutdown"}
WorkerToClient ==
  {"ready", "queued", "started", "completed", "cancelled", "pong", "shutdown_ack"}

-----------------------------------------------------------------------------
(* What each message consists of, in the order the decoder reads it        *)

Row(n, k, m, a) == [name |-> n, kind |-> k, mode |-> m, absent |-> a]
Required(n, k) == Row(n, k, "required", {})
Default(n, k, d) == Row(n, k, "default", d)
Optional(n, k) == Row(n, k, "optional", {})

FormatRows ==
  <<Required("sample_format", "string"), Required("sample_rate", "u32"),
    Required("channels", "u32")>>
SamplingRows ==
  <<Optional("temperature", "number"), Optional("top_k", "u32"), Optional("top_p", "number"),
    Optional("repetition_penalty", "number"), Optional("do_sample", "bool")>>
TraceRows ==
  <<Required("termination_reason", "string"), Required("hit_eos", "bool"),
    Required("hit_max_seq_len", "bool"), Required("hit_max_new_tokens", "bool"),
    Required("codec_frame_count", "u64"), Required("generated_steps", "u64"),
    Required("emitted_steps", "u64"), Required("terminal_step_index", "u64")>>
CapabilityRows ==
  <<Required("streaming", "bool"), Required("cancellation", "bool"),
    Required("instructions", "bool"), Required("voice_clone", "bool"),
    Default("sampling_overrides", "bool", FALSE), Default("deterministic_seed", "bool", FALSE),
    Default("voice_clone_streaming", "bool", FALSE), Default("voice_profiles", "bool", FALSE)>>

RowsOf(k) ==
  CASE k = "format" -> FormatRows
    [] k = "sampling" -> SamplingRows
    [] k = "trace" -> TraceRows
    [] k = "capabilities" -> CapabilityRows

Names(rows) == {rows[i].name : i \in DOMAIN rows}
NoSampling == [n \in Names(SamplingRows) |-> {}]
DefaultFormat == [sample_format |-> "s16le", sample_rate |-> 1, channels |-> 1]

MessageRows(t) ==
  CASE t = "hello" -> <<Required("client_name", "string"), Required("client_version", "string")>>
    [] t = "synthesize" ->
         <<Required("text", "string"), Default("language", "string", "auto"),
           Default("speaker", "string", ""), Default("instruction", "string", ""),
           Default("voice_id", "string", ""), Default("reference_audio_path", "string", ""),
           Default("reference_text", "string", ""), Default("x_vector_only", "bool", FALSE),
           Optional("seed", "u64"), Default("sampling", "sampling", NoSampling),
           Default("output", "format", DefaultFormat)>>
    [] t \in {"ping", "pong"} -> <<Optional("sequence", "u64")>>
    [] t = "shutdown" -> <<Default("mode", "string", "cancel")>>
    [] t = "ready" ->
         <<Required("worker_version", "string"), Required("session_id", "string"),
           Optional("warmed_up", "bool"), Default("voice_ids", "names", <<>>),
           Required("capabilities", "capabilities")>>
    [] t = "queued" -> <<Optional("position", "u32")>>
    [] t = "started" -> <<Required("audio_format", "format")>>
    [] t = "completed" ->
         <<Optional("execution_outcome", "string"), Optional("generation_trace", "trace")>>
    [] t = "error" ->
         <<Required("category", "string"), Required("code", "string"), Required("message", "string")>>
    [] OTHER -> <<>>

Message(t, body) == [type |-> t, body |-> body]

-----------------------------------------------------------------------------
(* validate_control_message, validate_error_message                        *)

ValidFormat(f) == f.sample_format # "" /\ f.sample_rate > 0 /\ f.channels > 0

ValidSampling(s) ==
  /\ s.temperature \subseteq 1..4
  /\ 0 \notin s.top_k
  /\ s.top_p \subseteq 1..2
  /\ s.repetition_penalty \subseteq 2..4

ValidSynthesize(b) ==
  /\ b.text # ""
  /\ b.reference_audio_path = "" => b.reference_text = "" /\ ~b.x_vector_only
  /\ b.voice_id # "" => b.reference_audio_path = "" /\ b.reference_text = "" /\ ~b.x_vector_only
  /\ ValidSampling(b.sampling)
  /\ ValidFormat(b.output)

Valid(m) ==
  CASE m.type = "hello" -> m.body.client_name # "" /\ m.body.client_version # ""
    [] m.type = "synthesize" -> ValidSynthesize(m.body)
    [] m.type = "shutdown" -> m.body.mode = "cancel"
    [] m.type = "ready" -> m.body.worker_version # "" /\ m.body.session_id # ""
    [] m.type = "queued" -> 0 \notin m.body.position
    [] m.type = "started" -> ValidFormat(m.body.audio_format)
    [] m.type = "error" -> m.body.category # "" /\ m.body.code # "" /\ m.body.message # ""
    [] OTHER -> TRUE

-----------------------------------------------------------------------------
(* Encoding                                                                *)

ScalarToJson(k, v) ==
  CASE k = "string" -> <<"string", v>>
    [] k = "bool" -> <<"bool", v>>
    [] k = "number" -> <<"float", v>>
    [] k = "names" -> <<"array", [i \in DOMAIN v |-> <<"string", v[i]>>]>>
    [] OTHER -> <<"uint", v>>

The(S) == CHOOSE x \in S : TRUE
RowNamed(rows, n) == rows[CHOOSE i \in DOMAIN rows : rows[i].name = n]

\* The members of an object: the rows' values, those written only when set left out.
ObjectToJson(rows, body, omitted, ToJson(_, _)) ==
  LET Skip(r) == body[r.name] = r.absent /\ (r.mode = "optional" \/ r.name \in omitted)
  IN  [n \in Names(SelectSeq(rows, LAMBDA r : r.mode = "required" \/ ~Skip(r))) |->
         LET r == RowNamed(rows, n)
         IN  ToJson(r.kind, IF r.mode = "optional" THEN The(body[n]) ELSE body[n])]

FieldToJson(k, v) ==
  IF k \in {"format", "sampling", "trace", "capabilities"}
  THEN <<"object", ObjectToJson(RowsOf(k), v, {}, ScalarToJson)>>
  ELSE ScalarToJson(k, v)

\* Members the C++ encoder writes only when they are set.
OmittedWhenEmpty ==
  {"speaker", "voice_id", "reference_audio_path", "reference_text", "x_vector_only",
   "sampling", "voice_ids"}

\* control_message_to_json and error_message_to_json; the Python worker writes the members
\* of its dictionaries, voice_ids included.
message_to_json(m, lang) ==
  LET json == ObjectToJson(MessageRows(m.type), m.body,
                           IF lang = "cpp" THEN OmittedWhenEmpty ELSE {}, FieldToJson)
  IN  <<"object", [n \in DOMAIN json \cup {"message_type"} |->
                     IF n = "message_type" THEN <<"string", m.type>> ELSE json[n]]>>

-----------------------------------------------------------------------------
(* Decoding by the C++ library                                             *)

First(errors) ==
  LET hit == SelectSeq(errors, LAMBDA e : e # "none")
  IN  IF hit = <<>> THEN "none" ELSE hit[1]

IsKind(v, k) ==
  CASE k \in {"string", "bool"} -> v[1] = k
    [] k = "u64" -> v[1] = "uint"
    [] k = "u32" -> v[1] = "uint" /\ v[2] <= MaxU32
    [] k = "number" -> v[1] \in {"uint", "int", "float"}
    [] k = "names" -> v[1] = "array" /\ \A i \in DOMAIN v[2] :
                        v[2][i][1] = "string" /\ v[2][i] # <<"string", "">>

ScalarValue(v, k) ==
  CASE k = "number" /\ v[1] # "float" -> 2 * v[2]
    [] k = "names" -> [i \in DOMAIN v[2] |-> v[2][i][2]]
    [] OTHER -> v[2]

ScalarError(v, k) == IF IsKind(v, k) THEN "none" ELSE "invalid_field_type"

\* A member that is not there: read_required_* refuse it.
MissingError(r) == IF r.mode = "required" THEN "missing_required_field" ELSE "none"

\* The first error of an object's rows, read in their order.
ObjectError(obj, rows, Error(_, _)) ==
  First([i \in DOMAIN rows |->
           IF rows[i].name \in DOMAIN obj THEN Error(obj[rows[i].name], rows[i].kind)
           ELSE MissingError(rows[i])])

ObjectValue(obj, rows, Value(_, _)) ==
  [n \in Names(rows) |->
     LET r == RowNamed(rows, n)
         v == Value(obj[n], r.kind)
     IN  IF n \notin DOMAIN obj THEN r.absent ELSE IF r.mode = "optional" THEN {v} ELSE v]

FieldError(v, k) ==
  IF k \notin {"format", "sampling", "trace", "capabilities"} THEN ScalarError(v, k)
  ELSE IF v[1] # "object" THEN "invalid_field_type"
  ELSE IF k = "sampling" /\ ~(DOMAIN v[2] \subseteq Names(SamplingRows)) THEN "unknown_field"
  ELSE LET e == ObjectError(v[2], RowsOf(k), ScalarError)
       IN  IF e = "none" /\ k = "format" /\ ~ValidFormat(ObjectValue(v[2], FormatRows, ScalarValue))
           THEN "invalid_field_type" ELSE e

FieldValue(v, k) ==
  IF k \in {"format", "sampling", "trace", "capabilities"}
  THEN ObjectValue(v[2], RowsOf(k), ScalarValue)
  ELSE ScalarValue(v, k)

Heard(m) == <<"message", m>>
Refused(category, code) == <<"error", category, code>>

\* What both decoders check before they look at the message's own fields.
EnvelopeError(json) ==
  IF json[1] # "object" THEN "payload_not_object"
  ELSE IF {"protocol_version", "request_id"} \cap DOMAIN json[2] # {} THEN "invalid_field_type"
  ELSE IF "message_type" \notin DOMAIN json[2] THEN "missing_message_type"
  ELSE IF json[2]["message_type"][1] # "string" THEN "invalid_message_type"
  ELSE "none"

\* decode_control_object; types are those of the direction.
decode_message(json, types) ==
  LET t == json[2]["message_type"][2]
      rows == MessageRows(t)
      known == IF types = {"error"} THEN types ELSE ClientToWorker \cup WorkerToClient
      code == First(<<IF t \in known THEN "none" ELSE "unknown_message_type",
                      IF t \in types THEN "none" ELSE "invalid_message_direction",
                      ObjectError(json[2], rows, FieldError)>>)
      m == Message(t, ObjectValue(json[2], rows, FieldValue))
  IN  IF EnvelopeError(json) # "none" THEN Refused("protocol_error", EnvelopeError(json))
      ELSE IF code # "none" THEN Refused("protocol_error", code)
      ELSE IF ~Valid(m) THEN Refused("protocol_error", "invalid_field_type")
      ELSE Heard(m)

decode_error(json) == decode_message(json, {"error"})

-----------------------------------------------------------------------------
(* Decoding by the Python worker                                           *)

Null == <<"null", 0>>
Get(obj, n, d) == IF n \in DOMAIN obj THEN obj[n] ELSE d
Given(obj, n) == Get(obj, n, Null) # Null

\* _parse_sampling_options: null members count as absent.
PySamplingError(v) ==
  LET Is(n, kinds) == Given(v[2], n) => v[2][n][1] \in kinds
      s == [n \in Names(SamplingRows) |->
              IF Given(v[2], n) THEN {FieldValue(v[2][n], RowNamed(SamplingRows, n).kind)} ELSE {}]
  IN  IF v = Null THEN "none"
      ELSE IF v[1] # "object" THEN "invalid_field_type"
      ELSE IF ~(DOMAIN v[2] \subseteq Names(SamplingRows)) THEN "unknown_field"
      ELSE IF /\ \A n \in {"temperature", "top_p", "repetition_penalty"} :
                   Is(n, {"uint", "int", "float"})
              /\ Is("top_k", {"uint", "int"})
              /\ Is("do_sample", {"bool"})
              /\ s.top_k \subseteq 1..MaxU64
              /\ ValidSampling(s)
           THEN "none" ELSE "invalid_field_type"

\* int() refuses null and text that is no number.
PyFormatOk(v) ==
  \/ v = Null
  \/ /\ v[1] = "object"
     /\ \A n \in {"sample_rate", "channels"} \cap DOMAIN v[2] :
          v[2][n][1] \in {"uint", "int", "float", "bool"} \/ v[2][n] = <<"string", "1">>

\* _parse_synthesis_request up to the engine's own validation.
PySynthesizeError(obj) ==
  LET Is(n, d, kind) == Get(obj, n, d)[1] = kind
      text == <<"string", "">>
  IN  First(<<IF Is("text", Null, "string") THEN "none" ELSE "missing_required_field",
              IF /\ \A n \in {"language", "speaker", "instruction", "reference_audio_path",
                              "reference_text", "voice_id"} : Is(n, text, "string")
                 /\ Is("x_vector_only", <<"bool", FALSE>>, "bool")
                 /\ Get(obj, "seed", Null)[1] \in {"null", "uint"}
              THEN "none" ELSE "invalid_field_type",
              PySamplingError(Get(obj, "sampling", Null)),
              IF PyFormatOk(Get(obj, "output", Null)) THEN "none" ELSE "invalid_field_type">>)

\* AudioFormat.from_payload: str() and int() of the members that are there.  int() takes
\* a number, a bool and the text of a number, and cuts a fraction off.
PyInt(v) ==
  CASE v[1] = "float" -> v[2] \div 2
    [] v[1] = "bool" -> IF v[2] THEN 1 ELSE 0
    [] v = <<"string", "1">> -> 1
    [] OTHER -> v[2]
PyFormat(v) ==
  IF v = Null THEN DefaultFormat
  ELSE [n \in DOMAIN DefaultFormat |->
          IF n \notin DOMAIN v[2] THEN DefaultFormat[n]
          ELSE IF n # "sample_format" THEN PyInt(v[2][n])
          ELSE IF v[2][n][1] = "string" THEN v[2][n][2] ELSE "other"]

\* The plausible bug: a member whose value is false in Python counts as absent.
PyValueTruthy(obj, r) ==
  IF r.kind = "format" THEN PyFormat(Get(obj, r.name, Null))
  ELSE IF ~Given(obj, r.name) \/ obj[r.name] = <<"uint", 0>> THEN r.absent
  ELSE IF r.mode = "optional" THEN {FieldValue(obj[r.name], r.kind)}
  ELSE FieldValue(obj[r.name], r.kind)

\* SynthesisRequest: absent members take the dataclass defaults, those of the C++ message.
PyValue(obj, r) ==
  IF r.kind = "format" THEN PyFormat(Get(obj, r.name, Null))
  ELSE IF ~Given(obj, r.name) THEN r.absent
  ELSE IF r.mode = "optional" THEN {FieldValue(obj[r.name], r.kind)}
  ELSE FieldValue(obj[r.name], r.kind)

\* _handle_frame: what the worker passes on to the handler of the message.
py_decode(json) ==
  LET t == json[2]["message_type"][2]
      rows == MessageRows(t)
      body == [n \in Names(rows) |-> PyValue(json[2], RowNamed(rows, n))]
  IN  IF EnvelopeError(json) # "none" THEN Refused("protocol_error", EnvelopeError(json))
      ELSE IF t \notin ClientToWorker THEN Refused("protocol_error", "unknown_message_type")
      ELSE IF t = "synthesize" /\ PySynthesizeError(json[2]) # "none"
           THEN Refused("request_error", PySynthesizeError(json[2]))
      ELSE IF t = "shutdown" /\ Get(json[2], "mode", <<"string", "cancel">>) # <<"string", "cancel">>
           THEN Refused("protocol_error", "invalid_field_type")
      ELSE Heard(Message(t, body))

=============================================================================
