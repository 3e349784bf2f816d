--------------------------- MODULE MCWireSession ---------------------------
(* Messages that differ from a plain one in few fields, and foreign bytes.  *)
EXTENDS WireSession

Plain == [text |-> "t", language |-> "auto", speaker |-> "", instruction |-> "", voice_id |-> "",
          reference_audio_path |-> "", reference_text |-> "", x_vector_only |-> FALSE,
          seed |-> {}, sampling |-> NoSampling, output |-> DefaultFormat]
Clone == [Plain EXCEPT !.reference_audio_path = "p"]

Samplings ==
  UNION {{[NoSampling EXCEPT ![n] = {v}] : v \in {0, 1, 5}} :
           n \in {"temperature", "top_p", "repetition_penalty"}}
  \cup {[NoSampling EXCEPT !.top_k = {v}] : v \in {0, 1, MaxU32}}
  \cup {[NoSampling EXCEPT !.do_sample = {FALSE}, !.top_p = {2}]}
Formats == {DefaultFormat, [DefaultFormat EXCEPT !.channels = 0],
            [DefaultFormat EXCEPT !.sample_rate = MaxU32]}
Requests ==
  {Plain, Clone, [Plain EXCEPT !.text = ""], [Plain EXCEPT !.speaker = "s"],
   [Plain EXCEPT !.language = ""], [Plain EXCEPT !.instruction = "i"],
   [Plain EXCEPT !.voice_id = "v"], [Clone EXCEPT !.voice_id = "v"],
   [Plain EXCEPT !.reference_text = "r"], [Clone EXCEPT !.reference_text = "r"],
   [Plain EXCEPT !.x_vector_only = TRUE], [Clone EXCEPT !.x_vector_only = TRUE],
   [Plain EXCEPT !.voice_id = "v", !.x_vector_only = TRUE]}
  \cup {[Plain EXCEPT !.seed = {v}] : v \in {0, MaxU64}}
  \cup {[Plain EXCEPT !.sampling = s] : s \in Samplings}
  \cup {[Plain EXCEPT !.output = f] : f \in Formats}

MCClientSays ==
  {Message("synthesize", r) : r \in Requests}
  \cup {Message("ping", [sequence |-> s]) : s \in {{}, {0}}}
  \cup {Message("cancel", <<>>), Message("shutdown", [mode |-> "cancel"])}

Capabilities == [n \in Names(CapabilityRows) |-> n \in {"streaming", "voice_profiles"}]
ReadyBody == [worker_version |-> "1", session_id |-> "s", warmed_up |-> {FALSE},
              voice_ids |-> <<"v", "w">>, capabilities |-> Capabilities]
Trace == [termination_reason |-> "eos", hit_eos |-> TRUE, hit_max_seq_len |-> FALSE,
          hit_max_new_tokens |-> FALSE, codec_frame_count |-> MaxU64, generated_steps |-> 0,
          emitted_steps |-> 0, terminal_step_index |-> 0]
MCWorkerSays ==
  {Message("ready", ReadyBody),
   Message("queued", [position |-> {MaxU32}]),
   Message("started", [audio_format |-> DefaultFormat]),
   Message("completed", [execution_outcome |-> {"completed"}, generation_trace |-> {Trace}]),
   Message("pong", [sequence |-> {}]), Message("shutdown_ack", <<>>),
   Message("error", [category |-> "c", code |-> "c", message |-> "m"])}

StrayHeader(h) == Bytes("header", h, MinHeader)
H == Header("control_json", 0, 0)
StrayJson(json) == Bytes("header", [H EXCEPT !.payload = 1], MinHeader) \o Payload(json)
MCStrays ==
  {Bytes("text", 0, MinHeader), StrayHeader([H EXCEPT !.payload = 3]), StrayHeader(H),
   Bytes("header", [H EXCEPT !.size = MaxHeader, !.payload = 1], MaxHeader)
     \o Payload(message_to_json(Message("shutdown", [mode |-> "cancel"]), "cpp")),
   StrayJson(<<"object", [message_type |-> <<"string", "queued">>, position |-> <<"int", -1>>]>>)}

=============================================================================
