-------------------------- MODULE MCQwenTtsClient --------------------------
(***************************************************************************)
(* QwenTtsClient on a small instance: a worker that sends audio and ends   *)
(* of request 1 at any time, twice, before the request exists or never,    *)
(* and garbage.  completed, cancelled, error and a partial sample end a    *)
(* request in the same way; only error is accepted in every session state. *)
(***************************************************************************)
EXTENDS QwenTtsClient

MCFrames == {Event("error", 1), Event("audio", 1), Event("broken", 0)}
=============================================================================
