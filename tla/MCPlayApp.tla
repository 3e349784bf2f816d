----------------------------- MODULE MCPlayApp -----------------------------
(***************************************************************************)
(* Small instances of PlayApp for TLC.  At the prompt one chunk per text   *)
(* is enough for every callback to meet every command; the one-shot run    *)
(* has as many as it takes to fill the queue behind a full prebuffer.      *)
(***************************************************************************)
EXTENDS PlayApp

ChunksOf == [mode \in Modes |-> IF mode = "oneshot" THEN 3 ELSE 1]
=============================================================================
