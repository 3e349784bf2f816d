--------------------------- MODULE MCNativeWorker ---------------------------
(***************************************************************************)
(* NativeWorker on a small instance.                                       *)
(***************************************************************************)
EXTENDS NativeWorker

Msg(t, r) == [type |-> t, id |-> r, valid |-> TRUE]

\* The client cancels the second request only: it may be waiting, running or ended then.
MCInputs ==
  {Msg("hello", 0), Msg("ping", 0), Msg("shutdown", 0), Msg("cancel", 2)}
    \cup {Msg("synthesize", r) : r \in Ids}
=============================================================================
