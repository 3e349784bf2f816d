------------------------- MODULE MCStdIoTransport -------------------------
(***************************************************************************)
(* StdIoTransport on a small instance: a worker that writes to both        *)
(* streams, one sending thread and a callback queue of one event.          *)
(***************************************************************************)
EXTENDS StdIoTransport
=============================================================================
