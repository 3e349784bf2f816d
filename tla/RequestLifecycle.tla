-------------------------- MODULE RequestLifecycle --------------------------
(***************************************************************************)
(* What a worker promises its client: the request lifecycle of QTB v1 as   *)
(* the client sees it on the wire.  A request is created, possibly queued, *)
(* possibly running, and ends once; shutdown_ack closes the session and    *)
(* comes after the end of every request that was queued or running.        *)
(***************************************************************************)
CONSTANT Requests

VARIABLES
  phase,  \* the lifecycle state of each request
  acked   \* shutdown has been acknowledged

lifecycleVars == <<phase, acked>>

Done == {"completed", "cancelled", "failed"}

Init == phase = [r \in Requests |-> "created"] /\ acked = FALSE

Admit(r) ==
  /\ ~acked /\ phase[r] = "created"
  /\ phase' = [phase EXCEPT ![r] = "queued"]
  /\ UNCHANGED acked

Start(r) ==
  /\ phase[r] = "queued"
  /\ phase' = [phase EXCEPT ![r] = "running"]
  /\ UNCHANGED acked

\* Only a request that started can complete.
End(r, outcome) ==
  /\ \/ phase[r] = "queued" /\ outcome \in Done \ {"completed"}
     \/ phase[r] = "running" /\ outcome \in Done
  /\ phase' = [phase EXCEPT ![r] = outcome]
  /\ UNCHANGED acked

Acknowledge ==
  /\ ~acked
  /\ \A r \in Requests : phase[r] \notin {"queued", "running"}
  /\ acked' = TRUE
  /\ UNCHANGED phase

Next ==
  \/ \E r \in Requests :
       Admit(r) \/ Start(r) \/ \E outcome \in Done : End(r, outcome)
  \/ Acknowledge

Spec == Init /\ [][Next]_lifecycleVars
=============================================================================
