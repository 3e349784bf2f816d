----------------------------- MODULE QtbFrames -----------------------------
(***************************************************************************)
(* The QTB v1 vocabulary shared by the two workers: the frames a client    *)
(* puts on a worker's stdin and the frames a worker puts on its stdout.    *)
(* A payload is abstracted to its message type; the header keeps its       *)
(* request id.  Id 0 is the session.                                       *)
(***************************************************************************)
EXTENDS Naturals, FiniteSets, Sequences, SequencesExt

CONSTANT MaxId      \* bound: the ids a client uses are 1..MaxId

ASSUME MaxIdAssumption == MaxId \in Nat \ {0}

Ids == 1..MaxId

(***************************************************************************)
(* "malformed" is a structurally valid frame the worker cannot use: an     *)
(* audio or error frame, an undecodable payload, a worker-to-client or     *)
(* unknown message.                                                        *)
(***************************************************************************)
ClientTypes == {"hello", "ping", "synthesize", "cancel", "shutdown", "malformed"}

ClientFrame == [type: ClientTypes, id: 0..MaxId, valid: BOOLEAN]

(***************************************************************************)
(* "failed" is the error_json frame that ends an admitted request,         *)
(* "reject" every other error_json frame.                                  *)
(***************************************************************************)
Terminals == {"completed", "cancelled", "failed"}

LifecycleKinds == {"queued", "started", "audio"} \cup Terminals

SessionKinds == {"ready", "pong", "reject", "shutdown_ack"}

OutFrame == [kind: LifecycleKinds \cup SessionKinds, id: 0..MaxId]

Frame(k, r) == [kind |-> k, id |-> r]

\* The entries of s that are in S, in order.
Keep(s, S) == IF ToSet(s) \subseteq S THEN s ELSE SelectSeq(s, LAMBDA r : r \in S)

(***************************************************************************)
(* What has been handed to the output writer for each request, in order.   *)
(***************************************************************************)
Ended(trail, r) == \E i \in DOMAIN trail[r] : trail[r][i] \in Terminals

\* The lifecycle state a client reads off the frames of r: the first terminal frame
\* decides, later ones are discarded.  An accepted request counts as queued.
WirePhase(trail, accepted, r) ==
  LET kinds == trail[r]
      first(i) == /\ kinds[i] \in Terminals
                  /\ \A j \in 1..(i - 1) : kinds[j] \notin Terminals
  IN  CASE Ended(trail, r) -> kinds[CHOOSE i \in DOMAIN kinds : first(i)]
        [] ~Ended(trail, r) /\ \E i \in DOMAIN kinds : kinds[i] = "started" -> "running"
        [] OTHER -> IF r \in accepted THEN "queued" ELSE "created"

Record(trail, f) ==
  IF f.kind \in LifecycleKinds
  THEN [trail EXCEPT ![f.id] = Append(@, f.kind)]
  ELSE trail
=============================================================================
