--------------------------- MODULE WaveOutPlayer ---------------------------
(***************************************************************************)
(* The PCM sink of qwen_tts_play: WaveOutPlayer of                         *)
(* src/qwen_tts_bridge/playback/winmm_playback.cpp.                        *)
(*                                                                         *)
(* The player has no thread of its own.  Every method locks mutex_ and     *)
(* gives it up only to sleep in one of three polling loops, so a method is *)
(* one step, or one step per turn of its loop.  The operators here are     *)
(* those steps: each takes the state p of the player and yields the set of *)
(* outcomes [p, out] the driver allows, out being what the caller sees:    *)
(*   "done"  the method returned          "late"  enqueue dropped the chunk*)
(*   "wait"  the loop sleeps, unlocked    "threw" an exception             *)
(*                                                                         *)
(* A chunk is one frame long: a record [req, n, ep] of the request, the    *)
(* chunk's number in it (0 for the tail an interruption re-queues) and the *)
(* epoch it was submitted under.  The format never changes within a run of *)
(* the program, so format validation and metrics are left out.             *)
(***************************************************************************)
EXTENDS Naturals, Sequences, FiniteSets, SequencesExt

CONSTANTS
  QueueLimit,     \* kMaxQueuedAudioMs, in chunks
  Prebuffers      \* the values prebuffer_chunks_ may have

ASSUME PlayerAssumption == QueueLimit \in Nat /\ Prebuffers \subseteq Nat \ {0}

Sinks == {"WaveOut", "Mock", "Disabled"}

\* The members the methods below read and write.  returned counts the buffers
\* at the head of buffers whose header the driver has marked WHDR_DONE; driver
\* is the set of chunks whose header is prepared, that is, whose memory the
\* driver may touch; leaked is the storage given up on purpose; faults bounds
\* the driver calls that may still fail.
NewPlayer(sink, prebuffer, faults) ==
  [sink |-> sink, prebuffer |-> prebuffer, epoch |-> 1,
   open |-> FALSE, started |-> FALSE, buffers |-> <<>>, returned |-> 0,
   pending |-> <<>>, orphaned |-> {}, driver |-> {}, leaked |-> {},
   unhealthy |-> FALSE, faults |-> faults]

Outcome(p, out) == [p |-> p, out |-> out]

MayFail(p) == p.faults > 0
Failed(p) == [p EXCEPT !.faults = @ - 1]
FailedUnhealthy(p) == [p EXCEPT !.faults = @ - 1, !.unhealthy = TRUE]

\* Storage that is still allocated.
Alive(p) == Range(p.buffers) \cup Range(p.pending) \cup p.orphaned \cup p.leaked

-----------------------------------------------------------------------------
(* reap_finished_locked: unprepare and erase what the driver has returned; *)
(* a failing unprepare leaves its buffer and the later ones in place.      *)

\* The first k buffers unprepared and erased.
Reaped(p, k) ==
  [p EXCEPT !.buffers = SubSeq(@, k + 1, Len(@)),
            !.returned = @ - k,
            !.driver = @ \ {p.buffers[i] : i \in 1..k}]

Reap(p) ==
  {Outcome(Reaped(p, p.returned), "done")}
    \cup {Outcome(FailedUnhealthy(Reaped(p, k)), "threw") :
            k \in IF MayFail(p) THEN 0..(p.returned - 1) ELSE {}}

-----------------------------------------------------------------------------
(* flush_pending_locked: open the device if need be and submit the pending *)
(* buffers in order.                                                       *)

\* The first k pending buffers prepared and written.
Submitted(p, k) ==
  [p EXCEPT !.buffers = @ \o SubSeq(p.pending, 1, k),
            !.pending = SubSeq(@, k + 1, Len(@)),
            !.driver = IF p.sink = "WaveOut"
                       THEN @ \cup {p.pending[i] : i \in 1..k} ELSE @,
            !.open = @ \/ p.sink = "WaveOut",
            !.started = @ \/ k > 0]

\* waveOutWrite failed for buffer k + 1 and so did its waveOutUnprepareHeader:
\* the driver may still own the buffer.
Orphaned(p, k) ==
  LET q == Submitted(p, k)
      b == Head(q.pending)
  IN FailedUnhealthy([q EXCEPT !.pending = Tail(@),
                               !.orphaned = @ \cup {b},
                               !.driver = @ \cup {b}])

\* Prepare or write failed for buffer k + 1, which goes back to the head of
\* pending; or the device did not open.
FlushFailures(p) ==
  {Outcome(Failed(Submitted(p, k)), "threw") : k \in 0..(Len(p.pending) - 1)}
    \cup (IF p.sink = "WaveOut"
          THEN {Outcome(Orphaned(p, k), "threw") :
                  k \in 0..(Len(p.pending) - 1)}
          ELSE {})
    \cup (IF p.sink = "WaveOut" /\ ~p.open
          THEN {Outcome(Failed(p), "threw")} ELSE {})

Flush(p) ==
  IF p.pending = <<>> THEN {Outcome(p, "done")}
  ELSE {Outcome(Submitted(p, Len(p.pending)), "done")}
         \cup (IF MayFail(p) THEN FlushFailures(p) ELSE {})

-----------------------------------------------------------------------------
(* enqueue *)

Queued(p) == Len(p.buffers) + Len(p.pending)

\* The chunk is admitted; it is submitted at once when playback has started or
\* the prebuffer is full.
Push(p, c) ==
  LET q == [p EXCEPT !.pending = Append(@, c)]
  IN IF q.started \/ Len(q.pending) >= q.prebuffer
     THEN Flush(q) ELSE {Outcome(q, "done")}

\* One turn of the backpressure loop and what follows it.  After the reap no
\* returned buffer is left, so the audio ahead of the playout cursor and the
\* duration of the queue are the same number of chunks.
Admit(p, c) ==
  UNION {IF r.out = "threw" THEN {r}
         ELSE IF r.p.started /\ Queued(r.p) >= QueueLimit
              THEN {Outcome(r.p, "wait")}
              ELSE Push(r.p, c) : r \in Reap(p)}

\* Mutant: after the sleep the epoch is not looked at again.
EnqueueResumesBlind(p, c, resumed) ==
  IF p.sink = "Disabled" THEN {Outcome(p, "done")}
  ELSE IF ~resumed /\ p.unhealthy THEN {Outcome(p, "threw")}
  ELSE IF ~resumed /\ c.ep # p.epoch THEN {Outcome(p, "late")}
  ELSE Admit(p, c)

\* resumed: the calling thread comes back from the sleep of the loop, where only
\* the epoch is looked at again.
Enqueue(p, c, resumed) ==
  IF p.sink = "Disabled" THEN {Outcome(p, "done")}
  ELSE IF ~resumed /\ p.unhealthy THEN {Outcome(p, "threw")}
  ELSE IF c.ep # p.epoch THEN {Outcome(p, "late")}
  ELSE Admit(p, c)

-----------------------------------------------------------------------------
(* reset_locked, in two steps around its sleep *)

\* clear_pending_locked, playback_started_ and the stream position.
Cleared(p) == [p EXCEPT !.pending = <<>>, !.started = FALSE]

\* One turn of the loop that waits for the driver to return every buffer.
DrainTurn(p) ==
  UNION {IF r.out = "threw" THEN {r}
         ELSE IF r.p.buffers = <<>> THEN {Outcome(Cleared(r.p), "done")}
         ELSE {Outcome(r.p, "wait")} : r \in Reap(p)}

\* waveOutReset is called before the loop.
ResetDevice(p) ==
  (IF p.buffers = <<>> THEN {Outcome(Cleared(p), "done")} ELSE DrainTurn(p))
    \cup (IF MayFail(p) THEN {Outcome(FailedUnhealthy(p), "threw")} ELSE {})

\* The mock sink drops its buffers at once and may inject a reset failure.
ResetMock(p) ==
  {Outcome([Cleared(p) EXCEPT !.buffers = <<>>, !.returned = 0], "done")}
    \cup (IF MayFail(p) THEN {Outcome(FailedUnhealthy(p), "threw")} ELSE {})

\* The new epoch takes effect before anything can fail.
ResetBegin(p0) ==
  LET p == [p0 EXCEPT !.epoch = @ + 1]
  IN IF p.unhealthy THEN {Outcome(p, "threw")}
     ELSE IF p.sink = "Disabled" THEN {Outcome(p, "done")}
     ELSE IF p.sink = "Mock" THEN ResetMock(p)
     ELSE IF ~p.open THEN {Outcome(Cleared(p), "done")}
     ELSE ResetDevice(p)

\* Mutant: the wait has no deadline.
ResetResumeForEver(p, ep) ==
  IF p.epoch # ep THEN {Outcome(p, "done")}
  ELSE IF p.buffers = <<>> THEN {Outcome(Cleared(p), "done")} ELSE DrainTurn(p)

\* The caller wakes up: a newer reset has taken over, or it looks again, or its
\* two seconds have passed.
ResetResume(p, ep) ==
  IF p.epoch # ep THEN {Outcome(p, "done")}
  ELSE IF p.buffers = <<>> THEN {Outcome(Cleared(p), "done")}
  ELSE DrainTurn(p)
         \cup {Outcome([r.p EXCEPT !.unhealthy = TRUE], "threw") :
                 r \in {r \in DrainTurn(p) : r.out = "wait"}}

\* reset_if_epoch: a caller that no longer owns the epoch changes nothing.
ResetIfEpoch(p, ep) ==
  IF p.epoch # ep THEN {Outcome(p, "done")} ELSE ResetBegin(p)

-----------------------------------------------------------------------------
(* interrupt_with_fade *)

NoTail == 0

\* The request whose audio is at the playout cursor, as interruption_tail_locked
\* finds it once the returned buffers are reaped; NoTail when nothing plays, no
\* fade is asked for or the driver does not tell its position.
Tails(p, fade) ==
  IF fade /\ p.sink # "Disabled" /\ p.started /\ p.buffers # <<>>
  THEN {Head(p.buffers).req} \cup (IF p.sink = "WaveOut" THEN {NoTail} ELSE {})
  ELSE {NoTail}

\* The reap may throw before reset_locked has bumped the epoch.  tail is the
\* request of the faded chunk that the caller queues again.
Interrupt(p, fade) ==
  UNION {IF r.out = "threw" THEN {[p |-> r.p, out |-> "threw", tail |-> NoTail]}
         ELSE {[p |-> x.p, out |-> x.out, tail |-> tail] :
                 x \in ResetBegin(r.p), tail \in Tails(r.p, fade)}
         : r \in IF p.sink = "Disabled" THEN {Outcome(p, "done")} ELSE Reap(p)}

InterruptIfEpoch(p, ep, fade) ==
  IF p.epoch # ep THEN {[p |-> p, out |-> "done", tail |-> NoTail]}
  ELSE Interrupt(p, fade)

-----------------------------------------------------------------------------
(* wait_until_idle *)

IdleTurn(p) ==
  UNION {IF r.out = "threw" \/ r.p.buffers = <<>> THEN {r}
         ELSE {Outcome(r.p, "wait"), Outcome(r.p, "threw")} : r \in Reap(p)}

\* Mutant: prebuffered chunks are not submitted.
WaitUntilIdleUnflushed(p, resumed) ==
  IF p.sink = "Disabled" THEN {Outcome(p, "done")}
  ELSE IF ~resumed /\ p.unhealthy THEN {Outcome(p, "threw")} ELSE IdleTurn(p)

\* The timeout leaves the player healthy.
WaitUntilIdle(p, resumed) ==
  IF p.sink = "Disabled" THEN {Outcome(p, "done")}
  ELSE IF resumed THEN IdleTurn(p)
  ELSE IF p.unhealthy THEN {Outcome(p, "threw")}
  ELSE UNION {IF r.out = "threw" THEN {r} ELSE IdleTurn(r.p) : r \in Flush(p)}

-----------------------------------------------------------------------------
(* close_noexcept and the destruction of the members *)

\* Mutant: the buffers whose unprepare failed are forgotten.
AbandonForgetsOrphaned(p) ==
  [p EXCEPT !.leaked = @ \cup Range(p.buffers) \cup Range(p.pending),
            !.buffers = <<>>, !.returned = 0, !.pending = <<>>,
            !.orphaned = {}, !.open = FALSE]

\* abandon_driver_owned_resources_locked: leak what the driver may still use.
Abandon(p) ==
  [p EXCEPT !.leaked = @ \cup Range(p.buffers) \cup Range(p.pending)
                         \cup p.orphaned,
            !.buffers = <<>>, !.returned = 0, !.pending = <<>>,
            !.orphaned = {}, !.open = FALSE]

\* The members are destroyed: what was not leaked is freed.
Destroyed(p) ==
  [p EXCEPT !.buffers = <<>>, !.returned = 0, !.pending = <<>>, !.orphaned = {},
            !.open = FALSE]

\* After the reset of the destructor has returned or thrown.
Close(p, resetOk) ==
  IF ~resetOk \/ p.unhealthy
  THEN {Destroyed(Abandon([p EXCEPT !.unhealthy = TRUE]))}
  ELSE {Destroyed(p)}
         \cup (IF MayFail(p) /\ (p.open \/ p.sink = "Mock")
               THEN {Destroyed(Abandon(FailedUnhealthy(p)))} ELSE {})

-----------------------------------------------------------------------------
(* The driver (external): it plays and returns buffers in order.           *)
CanReturn(p) == p.returned < Len(p.buffers)
Returned(p) == [p EXCEPT !.returned = @ + 1]
=============================================================================
