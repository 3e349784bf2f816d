------------------------- MODULE PreparedReference -------------------------
(***************************************************************************)
(* Publication of a prepared voice reference by native workers:            *)
(* worker/native/qwentts/prepared_voice_reference.cpp and the part of      *)
(* NativeEngine that calls it while a worker starts (native_engine.cpp,    *)
(* preload_voice_registry).                                                *)
(*                                                                         *)
(* Worker processes share directories.  In one, a manifest is committed by *)
(* a rename after the artifacts it names; a marker names the generation    *)
(* that is being published, a lock file serialises publishers, and a       *)
(* worker that finds the marker of a dead publisher moves that generation  *)
(* aside.  Every system call that changes a directory is a step of its     *)
(* own, and the process may be killed between any two of them.             *)
(*                                                                         *)
(* Contents are abstract: a WAV is the number of its version, a hash is    *)
(* the version it was computed from, and a file is its generation and      *)
(* kind.  The codecs of .spk and .rvq files are not modelled here.         *)
(***************************************************************************)
EXTENDS Naturals, Sequences, FiniteSets

CONSTANTS
  Workers,        \* worker processes
  Dirs,           \* directories manifests are published in
  XVectorOnly,    \* the profile has no RVQ artifact
  Troubles,       \* what may happen: a failing call, a killed process, a user
                  \* who replaces the source WAV
  MaxTrouble      \* how often, altogether

ASSUME PreparedAssumption ==
  /\ "none" \notin Workers
  /\ XVectorOnly \in BOOLEAN
  /\ Troubles \subseteq {"fault", "crash", "edit"}
  /\ MaxTrouble \in Nat

VARIABLES
  dir,       \* the directories, see EmptyDir
  work,      \* the workers, see Off
  source,    \* version of the source WAV
  trouble    \* number of troubles so far

prepVars == <<dir, work, source, trouble>>

None == "none"
NoGen == 0
NoManifest == [gen |-> NoGen, hash |-> 0]

\* lockFile and holder: the lock file exists, and who has it open without
\* sharing.  marker: generation in .qtb-publication.incomplete.  recovered: the
\* contents of the .qtb-recovery-* directories.  made[g]: version of the WAV
\* that generation g was extracted from.
EmptyDir ==
  [lockFile |-> FALSE, holder |-> None, marker |-> NoGen,
   manifest |-> NoManifest, files |-> {}, recovered |-> {}, made |-> <<>>]

File(gen, kind) == [gen |-> gen, kind |-> kind]

\* then: why the worker takes the lock; next: where it goes after giving it up;
\* step: position in PublishOrder, RollbackOrder or the attempts at the lock.
Off ==
  [pc |-> "off", dir |-> None, prepare |-> FALSE, hash |-> 0, read |-> 0,
   gen |-> NoGen, step |-> 1, then |-> None, next |-> None]

PrepInit ==
  /\ dir = [d \in Dirs |-> EmptyDir]
  /\ work = [w \in Workers |-> Off]
  /\ source = 1
  /\ trouble = 0

-----------------------------------------------------------------------------
(* Abbreviations *)

\* A trouble of this kind happens in the step.
Meets(kind) ==
  kind \in Troubles /\ trouble < MaxTrouble /\ trouble' = trouble + 1

Here(w) == dir[work[w].dir]
At(w, pc) == work[w].pc = pc

Goto(w, pc) == work' = [work EXCEPT ![w].pc = pc]
ChangeDir(w, d) == dir' = [dir EXCEPT ![work[w].dir] = d]

\* Give the lock up and go on at pc.
Leave(w, pc) == work' = [work EXCEPT ![w].pc = "close", ![w].next = pc]

TakeLock(w, why) ==
  work' = [work EXCEPT ![w].pc = "create", ![w].then = why, ![w].step = 1]

Kinds == IF XVectorOnly THEN {"spk"} ELSE {"spk", "rvq"}

\* load_prepared_voice_reference: the manifest matches the hash in the worker's
\* context and names artifacts that are there.
Loadable(d, hash) ==
  /\ d.manifest # NoManifest
  /\ d.manifest.hash = hash
  /\ \A k \in Kinds : File(d.manifest.gen, k) \in d.files

-----------------------------------------------------------------------------
(* PublicationLock *)

\* CREATE_NEW with no sharing.
LockCreate(w) ==
  /\ At(w, "create")
  /\ IF Here(w).lockFile
     THEN Goto(w, "probe") /\ UNCHANGED dir
     ELSE /\ ChangeDir(w, [Here(w) EXCEPT !.lockFile = TRUE, !.holder = w])
          /\ Goto(w, "recover")
  /\ UNCHANGED <<source, trouble>>

\* Opening the file works only if nobody has it open; a file that has gone
\* meanwhile is reported as an active publisher, too.
LockProbe(w) ==
  /\ At(w, "probe")
  /\ Goto(w, IF Here(w).lockFile /\ Here(w).holder = None
             THEN "unlink" ELSE "failed")
  /\ UNCHANGED <<dir, source, trouble>>

\* Mutant: the stale lock file is removed by its name, whoever has it open.
LockUnlinkByName(w) ==
  /\ At(w, "unlink")
  /\ ChangeDir(w, [Here(w) EXCEPT !.lockFile = FALSE, !.holder = None])
  /\ Goto(w, "create")
  /\ UNCHANGED <<source, trouble>>

\* DeleteFileW fails if the file has gone or somebody else has opened it since.
LockUnlink(w) ==
  /\ At(w, "unlink")
  /\ IF Here(w).lockFile /\ Here(w).holder = None
     THEN /\ ChangeDir(w, [Here(w) EXCEPT !.lockFile = FALSE])
          /\ work' = [work EXCEPT ![w].pc = IF work[w].step < 3 THEN "create"
                                            ELSE "failed",
                                  ![w].step = @ + 1]
     ELSE Goto(w, "failed") /\ UNCHANGED dir
  /\ UNCHANGED <<source, trouble>>

\* The destructor: CloseHandle, then DeleteFileW, which fails if another worker
\* has opened the file in between.
LockClose(w) ==
  /\ At(w, "close")
  /\ ChangeDir(w, [Here(w) EXCEPT !.holder = None])
  /\ Goto(w, "delete")
  /\ UNCHANGED <<source, trouble>>

LockDelete(w) ==
  /\ At(w, "delete")
  /\ ChangeDir(w, [Here(w) EXCEPT !.lockFile = @ /\ Here(w).holder # None])
  /\ Goto(w, work[w].next)
  /\ UNCHANGED <<source, trouble>>

-----------------------------------------------------------------------------
(* reconcile, recover and finalize *)

\* prepared_context hashes the WAV; reconcile_prepared_publication.
Reconcile(w) ==
  /\ At(w, "reconcile")
  /\ work' = [work EXCEPT ![w].hash = source,
                          ![w].pc = IF Here(w).marker = NoGen THEN "look"
                                    ELSE "create",
                          ![w].then = "reconcile", ![w].step = 1]
  /\ UNCHANGED <<dir, source, trouble>>

\* The owned files of a generation, in the order in which they are moved.
RecoverOrder == <<"spk", "rvq", "spk.tmp", "rvq.tmp", "manifest.tmp">>

Remaining(d) ==
  {i \in 1..Len(RecoverOrder) : File(d.marker, RecoverOrder[i]) \in d.files}

\* One rename of recover_incomplete_publication_locked; the marker is last.
Quarantined(d) ==
  IF Remaining(d) = {}
  THEN [d EXCEPT !.recovered = @ \cup {File(d.marker, "marker")},
                 !.marker = NoGen]
  ELSE LET i == CHOOSE i \in Remaining(d) : \A j \in Remaining(d) : i <= j
           f == File(d.marker, RecoverOrder[i])
       IN [d EXCEPT !.files = @ \ {f}, !.recovered = @ \cup {f}]

\* There is no marker, or the manifest it announced was committed.
NothingToRecover(d) == d.marker = NoGen \/ d.manifest # NoManifest

Recover(w) ==
  /\ At(w, "recover")
  /\ ~(work[w].then = "finalize" /\ Here(w).manifest = NoManifest)
  /\ ~NothingToRecover(Here(w))
  /\ ChangeDir(w, Quarantined(Here(w)))
  /\ UNCHANGED <<work, source, trouble>>

\* What follows the recovery: reconcile returns, finalize removes the marker,
\* persist refuses to overwrite or names a new generation.
Recovered(w) ==
  LET d == Here(w)
      g == Len(d.made) + 1
  IN /\ At(w, "recover")
     /\ NothingToRecover(d) \/ work[w].then = "finalize"
     /\ CASE work[w].then = "reconcile" ->
               Leave(w, "look") /\ UNCHANGED dir
          [] work[w].then = "finalize" ->
               IF d.manifest = NoManifest
               THEN Leave(w, "failed") /\ UNCHANGED dir
               ELSE /\ ChangeDir(w, [d EXCEPT !.marker = NoGen])
                    /\ Leave(w, "ready")
          [] OTHER ->
               IF d.manifest # NoManifest
               THEN Leave(w, "failed") /\ UNCHANGED dir
               ELSE /\ ChangeDir(w, [d EXCEPT !.made = Append(@, work[w].read)])
                    /\ work' = [work EXCEPT ![w].pc = "publish", ![w].gen = g,
                                            ![w].step = 1]
     /\ UNCHANGED <<source, trouble>>

-----------------------------------------------------------------------------
(* preload_voice_registry, for the profile that names this directory *)

\* The manifest is loaded if it is there, and the marker then looked at again.
Look(w) ==
  /\ At(w, "look")
  /\ IF Here(w).manifest # NoManifest
     THEN IF ~Loadable(Here(w), work[w].hash) THEN Goto(w, "failed")
          ELSE IF Here(w).marker = NoGen THEN Goto(w, "ready")
          ELSE TakeLock(w, "finalize")
     ELSE Goto(w, IF work[w].prepare THEN "extract" ELSE "failed")
  /\ UNCHANGED <<dir, source, trouble>>

\* read_mono_24k_wav and extract_voice_ref.
Extract(w) ==
  /\ At(w, "extract")
  /\ work' = [work EXCEPT ![w].read = source, ![w].pc = "context"]
  /\ UNCHANGED <<dir, source, trouble>>

\* prepared_context hashes the WAV once more; persist takes the lock.
Context(w) ==
  /\ At(w, "context")
  /\ work' = [work EXCEPT ![w].hash = source, ![w].pc = "create",
                          ![w].then = "persist", ![w].step = 1]
  /\ UNCHANGED <<dir, source, trouble>>

-----------------------------------------------------------------------------
(* persist_prepared_voice_reference *)

\* Mutant: the manifest is renamed before the artifacts it names.
PublishOrderManifestFirst ==
  <<"write marker", "marker", "write", "manifest">>
    \o (IF XVectorOnly THEN <<"spk", "unmark">> ELSE <<"spk", "rvq", "unmark">>)

PublishOrder ==
  <<"write marker", "marker", "write">>
    \o (IF XVectorOnly THEN <<"spk">> ELSE <<"spk", "rvq">>)
    \o <<"manifest", "unmark">>

\* The temporary files of a generation.
Temporaries(gen) ==
  {File(gen, t) : t \in IF XVectorOnly THEN {"spk.tmp", "manifest.tmp"}
                        ELSE {"spk.tmp", "rvq.tmp", "manifest.tmp"}}

Renamed(d, gen, temporary, kind) ==
  [d EXCEPT !.files = (@ \ {File(gen, temporary)}) \cup {File(gen, kind)}]

\* The directory after one operation of the publication of a generation.
Published(d, gen, hash, op) ==
  CASE op = "write marker"   -> [d EXCEPT !.files = @ \cup {File(gen, "marker.tmp")}]
    [] op = "marker"         -> [d EXCEPT !.files = @ \ {File(gen, "marker.tmp")},
                                          !.marker = gen]
    [] op = "write"          -> [d EXCEPT !.files = @ \cup Temporaries(gen)]
    [] op = "spk"            -> Renamed(d, gen, "spk.tmp", "spk")
    [] op = "rvq"            -> Renamed(d, gen, "rvq.tmp", "rvq")
    [] op = "manifest"       -> [d EXCEPT !.files = @ \ {File(gen, "manifest.tmp")},
                                          !.manifest = [gen |-> gen, hash |-> hash]]
    [] OTHER                 -> [d EXCEPT !.marker = NoGen]

\* The last operation is followed by a load under the same lock.
Publish(w) ==
  LET r == work[w]
      d == Published(Here(w), r.gen, r.hash, PublishOrder[r.step])
  IN /\ At(w, "publish")
     /\ ChangeDir(w, d)
     /\ IF r.step = Len(PublishOrder)
        THEN Leave(w, IF Loadable(d, r.hash) THEN "ready" ELSE "failed")
        ELSE work' = [work EXCEPT ![w].step = @ + 1]
     /\ UNCHANGED <<source, trouble>>

\* An operation up to the manifest's rename fails, a write possibly after some
\* files have been created; the handler starts to roll back.
PublishFails(w) ==
  LET r == work[w]
      op == PublishOrder[r.step]
  IN /\ At(w, "publish") /\ Meets("fault")
     /\ op # "unmark"
     /\ \E made \in SUBSET (IF op = "write" THEN Temporaries(r.gen)
                            ELSE IF op = "write marker"
                            THEN {File(r.gen, "marker.tmp")} ELSE {}) :
          ChangeDir(w, [Here(w) EXCEPT !.files = @ \cup made])
     /\ work' = [work EXCEPT ![w].pc = "rollback", ![w].step = 1]
     /\ UNCHANGED source

RollbackOrder ==
  <<"spk.tmp", "rvq.tmp", "manifest.tmp", "spk", "rvq", "marker", "marker.tmp">>

\* remove_if_exists of the handler's next file; an error is swallowed, and the
\* file stays.
Rollback(w) ==
  LET r == work[w]
      name == RollbackOrder[r.step]
      gone == IF name = "marker" THEN [Here(w) EXCEPT !.marker = NoGen]
              ELSE [Here(w) EXCEPT !.files = @ \ {File(r.gen, name)}]
  IN /\ At(w, "rollback")
     /\ \/ ChangeDir(w, gone) /\ UNCHANGED trouble
        \/ Meets("fault") /\ gone # Here(w) /\ UNCHANGED dir
     /\ IF r.step = Len(RollbackOrder) THEN Leave(w, "failed")
        ELSE work' = [work EXCEPT ![w].step = @ + 1]
     /\ UNCHANGED source

-----------------------------------------------------------------------------
(* Failures, the user and the life of a worker *)

\* A system call or the extraction fails: an exception leaves load().
Throws(w) ==
  /\ Meets("fault")
  /\ \/ At(w, "create") /\ Goto(w, "failed")
     \/ At(w, "look") /\ Goto(w, "failed")
     \/ At(w, "extract") /\ Goto(w, "failed")
     \/ At(w, "recover") /\ Leave(w, "failed")
  /\ UNCHANGED <<dir, source>>

Running(w) == work[w].pc \notin {"off", "ready", "failed"}

\* The process is killed: the system closes its handles.
Killed(w) ==
  /\ ChangeDir(w, [Here(w) EXCEPT !.holder = IF @ = w THEN None ELSE @])
  /\ work' = [work EXCEPT ![w] = Off]

Crash(w) ==
  /\ Running(w) /\ Meets("crash")
  /\ Killed(w)
  /\ UNCHANGED source

\* A worker is launched with a registry that names directory d.
Launched(w, d, prepare) ==
  work' = [work EXCEPT ![w] = [Off EXCEPT !.pc = "reconcile", !.dir = d,
                                          !.prepare = prepare]]

\* The process ends after the session, or because load() threw.
Exit(w) ==
  /\ work[w].pc \in {"ready", "failed"}
  /\ work' = [work EXCEPT ![w] = Off]
  /\ UNCHANGED <<dir, source, trouble>>

\* The user replaces the WAV (external).
Edit ==
  /\ Meets("edit")
  /\ source' = source + 1
  /\ UNCHANGED <<dir, work>>

WorkerStep(w) ==
  \/ LockCreate(w) \/ LockProbe(w) \/ LockUnlink(w) \/ LockClose(w)
  \/ LockDelete(w) \/ Reconcile(w) \/ Recover(w) \/ Recovered(w)
  \/ Look(w) \/ Extract(w) \/ Context(w) \/ Publish(w) \/ PublishFails(w)
  \/ Rollback(w) \/ Throws(w)

PrepNext ==
  \/ \E w \in Workers :
       \/ WorkerStep(w) \/ Crash(w) \/ Exit(w)
       \/ /\ At(w, "off")
          /\ \E d \in Dirs, prepare \in BOOLEAN : Launched(w, d, prepare)
          /\ UNCHANGED <<dir, source, trouble>>
  \/ Edit

PrepSpec == PrepInit /\ [][PrepNext]_prepVars

-----------------------------------------------------------------------------
(* Properties *)

InSection(w) == work[w].pc \in {"recover", "publish", "rollback", "close"}

\* Two workers never publish, recover or roll back in one directory at a time,
\* whatever lock files killed workers have left: the probe and the two deletions
\* of PublicationLock race with each other and with its destructor.
OnePublisher ==
  \A v, w \in Workers :
    InSection(v) /\ InSection(w) /\ work[v].dir = work[w].dir => v = w
=============================================================================
