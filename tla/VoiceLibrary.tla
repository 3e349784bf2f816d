---------------------------- MODULE VoiceLibrary ----------------------------
(***************************************************************************)
(* The voice library of worker/src/qwen_tts_bridge_worker/voice_library.py *)
(* and the native workers it starts (PreparedReference).                   *)
(*                                                                         *)
(* Command-line processes add voices to a registry and prepare native      *)
(* references for them.  They share the registry file, which is replaced   *)
(* atomically under a lock nobody waits for, the directory of managed      *)
(* entries and, through their workers, the prepared directories.  A        *)
(* command may be killed between any two changes of the file system; its   *)
(* worker then goes on without it.                                         *)
(*                                                                         *)
(* A prepared directory belongs to a voice and a binding: Dirs is the set  *)
(* of these pairs.  All voices are clones of one source WAV.  Validation   *)
(* of arguments, of audio files and of JSON is left out: a command that    *)
(* fails there has changed nothing.                                        *)
(***************************************************************************)
EXTENDS PreparedReference

CONSTANTS
  Clis,           \* command-line processes
  Voices, Bindings,
  InspectLimit,   \* entries _cleanup_orphaned_entries looks at
  MaxCommands     \* commands given in a behaviour

ASSUME VoiceAssumption ==
  /\ Dirs = Voices \X Bindings
  /\ None \notin Clis
  /\ InspectLimit \in Nat /\ MaxCommands \in Nat

VARIABLES
  registry,    \* voice -> NoRow or its row: the bindings in native_references
               \* and reference_audio_sha256
  entry,       \* voice -> state of entries/<id>, see Entries
  regLock,     \* who holds the registry lock
  cli,         \* the commands, see Idle
  commands,    \* commands given so far
  acked        \* what commands have reported as done: <<v, None>>, <<v, b>>

vars == <<prepVars, registry, entry, regLock, cli, commands, acked>>

NoRow == [refs |-> {}, sha |-> 0]

\* "torn" and "unmarked" entries are what an interrupted rmtree leaves, with and
\* without the .qtb-managed-entry file.
Entries == {"absent", "whole", "torn", "unmarked"}

\* row and hash: what prepare_voice has read before it started its worker;
\* alone: nothing else has happened since the command started.
Idle == [pc |-> "idle", v |-> None, b |-> None, row |-> NoRow, hash |-> 0,
         w |-> None, todo |-> {}, left |-> 0, alone |-> FALSE]

\* Some voices have been added before.
Init ==
  /\ PrepInit
  /\ \E old \in SUBSET Voices :
       /\ registry = [v \in Voices |-> IF v \in old THEN [refs |-> {}, sha |-> source]
                                      ELSE NoRow]
       /\ entry = [v \in Voices |-> IF v \in old THEN "whole" ELSE "absent"]
  /\ regLock = None
  /\ cli = [c \in Clis |-> Idle]
  /\ commands = 0
  /\ acked = {}

-----------------------------------------------------------------------------
(* Abbreviations *)

CAt(c, pc) == cli[c].pc = pc
CGoto(c, pc) == cli' = [cli EXCEPT ![c].pc = pc]
Target(c) == <<cli[c].v, cli[c].b>>

Disturb(f) == [c \in Clis |-> [f[c] EXCEPT !.alone = FALSE]]

\* The step of a command that nothing disturbed, and one in which a call fails.
Plain == UNCHANGED trouble

FailTo(c, pc) ==
  /\ Meets("fault")
  /\ cli' = Disturb([cli EXCEPT ![c].pc = pc])

Quiet == /\ \A c \in Clis : CAt(c, "idle")
         /\ \A w \in Workers : At(w, "off")

\* The worker process belongs to a command that waits for it.
Waited(w) == \E c \in Clis : cli[c].w = w

\* _select_native_reference: the row has a reference for the binding.
Selected(row, d) == d[2] \in row.refs

\* _verify_prepared_artifacts: size and SHA-256 of each artifact against the manifest.
ArtifactsVerify(d) == Loadable(dir[d], source)

\* verify_voice for the native backend: the row's reference, its manifest and
\* its artifacts against the WAV as it is now.
Status(row, d) ==
  IF ~Selected(row, d) \/ dir[d].manifest = NoManifest THEN "unprepared"
  ELSE IF dir[d].manifest.hash # source \/ row.sha \notin {0, source}
  THEN "prepared_stale"
  ELSE IF ~ArtifactsVerify(d) THEN "prepared_corrupt" ELSE "prepared_valid"

-----------------------------------------------------------------------------
(* add_voice *)

AddStart(c, v) ==
  /\ CAt(c, "idle") /\ commands < MaxCommands
  /\ commands' = commands + 1
  /\ cli' = [Disturb(cli) EXCEPT ![c] =
               [Idle EXCEPT !.pc = "lock", !.v = v, !.alone = Quiet]]
  /\ UNCHANGED <<prepVars, registry, entry, regLock, acked>>

\* _registry_lock does not wait.
AddLock(c) ==
  /\ CAt(c, "lock")
  /\ IF regLock = None
     THEN /\ regLock' = c
          /\ cli' = [cli EXCEPT ![c].pc = "clean", ![c].left = InspectLimit,
                                ![c].todo = {v \in Voices : entry[v] # "absent"}]
     ELSE CGoto(c, "error") /\ UNCHANGED regLock
  /\ UNCHANGED <<prepVars, registry, entry, commands, acked>>

\* Mutant: the row is not looked for.
OrphanAnyMarked(v) == entry[v] \in {"whole", "torn"}

\* A directory with the marker of add_voice and no row.
Orphan(v) == entry[v] \in {"whole", "torn"} /\ registry[v] = NoRow

\* _cleanup_orphaned_entries: one entry of the directory, in any order; an
\* orphan is moved to the quarantine, unless the rename fails.
AddClean(c) ==
  /\ CAt(c, "clean")
  /\ \E v \in cli[c].todo :
       /\ cli[c].left > 0
       /\ \/ /\ entry' = IF Orphan(v) THEN [entry EXCEPT ![v] = "absent"]
                         ELSE entry
             /\ cli' = [cli EXCEPT ![c].todo = @ \ {v}, ![c].left = @ - 1]
             /\ Plain
          \/ /\ Orphan(v) /\ Meets("fault")
             /\ cli' = Disturb([cli EXCEPT ![c].todo = @ \ {v},
                                           ![c].left = @ - 1])
             /\ UNCHANGED entry
  /\ UNCHANGED <<dir, work, source, registry, regLock, commands, acked>>

\* The voice exists, its directory exists, or the entry is staged.
AddCheck(c) ==
  /\ CAt(c, "clean")
  /\ cli[c].todo = {} \/ cli[c].left = 0
  /\ CGoto(c, IF registry[cli[c].v] # NoRow \/ entry[cli[c].v] # "absent"
              THEN "unlock error" ELSE "stage")
  /\ UNCHANGED <<prepVars, registry, entry, regLock, commands, acked>>

\* The staging directory has a name of its own and nobody else looks at it; its
\* rename makes the entry visible.
AddPublish(c) ==
  /\ CAt(c, "stage")
  /\ \/ /\ entry' = [entry EXCEPT ![cli[c].v] = "whole"]
        /\ CGoto(c, "register") /\ Plain
     \/ FailTo(c, "unlock error") /\ UNCHANGED entry
  /\ UNCHANGED <<dir, work, source, registry, regLock, commands, acked>>

\* _atomic_write_registry replaces the file or leaves it as it was.
AddRegister(c) ==
  /\ CAt(c, "register")
  /\ \/ /\ registry' = [registry EXCEPT ![cli[c].v] = [refs |-> {}, sha |-> source]]
        /\ CGoto(c, "unlock ok") /\ Plain
     \/ FailTo(c, "rollback") /\ UNCHANGED registry
  /\ UNCHANGED <<dir, work, source, entry, regLock, commands, acked>>

\* rmtree of the entry takes files away one by one, in any order.
AddRollback(c) ==
  /\ CAt(c, "rollback")
  /\ \/ /\ entry[cli[c].v] = "whole"
        /\ \E torn \in {"torn", "unmarked"} :
             entry' = [entry EXCEPT ![cli[c].v] = torn]
        /\ UNCHANGED cli
     \/ /\ entry[cli[c].v] # "whole"
        /\ entry' = [entry EXCEPT ![cli[c].v] = "absent"]
        /\ CGoto(c, "unlock error")
  /\ UNCHANGED <<prepVars, registry, regLock, commands, acked>>

-----------------------------------------------------------------------------
(* prepare_voice *)

\* The row is read and verified without the lock.
PrepareStart(c, v, b) ==
  /\ CAt(c, "idle") /\ commands < MaxCommands
  /\ registry[v] # NoRow
  /\ commands' = commands + 1
  /\ LET status == Status(registry[v], <<v, b>>)
     IN cli' = [Disturb(cli) EXCEPT ![c] =
          [Idle EXCEPT !.v = v, !.b = b, !.alone = Quiet,
             !.row = registry[v], !.hash = source,
             !.pc = CASE status = "prepared_valid" -> "ok"
                      [] status = "unprepared"     -> "launch"
                      [] OTHER                     -> "error"]]
  /\ UNCHANGED <<prepVars, registry, entry, regLock, acked>>

\* The temporary registry is written and the worker started.
PrepareLaunch(c) ==
  /\ CAt(c, "launch")
  /\ \E w \in Workers :
       /\ At(w, "off") /\ ~Waited(w)
       /\ Launched(w, Target(c), TRUE)
       /\ cli' = [cli EXCEPT ![c].pc = "wait", ![c].w = w]
  /\ UNCHANGED <<dir, source, trouble, registry, entry, regLock, commands,
                 acked>>

\* _run_native_prepare: the worker got ready and acknowledged its shutdown, or
\* it reported an error or ended.
PrepareReady(c) ==
  /\ CAt(c, "wait")
  /\ work[cli[c].w].pc \in {"ready", "failed", "off"}
  /\ work' = [work EXCEPT ![cli[c].w] = Off]
  /\ cli' = [cli EXCEPT ![c].pc = IF At(cli[c].w, "ready") THEN "check"
                                  ELSE "error",
                        ![c].w = None]
  /\ UNCHANGED <<dir, source, trouble, registry, entry, regLock, commands,
                 acked>>

\* A timeout or a broken pipe: the worker is killed.
PrepareTimeout(c) ==
  /\ CAt(c, "wait") /\ ~At(cli[c].w, "off") /\ Meets("crash")
  /\ Killed(cli[c].w)
  /\ cli' = Disturb([cli EXCEPT ![c].pc = "error", ![c].w = None])
  /\ UNCHANGED <<source, registry, entry, regLock, commands, acked>>

\* The manifest is there, the WAV is the one hashed before and the verification
\* through the temporary registry succeeds.
PrepareCheck(c) ==
  /\ CAt(c, "check")
  /\ CGoto(c, IF /\ source = cli[c].hash
                 /\ Status([cli[c].row EXCEPT !.refs = {cli[c].b}], Target(c))
                      = "prepared_valid"
              THEN "reg lock" ELSE "error")
  /\ UNCHANGED <<prepVars, registry, entry, regLock, commands, acked>>

PrepareLock(c) ==
  /\ CAt(c, "reg lock")
  /\ IF regLock = None
     THEN regLock' = c /\ CGoto(c, "write")
     ELSE CGoto(c, "error") /\ UNCHANGED regLock
  /\ UNCHANGED <<prepVars, registry, entry, commands, acked>>

\* Mutant: the row read at the start is written back.
PrepareWriteStale(c) ==
  /\ CAt(c, "write")
  /\ registry' = [registry EXCEPT ![cli[c].v] =
                    [cli[c].row EXCEPT !.refs = @ \cup {cli[c].b}]]
  /\ CGoto(c, "unlock ok") /\ Plain
  /\ UNCHANGED <<dir, work, source, entry, regLock, commands, acked>>

\* The row must be the one read at the start.
PrepareWrite(c) ==
  /\ CAt(c, "write")
  /\ \/ /\ registry[cli[c].v] # cli[c].row
        /\ CGoto(c, "unlock error") /\ Plain /\ UNCHANGED registry
     \/ /\ registry[cli[c].v] = cli[c].row
        /\ registry' = [registry EXCEPT ![cli[c].v].refs = @ \cup {cli[c].b}]
        /\ CGoto(c, "unlock ok") /\ Plain
     \/ FailTo(c, "unlock error") /\ UNCHANGED registry
  /\ UNCHANGED <<dir, work, source, entry, regLock, commands, acked>>

-----------------------------------------------------------------------------
(* The end of a command, faults, and other users of the directories *)

Unlock(c) ==
  /\ cli[c].pc \in {"unlock ok", "unlock error"}
  /\ regLock' = None
  /\ CGoto(c, IF CAt(c, "unlock ok") THEN "ok" ELSE "error")
  /\ UNCHANGED <<prepVars, registry, entry, commands, acked>>

Return(c) ==
  /\ cli[c].pc \in {"ok", "error"}
  /\ acked' = IF CAt(c, "ok") THEN acked \cup {Target(c)} ELSE acked
  /\ cli' = [cli EXCEPT ![c] = Idle]
  /\ UNCHANGED <<prepVars, registry, entry, regLock, commands>>

\* The command is killed: its lock is released, its worker goes on.
CliCrash(c) ==
  /\ ~CAt(c, "idle") /\ Meets("crash")
  /\ regLock' = IF regLock = c THEN None ELSE regLock
  /\ cli' = Disturb([cli EXCEPT ![c] = Idle])
  /\ UNCHANGED <<dir, work, source, registry, entry, commands, acked>>

\* A worker is started to serve a prepared voice, without prepare_if_missing
\* (external).
Serve(w) ==
  /\ At(w, "off") /\ ~Waited(w) /\ commands < MaxCommands
  /\ commands' = commands + 1
  /\ \E d \in Dirs : registry[d[1]] # NoRow /\ Launched(w, d, FALSE)
  /\ cli' = Disturb(cli)
  /\ UNCHANGED <<dir, source, trouble, registry, entry, regLock, acked>>

WorkerNext(w) ==
  /\ \/ WorkerStep(w)
     \/ Crash(w)
     \/ ~Waited(w) /\ Exit(w)
  /\ cli' = IF trouble' # trouble THEN Disturb(cli) ELSE cli
  /\ UNCHANGED <<registry, entry, regLock, commands, acked>>

EditSource ==
  /\ Edit
  /\ cli' = Disturb(cli)
  /\ UNCHANGED <<registry, entry, regLock, commands, acked>>

CliNext(c) ==
  \/ \E v \in Voices : AddStart(c, v)
  \/ AddLock(c) \/ AddClean(c) \/ AddCheck(c) \/ AddPublish(c)
  \/ AddRegister(c) \/ AddRollback(c)
  \/ \E v \in Voices, b \in Bindings : PrepareStart(c, v, b)
  \/ PrepareLaunch(c) \/ PrepareReady(c) \/ PrepareTimeout(c)
  \/ PrepareCheck(c) \/ PrepareLock(c) \/ PrepareWrite(c)
  \/ Unlock(c) \/ Return(c) \/ CliCrash(c)

Next ==
  \/ \E c \in Clis : CliNext(c)
  \/ \E w \in Workers : WorkerNext(w) \/ Serve(w)
  \/ EditSource

Spec == Init /\ [][Next]_vars

-----------------------------------------------------------------------------
(* Properties *)

\* Whatever was killed or failed on the way, a row of the registry has its
\* managed entry, and each binding it lists a manifest whose artifacts are all
\* there: serving workers read the registry without any lock.
RegisteredIsUsable ==
  \A v \in Voices : registry[v] # NoRow =>
    /\ entry[v] = "whole"
    /\ \A b \in registry[v].refs :
         /\ dir[<<v, b>>].manifest # NoManifest
         /\ \A k \in Kinds :
              File(dir[<<v, b>>].manifest.gen, k) \in dir[<<v, b>>].files

\* What a command reported as done stays in the registry although every command
\* rewrites the whole file from rows it read itself.
NoLostUpdate ==
  \A a \in acked :
    /\ registry[a[1]] # NoRow
    /\ a[2] # None => a[2] \in registry[a[1]].refs

\* A command that runs undisturbed succeeds whatever crashes, failures and
\* half-done publications came before it: stale lock files, markers, orphaned
\* entries and manifests without a registry row never block a retry.  Exempt
\* are a WAV replaced under a managed row, and an entry without its marker.
RetryWorks ==
  \A c \in Clis : CAt(c, "error") /\ cli[c].alone =>
    \/ cli[c].b = None /\ registry[cli[c].v] # NoRow
    \/ cli[c].b = None /\ entry[cli[c].v] = "unmarked"
    \/ cli[c].b # None /\ source > 1
=============================================================================
