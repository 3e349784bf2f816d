------------------------- MODULE VoiceLibraryProofs -------------------------
(***************************************************************************)
(* Three facts about VoiceLibrary for any number of commands, workers,     *)
(* voices and bindings, with calls that fail and processes that are killed *)
(* at any point: PublicationLock admits one publisher per directory, no    *)
(* change a command has reported is lost from the registry, and what the   *)
(* registry lists can be loaded.                                           *)
(***************************************************************************)
EXTENDS VoiceLibrary, TLAPS

-----------------------------------------------------------------------------
(* The registry lock and what a command knows while it holds it *)

\* The types the argument needs.
Row == [refs : SUBSET Bindings, sha : Nat]

Positions ==
  {"idle", "lock", "clean", "stage", "register", "rollback", "launch", "wait",
   "check", "reg lock", "write", "unlock ok", "unlock error", "ok", "error"}

Command ==
  [pc : Positions, v : Voices \cup {None}, b : Bindings \cup {None}, row : Row,
   hash : Nat, w : Workers \cup {None}, todo : SUBSET Voices, left : Nat,
   alone : BOOLEAN]

Types ==
  /\ registry \in [Voices -> Row]
  /\ cli \in [Clis -> Command]
  /\ source \in Nat \ {0}

\* Positions at which a command holds the registry lock.
Holding == {"clean", "stage", "register", "rollback", "write", "unlock ok",
            "unlock error"}

\* A pair of a voice and a binding, or None for the voice alone, is recorded.
Recorded(v, b) ==
  /\ v \in Voices /\ registry[v] # NoRow
  /\ b # None => b \in registry[v].refs

\* A command that works knows its voice, a prepare command its binding as well.
Aimed(c) ==
  /\ ~CAt(c, "idle") => cli[c].v \in Voices
  /\ cli[c].pc \in {"launch", "wait", "check", "reg lock", "write"}
       => cli[c].b \in Bindings
  /\ cli[c].pc \in {"lock", "clean", "stage", "register", "rollback"}
       => cli[c].b = None

Locked(c) == cli[c].pc \in Holding => regLock = c

\* A voice that is about to be registered has no row.
NewVoice(c) == cli[c].pc \in {"stage", "register"} => registry[cli[c].v] = NoRow

\* What a command is about to report is in the registry.
Done(c) == cli[c].pc \in {"unlock ok", "ok"} => Recorded(cli[c].v, cli[c].b)

Sound(c) == Aimed(c) /\ Locked(c) /\ NewVoice(c) /\ Done(c)

\* NoLostUpdate, for voices that exist.
Kept == \A a \in acked : Recorded(a[1], a[2])

CommandInv == Types /\ (\A c \in Clis : Sound(c)) /\ Kept

\* Before the first command nothing is claimed of anyone.
LEMMA CommandInit == Init => CommandInv
  <1> SUFFICES ASSUME Init PROVE CommandInv
    OBVIOUS
  <1>1. source = 1 /\ acked = {} /\ cli = [c \in Clis |-> Idle]
    BY DEF Init, PrepInit
  <1>2. Idle \in Command /\ Idle.pc = "idle"
    BY DEF Idle, Command, Positions, NoRow, Row
  <1>3. PICK old \in SUBSET Voices :
          registry = [v \in Voices |-> IF v \in old THEN [refs |-> {}, sha |-> source]
                                      ELSE NoRow]
    BY DEF Init
  <1>4. registry \in [Voices -> Row]
    BY <1>1, <1>3 DEF Row, NoRow
  <1>5. Types
    BY <1>1, <1>2, <1>4 DEF Types
  <1>6. \A c \in Clis : cli[c].pc = "idle"
    BY <1>1, <1>2
  <1>7. \A c \in Clis : Sound(c)
    BY <1>6 DEF Sound, Aimed, Locked, NewVoice, Done, CAt, Holding
  <1> QED BY <1>1, <1>5, <1>7 DEF CommandInv, Kept

-----------------------------------------------------------------------------
(* A step of one command *)

\* The other commands go on where they were.
Others(c) ==
  \A k \in Clis \ {c} :
    /\ cli'[k].pc = cli[k].pc /\ cli'[k].v = cli[k].v /\ cli'[k].b = cli[k].b
    /\ cli'[k].row = cli[k].row

\* Rows gain references and are never removed.
Grows ==
  \A v \in Voices : registry[v] # NoRow =>
    registry'[v] # NoRow /\ registry[v].refs \subseteq registry'[v].refs

\* One command moves, the registry changes only under its lock and only grows,
\* and what it reports is recorded: then nothing that holds of the others is lost.
LEMMA OneCommandMoves ==
  ASSUME CommandInv, NEW c \in Clis,
         Types', Others(c), Sound(c)',
         \A k \in Clis \ {c} : regLock = k => regLock' = k,
         registry' = registry \/ (Grows /\ regLock = c),
         \A a \in acked' : a \in acked \/ (Recorded(a[1], a[2]))'
  PROVE  CommandInv'
  <1>1. \A v \in Voices : \A b : Recorded(v, b) => Recorded(v, b)'
    BY DEF Recorded, Grows
  <1>2. ASSUME NEW k \in Clis \ {c} PROVE Sound(k)'
    <2>1. Sound(k)
      BY DEF CommandInv
    <2>2. cli'[k].pc = cli[k].pc /\ cli'[k].v = cli[k].v /\ cli'[k].b = cli[k].b
      BY DEF Others
    <2>3. Aimed(k)' /\ Locked(k)'
      BY <2>1, <2>2 DEF Sound, Aimed, Locked, CAt
    <2>4. NewVoice(k)'
      BY <2>1, <2>2 DEF Sound, NewVoice, Locked, Holding
    <2>5. Done(k)'
      BY <1>1, <2>1, <2>2 DEF Sound, Done, Recorded
    <2> QED BY <2>3, <2>4, <2>5 DEF Sound
  <1>3. Kept'
    BY <1>1 DEF CommandInv, Kept, Recorded
  <1> QED BY <1>2, <1>3 DEF CommandInv

\* Setting alone to FALSE changes nothing the invariant speaks of.
LEMMA DisturbOnly ==
  ASSUME NEW f \in [Clis -> Command]
  PROVE  /\ Disturb(f) \in [Clis -> Command]
         /\ \A k \in Clis : /\ Disturb(f)[k].pc = f[k].pc /\ Disturb(f)[k].v = f[k].v
                            /\ Disturb(f)[k].b = f[k].b /\ Disturb(f)[k].row = f[k].row
  BY DEF Disturb, Command

\* A command gets a new record, and all of them may be disturbed.
LEMMA CommandSet ==
  ASSUME Types, NEW c \in Clis, NEW r \in Command,
         \/ cli' = [cli EXCEPT ![c] = r]
         \/ cli' = Disturb([cli EXCEPT ![c] = r])
         \/ cli' = [Disturb(cli) EXCEPT ![c] = r]
  PROVE  /\ cli' \in [Clis -> Command] /\ Others(c)
         /\ cli'[c].pc = r.pc /\ cli'[c].v = r.v /\ cli'[c].b = r.b /\ cli'[c].row = r.row
  <1>1. [cli EXCEPT ![c] = r] \in [Clis -> Command] /\ cli \in [Clis -> Command]
    BY DEF Types
  <1>2. CASE cli' = [cli EXCEPT ![c] = r]
    BY <1>1, <1>2 DEF Others
  <1>3. CASE cli' = Disturb([cli EXCEPT ![c] = r])
    BY <1>1, <1>3, DisturbOnly DEF Others
  <1>4. CASE cli' = [Disturb(cli) EXCEPT ![c] = r]
    BY <1>1, <1>4, DisturbOnly DEF Others
  <1> QED BY <1>2, <1>3, <1>4

\* A command goes to another position.
LEMMA CommandGoes ==
  ASSUME Types, NEW c \in Clis, NEW x \in Positions,
         \/ cli' = [cli EXCEPT ![c].pc = x]
         \/ cli' = Disturb([cli EXCEPT ![c].pc = x])
  PROVE  /\ cli' \in [Clis -> Command] /\ Others(c)
         /\ cli'[c].pc = x /\ cli'[c].v = cli[c].v /\ cli'[c].b = cli[c].b
         /\ cli'[c].row = cli[c].row
  <1> DEFINE r == [cli[c] EXCEPT !.pc = x]
  <1>1. /\ r \in Command /\ r.pc = x /\ r.v = cli[c].v /\ r.b = cli[c].b
        /\ r.row = cli[c].row
    BY DEF Types, Command
  <1>2. [cli EXCEPT ![c].pc = x] = [cli EXCEPT ![c] = r]
    BY DEF Types
  <1> QED BY <1>1, <1>2, CommandSet

\* A command goes to another position and leaves the registry as it is.
Goes(c, x) ==
  /\ x \in Positions \ {"idle"}
  /\ \/ cli' = [cli EXCEPT ![c].pc = x]
     \/ cli' = Disturb([cli EXCEPT ![c].pc = x])
  /\ registry' = registry /\ source' = source /\ acked' = acked
  /\ \A k \in Clis \ {c} : regLock = k => regLock' = k
  /\ cli[c].v \in Voices
  /\ x \in Holding => regLock' = c
  /\ x \in {"launch", "wait", "check", "reg lock", "write"} => cli[c].b \in Bindings
  /\ x \in {"lock", "clean", "stage", "register", "rollback"} => cli[c].b = None
  /\ x \in {"stage", "register"} => registry[cli[c].v] = NoRow
  /\ x \in {"unlock ok", "ok"} => Recorded(cli[c].v, cli[c].b)

\* Going where its knowledge allows keeps a command sound.
LEMMA GoesInv ==
  ASSUME CommandInv, NEW c \in Clis, NEW x, Goes(c, x)
  PROVE  CommandInv'
  <1>1. /\ cli' \in [Clis -> Command] /\ Others(c)
        /\ cli'[c].pc = x /\ cli'[c].v = cli[c].v /\ cli'[c].b = cli[c].b
    BY CommandGoes DEF CommandInv, Goes
  <1>2. Types' /\ Sound(c)'
    BY <1>1 DEF CommandInv, Types, Sound, Aimed, Locked, NewVoice, Done, Recorded, CAt,
                Goes
  <1> QED BY <1>1, <1>2, OneCommandMoves DEF Goes

\* No command moves: a step of a worker or of the user.
LEMMA NobodyMoves ==
  ASSUME CommandInv, cli' = cli \/ cli' = Disturb(cli), source' \in Nat \ {0},
         UNCHANGED <<registry, regLock, acked>>
  PROVE  CommandInv'
  <1>1. /\ cli' \in [Clis -> Command]
        /\ \A k \in Clis : cli'[k].pc = cli[k].pc /\ cli'[k].v = cli[k].v /\ cli'[k].b = cli[k].b
    BY DisturbOnly DEF CommandInv, Types
  <1>2. Types' /\ Kept'
    BY <1>1 DEF CommandInv, Types, Kept, Recorded
  <1>3. \A k \in Clis : Sound(k)'
    BY <1>1 DEF CommandInv, Sound, Aimed, Locked, NewVoice, Done, Recorded, CAt
  <1> QED BY <1>2, <1>3 DEF CommandInv

USE DEF CAt, CGoto, Plain, prepVars

\* A new add command knows its voice.
LEMMA AddStartInv == ASSUME CommandInv, NEW c \in Clis, NEW v \in Voices, AddStart(c, v)
                     PROVE CommandInv'
  <1> DEFINE r == [Idle EXCEPT !.pc = "lock", !.v = v, !.alone = Quiet]
  <1>1. r \in Command /\ r.pc = "lock" /\ r.v = v /\ r.b = None
    BY DEF Idle, Command, Positions, NoRow, Row, Quiet
  <1>2. /\ cli' \in [Clis -> Command] /\ Others(c)
        /\ cli'[c].pc = "lock" /\ cli'[c].v = v /\ cli'[c].b = None
    BY <1>1, CommandSet DEF AddStart, CommandInv
  <1>3. Types' /\ Sound(c)'
    BY <1>2 DEF AddStart, CommandInv, Types, Sound, Aimed, Locked, NewVoice, Done, Holding
  <1> QED BY <1>2, <1>3, OneCommandMoves DEF AddStart

\* _registry_lock: a command that gets the lock takes it from nobody.
LEMMA AddLockInv == ASSUME CommandInv, NEW c \in Clis, AddLock(c) PROVE CommandInv'
  <1> DEFINE todo == {v \in Voices : entry[v] # "absent"}
             r == [cli[c] EXCEPT !.pc = "clean", !.left = InspectLimit, !.todo = todo]
  <1>1. Types /\ Sound(c)
    BY DEF CommandInv
  <1>2. CASE regLock = None
    <2>1. r \in Command /\ r.pc = "clean" /\ r.v = cli[c].v /\ r.b = cli[c].b
      BY <1>1, VoiceAssumption DEF Types, Command, Positions
    <2>2. cli' = [cli EXCEPT ![c] = r]
      BY <1>1, <1>2 DEF AddLock, Types
    <2>3. /\ cli' \in [Clis -> Command] /\ Others(c)
          /\ cli'[c].pc = "clean" /\ cli'[c].v = cli[c].v /\ cli'[c].b = cli[c].b
      BY <1>1, <2>1, <2>2, CommandSet
    <2>4. Types' /\ Sound(c)'
      BY <1>1, <1>2, <2>3
      DEF AddLock, Types, Sound, Aimed, Locked, NewVoice, Done, Holding
    <2>5. \A k \in Clis : regLock # k
      BY <1>2, VoiceAssumption
    <2> QED BY <2>3, <2>4, <2>5, OneCommandMoves DEF AddLock
  <1>3. CASE regLock # None
    <2>1. Goes(c, "error")
      BY <1>1, <1>3 DEF AddLock, Sound, Aimed, Positions, Holding, Goes
    <2> QED BY <2>1, GoesInv
  <1> QED BY <1>2, <1>3

\* _cleanup_orphaned_entries touches entries, not rows.
LEMMA AddCleanInv == ASSUME CommandInv, NEW c \in Clis, AddClean(c) PROVE CommandInv'
  <1>1. PICK v \in cli[c].todo :
          /\ cli[c].left > 0
          /\ \/ cli' = [cli EXCEPT ![c].todo = @ \ {v}, ![c].left = @ - 1]
             \/ cli' = Disturb([cli EXCEPT ![c].todo = @ \ {v}, ![c].left = @ - 1])
    BY DEF AddClean
  <1> DEFINE r == [cli[c] EXCEPT !.todo = @ \ {v}, !.left = @ - 1]
  <1>2. Types /\ Sound(c)
    BY DEF CommandInv
  <1>3. r \in Command /\ r.pc = cli[c].pc /\ r.v = cli[c].v /\ r.b = cli[c].b
    BY <1>1, <1>2 DEF Types, Command
  <1>4. [cli EXCEPT ![c].todo = @ \ {v}, ![c].left = @ - 1] = [cli EXCEPT ![c] = r]
    BY <1>2 DEF Types
  <1>5. cli' = [cli EXCEPT ![c] = r] \/ cli' = Disturb([cli EXCEPT ![c] = r])
    BY <1>1, <1>4
  <1> HIDE DEF r
  <1>6. /\ cli' \in [Clis -> Command] /\ Others(c)
        /\ cli'[c].pc = cli[c].pc /\ cli'[c].v = cli[c].v /\ cli'[c].b = cli[c].b
    BY <1>2, <1>3, <1>5, CommandSet
  <1>7. Types' /\ Sound(c)'
    BY <1>2, <1>6
    DEF AddClean, Types, Sound, Aimed, Locked, NewVoice, Done, Recorded
  <1> QED BY <1>6, <1>7, OneCommandMoves DEF AddClean

\* add_voice goes on only for a voice that has no row.
LEMMA AddCheckInv == ASSUME CommandInv, NEW c \in Clis, AddCheck(c) PROVE CommandInv'
  <1>1. Sound(c)
    BY DEF CommandInv
  <1>2. Goes(c, "unlock error") \/ Goes(c, "stage")
    BY <1>1 DEF AddCheck, Sound, Aimed, Locked, Positions, Holding, Goes
  <1> QED BY <1>2, GoesInv

\* The entry becomes visible; the registry is not touched yet.
LEMMA AddPublishInv == ASSUME CommandInv, NEW c \in Clis, AddPublish(c) PROVE CommandInv'
  <1>1. Sound(c)
    BY DEF CommandInv
  <1>2. Goes(c, "unlock error") \/ Goes(c, "register")
    BY <1>1
    DEF AddPublish, FailTo, Sound, Aimed, Locked, NewVoice, Positions, Holding, Goes
  <1> QED BY <1>2, GoesInv

\* The row of a voice that has none is added under the lock.
LEMMA AddRegisterInv == ASSUME CommandInv, NEW c \in Clis, AddRegister(c) PROVE CommandInv'
  <1> DEFINE v == cli[c].v
             row == [refs |-> {}, sha |-> source]
  <1>1. Types /\ Sound(c)
    BY DEF CommandInv
  <1>2. v \in Voices /\ cli[c].b = None /\ regLock = c /\ registry[v] = NoRow
    BY <1>1 DEF AddRegister, Sound, Aimed, Locked, NewVoice, Holding
  <1>3. CASE registry' = [registry EXCEPT ![v] = row] /\ cli' = [cli EXCEPT ![c].pc = "unlock ok"]
    <2>1. row \in Row /\ row # NoRow
      BY <1>1 DEF Types, Row, NoRow
    <2>2. /\ cli' \in [Clis -> Command] /\ Others(c)
          /\ cli'[c].pc = "unlock ok" /\ cli'[c].v = v /\ cli'[c].b = None
      BY <1>1, <1>2, <1>3, CommandGoes DEF Positions
    <2>3. Types' /\ Grows
      BY <1>1, <1>2, <1>3, <2>1, <2>2 DEF AddRegister, Types, Grows
    <2>4. Sound(c)'
      BY <1>1, <1>2, <1>3, <2>1, <2>2
      DEF AddRegister, Types, Sound, Aimed, Locked, NewVoice, Done, Recorded
    <2> QED BY <1>2, <2>2, <2>3, <2>4, OneCommandMoves DEF AddRegister
  <1>4. CASE UNCHANGED registry /\ cli' = Disturb([cli EXCEPT ![c].pc = "rollback"])
    <2>1. Goes(c, "rollback")
      BY <1>2, <1>4 DEF AddRegister, Positions, Goes
    <2> QED BY <2>1, GoesInv
  <1> QED BY <1>3, <1>4 DEF AddRegister, FailTo

\* The rollback of add_voice removes files and then gives the lock up.
LEMMA AddRollbackInv == ASSUME CommandInv, NEW c \in Clis, AddRollback(c) PROVE CommandInv'
  <1>1. Sound(c) /\ Types
    BY DEF CommandInv
  <1>2. CASE UNCHANGED cli
    BY <1>1, <1>2, NobodyMoves DEF AddRollback, Types
  <1>3. CASE cli' = [cli EXCEPT ![c].pc = "unlock error"]
    <2>1. Goes(c, "unlock error")
      BY <1>1, <1>3 DEF AddRollback, Sound, Aimed, Locked, Positions, Holding, Goes
    <2> QED BY <2>1, GoesInv
  <1> QED BY <1>2, <1>3 DEF AddRollback

\* A voice that is found prepared is recorded with the binding already.
LEMMA PrepareStartInv ==
  ASSUME CommandInv, NEW c \in Clis, NEW v \in Voices, NEW b \in Bindings,
         PrepareStart(c, v, b)
  PROVE  CommandInv'
  <1> DEFINE status == Status(registry[v], <<v, b>>)
             pc == CASE status = "prepared_valid" -> "ok"
                     [] status = "unprepared"     -> "launch"
                     [] OTHER                     -> "error"
             r == [Idle EXCEPT !.v = v, !.b = b, !.alone = Quiet, !.row = registry[v],
                               !.hash = source, !.pc = pc]
  <1>1. Types
    BY DEF CommandInv
  <1>2. pc \in {"ok", "launch", "error"} /\ (pc = "ok" => status = "prepared_valid")
    OBVIOUS
  <1>3. pc = "ok" => b \in registry[v].refs
    BY <1>2 DEF Status, Selected
  <1>4. cli' = [Disturb(cli) EXCEPT ![c] = r]
    BY DEF PrepareStart
  <1> HIDE DEF pc
  <1>5. r \in Command /\ r.pc = pc /\ r.v = v /\ r.b = b
    BY <1>1, <1>2 DEF Types, Idle, Command, Positions, NoRow, Row, Quiet
  <1> HIDE DEF r
  <1>6. /\ cli' \in [Clis -> Command] /\ Others(c)
        /\ cli'[c].pc = pc /\ cli'[c].v = v /\ cli'[c].b = b
    BY <1>1, <1>4, <1>5, CommandSet
  <1>7. Types' /\ Sound(c)'
    BY <1>1, <1>2, <1>3, <1>6
    DEF PrepareStart, Types, Sound, Aimed, Locked, NewVoice, Done, Recorded, Holding
  <1> QED BY <1>6, <1>7, OneCommandMoves DEF PrepareStart

\* A command gets its worker, or gives it up, and goes on.
LEMMA WithWorker ==
  ASSUME CommandInv, NEW c \in Clis, NEW w \in Workers \cup {None},
         NEW x \in {"wait", "check", "error"}, cli[c].pc \in {"launch", "wait"},
         \/ cli' = [cli EXCEPT ![c].pc = x, ![c].w = w]
         \/ cli' = Disturb([cli EXCEPT ![c].pc = x, ![c].w = w]),
         registry' = registry, source' = source, acked' = acked, regLock' = regLock
  PROVE  CommandInv'
  <1> DEFINE r == [cli[c] EXCEPT !.pc = x, !.w = w]
  <1>1. Types /\ Sound(c)
    BY DEF CommandInv
  <1>2. r \in Command /\ r.pc = x /\ r.v = cli[c].v /\ r.b = cli[c].b
    BY <1>1 DEF Types, Command, Positions
  <1>3. [cli EXCEPT ![c].pc = x, ![c].w = w] = [cli EXCEPT ![c] = r]
    BY <1>1 DEF Types
  <1>4. cli' = [cli EXCEPT ![c] = r] \/ cli' = Disturb([cli EXCEPT ![c] = r])
    BY <1>3
  <1> HIDE DEF r
  <1>5. /\ cli' \in [Clis -> Command] /\ Others(c)
        /\ cli'[c].pc = x /\ cli'[c].v = cli[c].v /\ cli'[c].b = cli[c].b
    BY <1>1, <1>2, <1>4, CommandSet
  <1>6. Types' /\ Sound(c)'
    BY <1>1, <1>5 DEF Types, Sound, Aimed, Locked, NewVoice, Done, Holding
  <1> QED BY <1>5, <1>6, OneCommandMoves

\* _run_native_prepare: the worker is started, ends, or is killed.
LEMMA PrepareWorkerInv ==
  ASSUME CommandInv, NEW c \in Clis,
         PrepareLaunch(c) \/ PrepareReady(c) \/ PrepareTimeout(c)
  PROVE  CommandInv'
  <1>1. CASE PrepareLaunch(c)
    <2>1. PICK w \in Workers : cli' = [cli EXCEPT ![c].pc = "wait", ![c].w = w]
      BY <1>1 DEF PrepareLaunch
    <2> QED BY <1>1, <2>1, WithWorker DEF PrepareLaunch
  <1>2. CASE PrepareReady(c)
    <2> DEFINE x == IF At(cli[c].w, "ready") THEN "check" ELSE "error"
    <2>1. x \in {"check", "error"} /\ cli' = [cli EXCEPT ![c].pc = x, ![c].w = None]
      BY <1>2 DEF PrepareReady
    <2> HIDE DEF x
    <2> QED BY <1>2, <2>1, WithWorker DEF PrepareReady
  <1>3. CASE PrepareTimeout(c)
    BY <1>3, WithWorker DEF PrepareTimeout
  <1> QED BY <1>1, <1>2, <1>3

\* The verification through the temporary registry changes nothing.
LEMMA PrepareCheckInv == ASSUME CommandInv, NEW c \in Clis, PrepareCheck(c) PROVE CommandInv'
  <1>1. Sound(c)
    BY DEF CommandInv
  <1>2. Goes(c, "reg lock") \/ Goes(c, "error")
    BY <1>1 DEF PrepareCheck, Sound, Aimed, Positions, Holding, Goes
  <1> QED BY <1>2, GoesInv

\* prepare_voice takes the registry lock after its worker has ended.
LEMMA PrepareLockInv == ASSUME CommandInv, NEW c \in Clis, PrepareLock(c) PROVE CommandInv'
  <1>1. Sound(c)
    BY DEF CommandInv
  <1>2. Goes(c, "write") \/ Goes(c, "error")
    BY <1>1, VoiceAssumption DEF PrepareLock, Sound, Aimed, Positions, Holding, Goes
  <1> QED BY <1>2, GoesInv

\* The reference is added to the row that is there, under the lock.
LEMMA PrepareWriteInv == ASSUME CommandInv, NEW c \in Clis, PrepareWrite(c) PROVE CommandInv'
  <1> DEFINE v == cli[c].v
             b == cli[c].b
             row == [registry[v] EXCEPT !.refs = @ \cup {b}]
  <1>1. Types /\ Sound(c)
    BY DEF CommandInv
  <1>2. v \in Voices /\ b \in Bindings /\ regLock = c
    BY <1>1 DEF PrepareWrite, Sound, Aimed, Locked, Holding
  <1>3. CASE /\ registry' = [registry EXCEPT ![v].refs = @ \cup {b}]
             /\ cli' = [cli EXCEPT ![c].pc = "unlock ok"]
    <2>1. row \in Row /\ b \in row.refs /\ registry[v].refs \subseteq row.refs
      BY <1>1, <1>2 DEF Types, Row
    <2>2. row # NoRow
      BY <2>1 DEF NoRow
    <2>3. registry' = [registry EXCEPT ![v] = row]
      BY <1>1, <1>2, <1>3 DEF Types
    <2> HIDE DEF row
    <2>4. /\ cli' \in [Clis -> Command] /\ Others(c)
          /\ cli'[c].pc = "unlock ok" /\ cli'[c].v = v /\ cli'[c].b = b
      BY <1>1, <1>3, CommandGoes DEF Positions
    <2>5. Types' /\ Grows
      BY <1>1, <1>2, <2>1, <2>2, <2>3, <2>4 DEF PrepareWrite, Types, Grows
    <2>6. Sound(c)'
      BY <1>1, <1>2, <2>1, <2>2, <2>3, <2>4
      DEF PrepareWrite, Types, Sound, Aimed, Locked, NewVoice, Done, Recorded
    <2> QED BY <1>2, <2>4, <2>5, <2>6, OneCommandMoves DEF PrepareWrite
  <1>4. CASE /\ UNCHANGED registry
             /\ \/ cli' = [cli EXCEPT ![c].pc = "unlock error"]
                \/ cli' = Disturb([cli EXCEPT ![c].pc = "unlock error"])
    <2>1. Goes(c, "unlock error")
      BY <1>2, <1>4 DEF PrepareWrite, Positions, Goes
    <2> QED BY <2>1, GoesInv
  <1> QED BY <1>3, <1>4 DEF PrepareWrite, FailTo

\* The lock is given up; what was written stays.
LEMMA UnlockInv == ASSUME CommandInv, NEW c \in Clis, Unlock(c) PROVE CommandInv'
  <1>1. Sound(c)
    BY DEF CommandInv
  <1>2. Goes(c, "ok") \/ Goes(c, "error")
    BY <1>1 DEF Unlock, Sound, Aimed, Locked, Done, Positions, Holding, Goes
  <1> QED BY <1>2, GoesInv

\* A command that ends or is killed leaves only what it has recorded.
LEMMA EndInv == ASSUME CommandInv, NEW c \in Clis, Return(c) \/ CliCrash(c) PROVE CommandInv'
  <1>1. Types /\ Sound(c)
    BY DEF CommandInv
  <1>2. Idle \in Command /\ Idle.pc = "idle"
    BY DEF Idle, Command, Positions, NoRow, Row
  <1>3. cli' \in [Clis -> Command] /\ Others(c) /\ cli'[c].pc = "idle"
    BY <1>1, <1>2, CommandSet DEF Return, CliCrash
  <1>4. Types' /\ Sound(c)' /\ registry' = registry
    BY <1>1, <1>3
    DEF Return, CliCrash, Types, Sound, Aimed, Locked, NewVoice, Done, Holding
  <1>5. \A a \in acked' : a \in acked \/ (Recorded(a[1], a[2]))'
    <2>1. cli[c].pc = "ok" => Recorded(cli[c].v, cli[c].b)
      BY <1>1 DEF Sound, Done
    <2>2. acked' = acked \/ (cli[c].pc = "ok" /\ acked' = acked \cup {<<cli[c].v, cli[c].b>>})
      BY DEF Return, CliCrash, Target
    <2>3. ASSUME NEW a, a = <<cli[c].v, cli[c].b>>, cli[c].pc = "ok"
          PROVE  (Recorded(a[1], a[2]))'
      BY <1>4, <2>1, <2>3 DEF Recorded
    <2> QED BY <2>2, <2>3
  <1>6. \A k \in Clis \ {c} : regLock = k => regLock' = k
    BY DEF Return, CliCrash
  <1> QED BY <1>3, <1>4, <1>5, <1>6, OneCommandMoves

\* Workers and the user never move a command, nor touch the registry.
LEMMA ElsewhereInv ==
  ASSUME CommandInv,
         \/ \E w \in Workers : WorkerNext(w) \/ Serve(w)
         \/ EditSource
  PROVE  CommandInv'
  <1>1. source \in Nat \ {0}
    BY DEF CommandInv, Types
  <1>2. ASSUME NEW w \in Workers, WorkerNext(w) PROVE CommandInv'
    <2>1. source' = source
      <3>1. CASE Crash(w) \/ Exit(w)
        BY <3>1 DEF Crash, Exit
      <3>2. CASE WorkerStep(w)
        BY <3>2
        DEF WorkerStep, LockCreate, LockProbe, LockUnlink, LockClose, LockDelete,
            Reconcile, Recover, Recovered, Look, Extract, Context, Publish,
            PublishFails, Rollback, Throws
      <3> QED BY <1>2, <3>1, <3>2 DEF WorkerNext
    <2>2. cli' = cli \/ cli' = Disturb(cli)
      BY <1>2 DEF WorkerNext
    <2> QED BY <1>1, <1>2, <2>1, <2>2, NobodyMoves DEF WorkerNext
  <1>3. ASSUME NEW w \in Workers, Serve(w) PROVE CommandInv'
    BY <1>1, <1>3, NobodyMoves DEF Serve
  <1>4. ASSUME EditSource PROVE CommandInv'
    <2>1. source' \in Nat \ {0}
      BY <1>1, <1>4 DEF EditSource, Edit
    <2> QED BY <1>4, <2>1, NobodyMoves DEF EditSource
  <1> QED BY <1>2, <1>3, <1>4

\* Every step keeps what the commands know of the registry.
LEMMA CommandNext == CommandInv /\ [Next]_vars => CommandInv'
  <1> SUFFICES ASSUME CommandInv, [Next]_vars PROVE CommandInv'
    OBVIOUS
  <1>1. ASSUME NEW c \in Clis, CliNext(c) PROVE CommandInv'
    BY <1>1, AddStartInv, AddLockInv, AddCleanInv, AddCheckInv, AddPublishInv,
       AddRegisterInv, AddRollbackInv, PrepareStartInv, PrepareWorkerInv,
       PrepareCheckInv, PrepareLockInv, PrepareWriteInv, UnlockInv, EndInv
    DEF CliNext
  <1>2. CASE UNCHANGED vars
    BY <1>2, NobodyMoves DEF vars, CommandInv, Types
  <1> QED BY <1>1, <1>2, ElsewhereInv DEF Next

\* The commands' invariant holds of every behaviour.
LEMMA CommandsSound == Spec => []CommandInv
  BY CommandInit, CommandNext, PTL DEF Spec

\* Whatever commands run side by side and wherever they are killed, what one of
\* them reported as added or prepared stays in the registry, although each of
\* them rewrites the whole file (add_voice, prepare_voice).
THEOREM UpdatesKept == Spec => []NoLostUpdate
  <1>1. CommandInv => NoLostUpdate
    BY DEF CommandInv, Kept, Recorded, NoLostUpdate
  <1> QED BY <1>1, CommandsSound, PTL

-----------------------------------------------------------------------------
(* The publication lock *)

\* A worker's record and a directory, as far as the lock is concerned.
WorkShapes ==
  /\ work = [w \in Workers |-> work[w]]
  /\ \A w \in Workers : {"pc", "dir", "next"} \subseteq DOMAIN work[w]
  /\ dir = [d \in Dirs |-> dir[d]]
  /\ \A d \in Dirs : {"holder", "lockFile"} \subseteq DOMAIN dir[d]

\* A worker that runs has a directory, and gives the lock up to go on outside of
\* the section it protects.
Bound(w) ==
  /\ ~At(w, "off") => work[w].dir \in Dirs
  /\ work[w].pc \in {"close", "delete"} => work[w].next \in {"look", "ready", "failed"}

\* Who is inside has the lock file open; an open lock file exists.
Opened(w) == InSection(w) => Here(w).holder = w
FileOfHolder == \A d \in Dirs : dir[d].holder # None => dir[d].lockFile

LockInv == WorkShapes /\ (\A w \in Workers : Bound(w) /\ Opened(w)) /\ FileOfHolder

\* At first no worker runs and no lock file exists.
LEMMA LockInit == Init => LockInv
  <1> SUFFICES ASSUME Init PROVE LockInv
    OBVIOUS
  <1>1. dir = [d \in Dirs |-> EmptyDir] /\ work = [w \in Workers |-> Off]
    BY DEF Init, PrepInit
  <1>2. WorkShapes
    BY <1>1 DEF WorkShapes, EmptyDir, Off
  <1>3. \A w \in Workers : work[w].pc = "off"
    BY <1>1 DEF Off
  <1>4. \A d \in Dirs : dir[d].holder = None
    BY <1>1 DEF EmptyDir
  <1> QED BY <1>2, <1>3, <1>4 DEF LockInv, Bound, Opened, FileOfHolder, InSection, At

\* Other workers stay where they are, and no lock they hold changes hands.
LEMMA OneWorkerMoves ==
  ASSUME LockInv, NEW w \in Workers, WorkShapes', Bound(w)', Opened(w)', FileOfHolder',
         \A v \in Workers \ {w} : work'[v] = work[v],
         \A d \in Dirs, v \in Workers \ {w} : dir[d].holder = v => dir'[d].holder = v
  PROVE  LockInv'
  <1>1. ASSUME NEW v \in Workers \ {w} PROVE Bound(v)' /\ Opened(v)'
    BY <1>1 DEF LockInv, Bound, Opened, InSection, At, Here
  <1> QED BY <1>1 DEF LockInv

\* The lock file and its holder are the same.
SameLock(d, e) ==
  /\ {"holder", "lockFile"} \subseteq DOMAIN e
  /\ e.holder = d.holder /\ e.lockFile = d.lockFile

\* A worker moves without touching a lock, and enters no section.
LEMMA LockUntouched ==
  ASSUME LockInv, NEW w \in Workers, ~At(w, "off"),
         work' = [v \in Workers |-> work'[v]],
         \A v \in Workers \ {w} : work'[v] = work[v],
         {"pc", "dir", "next"} \subseteq DOMAIN work'[w],
         work'[w].dir = work[w].dir,
         InSection(w)' => InSection(w),
         work'[w].pc \in {"close", "delete"} => work'[w].next \in {"look", "ready", "failed"},
         dir' = dir \/ \E e : dir' = [dir EXCEPT ![work[w].dir] = e] /\ SameLock(Here(w), e)
  PROVE  LockInv'
  <1>1. dir' = [d \in Dirs |-> dir'[d]] /\ \A d \in Dirs : SameLock(dir[d], dir'[d])
    BY DEF LockInv, WorkShapes, SameLock, Here
  <1>2. WorkShapes' /\ FileOfHolder'
    BY <1>1 DEF LockInv, WorkShapes, FileOfHolder, SameLock
  <1>3. Bound(w)' /\ Opened(w)'
    BY <1>1 DEF LockInv, Bound, Opened, At, Here, SameLock
  <1> QED BY <1>1, <1>2, <1>3, OneWorkerMoves DEF SameLock

\* A worker goes on somewhere.
LEMMA WorkerGoes ==
  ASSUME WorkShapes, NEW w \in Workers, NEW x, NEW y, NEW z,
         \/ work' = [work EXCEPT ![w].pc = x]
         \/ work' = [work EXCEPT ![w].pc = x, ![w].next = y]
         \/ work' = [work EXCEPT ![w].pc = x, ![w].step = z]
  PROVE  /\ work' = [v \in Workers |-> work'[v]]
         /\ \A v \in Workers \ {w} : work'[v] = work[v]
         /\ {"pc", "dir", "next"} \subseteq DOMAIN work'[w]
         /\ work'[w].pc = x /\ work'[w].dir = work[w].dir
         /\ work'[w].next \in {work[w].next, y}
  BY DEF WorkShapes

\* A worker is about to give the lock up.
LEMMA WorkerLeaves ==
  ASSUME WorkShapes, NEW w \in Workers, NEW x,
         work' = [work EXCEPT ![w].pc = "close", ![w].next = x]
  PROVE  /\ work' = [v \in Workers |-> work'[v]]
         /\ \A v \in Workers \ {w} : work'[v] = work[v]
         /\ {"pc", "dir", "next"} \subseteq DOMAIN work'[w]
         /\ work'[w].dir = work[w].dir
         /\ work'[w].pc = "close" /\ work'[w].next = x
  BY DEF WorkShapes

\* A worker goes on outside the section, and changes no directory.
LEMMA StaysOut ==
  ASSUME LockInv, NEW w \in Workers, ~At(w, "off"), dir' = dir,
         NEW x \in {"probe", "unlink", "create", "look", "extract", "ready", "failed"},
         work' = [work EXCEPT ![w].pc = x]
  PROVE  LockInv'
  <1>1. /\ work' = [v \in Workers |-> work'[v]]
        /\ \A v \in Workers \ {w} : work'[v] = work[v]
        /\ {"pc", "dir", "next"} \subseteq DOMAIN work'[w]
        /\ work'[w].pc = x /\ work'[w].dir = work[w].dir
    BY WorkerGoes DEF LockInv
  <1> QED BY <1>1, LockUntouched DEF InSection

\* recover_incomplete_publication_locked and persist_prepared_voice_reference
\* change files, marker and manifest, never the lock.
LEMMA QuarantineKeepsLock ==
  ASSUME NEW d, {"holder", "lockFile"} \subseteq DOMAIN d
  PROVE  SameLock(d, Quarantined(d))
  BY DEF SameLock, Quarantined

\* No operation of a publication touches the lock.
LEMMA PublishKeepsLock ==
  ASSUME NEW d, {"holder", "lockFile"} \subseteq DOMAIN d, NEW gen, NEW hash, NEW op
  PROVE  SameLock(d, Published(d, gen, hash, op))
  BY DEF SameLock, Published, Renamed

USE DEF At, Goto, ChangeDir, Leave, TakeLock

\* CREATE_NEW succeeds only if there is no file, hence no holder.
LEMMA LockCreateInv == ASSUME LockInv, NEW w \in Workers, LockCreate(w) PROVE LockInv'
  <1>1. WorkShapes /\ work[w].dir \in Dirs /\ ~InSection(w)
    BY DEF LockInv, Bound, LockCreate, InSection
  <1>2. CASE Here(w).lockFile
    BY <1>2, StaysOut DEF LockCreate
  <1>3. CASE ~Here(w).lockFile
    <2> DEFINE e == [Here(w) EXCEPT !.lockFile = TRUE, !.holder = w]
    <2>1. dir' = [dir EXCEPT ![work[w].dir] = e]
      BY <1>3 DEF LockCreate
    <2>2. {"holder", "lockFile"} \subseteq DOMAIN e /\ e.holder = w /\ e.lockFile
      BY <1>1 DEF WorkShapes, Here
    <2>3. Here(w).holder = None
      BY <1>1, <1>3 DEF LockInv, FileOfHolder, Here
    <2> HIDE DEF e
    <2>4. /\ work' = [v \in Workers |-> work'[v]]
          /\ \A v \in Workers \ {w} : work'[v] = work[v]
          /\ {"pc", "dir", "next"} \subseteq DOMAIN work'[w]
          /\ work'[w].pc = "recover" /\ work'[w].dir = work[w].dir
      BY <1>1, <1>3, WorkerGoes DEF LockCreate
    <2>5. WorkShapes' /\ FileOfHolder'
      BY <1>1, <2>1, <2>2, <2>4 DEF LockInv, WorkShapes, FileOfHolder
    <2>6. Bound(w)' /\ Opened(w)'
      BY <1>1, <2>1, <2>2, <2>4 DEF WorkShapes, Bound, Opened, Here
    <2>7. \A d \in Dirs, v \in Workers \ {w} : dir[d].holder = v => dir'[d].holder = v
      BY <1>1, <2>1, <2>3, PreparedAssumption DEF WorkShapes, Here, None
    <2> QED BY <2>4, <2>5, <2>6, <2>7, OneWorkerMoves
  <1> QED BY <1>2, <1>3

\* The probe opens the lock file and closes it again.
LEMMA LockProbeInv == ASSUME LockInv, NEW w \in Workers, LockProbe(w) PROVE LockInv'
  <1>1. \E x \in {"unlink", "failed"} : work' = [work EXCEPT ![w].pc = x]
    BY DEF LockProbe
  <1> QED BY <1>1, StaysOut DEF LockProbe

\* DeleteFileW succeeds only while nobody has the file open.
LEMMA LockUnlinkInv == ASSUME LockInv, NEW w \in Workers, LockUnlink(w) PROVE LockInv'
  <1>1. WorkShapes /\ work[w].dir \in Dirs
    BY DEF LockInv, Bound, LockUnlink
  <1>2. /\ work' = [v \in Workers |-> work'[v]]
        /\ \A v \in Workers \ {w} : work'[v] = work[v]
        /\ {"pc", "dir", "next"} \subseteq DOMAIN work'[w]
        /\ work'[w].pc \in {"create", "failed"} /\ work'[w].dir = work[w].dir
    BY <1>1 DEF LockUnlink, WorkShapes
  <1>3. CASE Here(w).lockFile /\ Here(w).holder = None
    <2>1. dir' = [dir EXCEPT ![work[w].dir] = [Here(w) EXCEPT !.lockFile = FALSE]]
      BY <1>3 DEF LockUnlink
    <2>2. WorkShapes' /\ \A d \in Dirs : dir'[d].holder = dir[d].holder
      BY <1>1, <1>2, <2>1 DEF WorkShapes, Here
    <2>3. FileOfHolder'
      BY <1>1, <1>3, <2>1 DEF LockInv, WorkShapes, FileOfHolder, Here
    <2> QED BY <1>1, <1>2, <2>2, <2>3, OneWorkerMoves DEF Bound, Opened, InSection
  <1>4. CASE ~(Here(w).lockFile /\ Here(w).holder = None)
    BY <1>2, <1>4, LockUntouched DEF LockUnlink, InSection
  <1> QED BY <1>3, <1>4

\* The holder closes its own handle.
LEMMA LockCloseInv == ASSUME LockInv, NEW w \in Workers, LockClose(w) PROVE LockInv'
  <1>1. WorkShapes /\ work[w].dir \in Dirs /\ Here(w).holder = w
        /\ work[w].next \in {"look", "ready", "failed"}
    BY DEF LockInv, Bound, Opened, LockClose, InSection
  <1>2. /\ work' = [v \in Workers |-> work'[v]]
        /\ \A v \in Workers \ {w} : work'[v] = work[v]
        /\ {"pc", "dir", "next"} \subseteq DOMAIN work'[w]
        /\ work'[w].pc = "delete" /\ work'[w].dir = work[w].dir
        /\ work'[w].next = work[w].next
    BY <1>1 DEF LockClose, WorkShapes
  <1>3. dir' = [dir EXCEPT ![work[w].dir] = [Here(w) EXCEPT !.holder = None]]
    BY DEF LockClose
  <1>4. WorkShapes' /\ FileOfHolder'
    BY <1>1, <1>2, <1>3 DEF LockInv, WorkShapes, FileOfHolder, Here
  <1>5. \A d \in Dirs, v \in Workers \ {w} : dir[d].holder = v => dir'[d].holder = v
    BY <1>1, <1>3 DEF WorkShapes, Here
  <1> QED BY <1>1, <1>2, <1>4, <1>5, OneWorkerMoves DEF Bound, Opened, InSection

\* The file of another worker that has opened it since stays.
LEMMA LockDeleteInv == ASSUME LockInv, NEW w \in Workers, LockDelete(w) PROVE LockInv'
  <1>1. WorkShapes /\ work[w].dir \in Dirs /\ work[w].next \in {"look", "ready", "failed"}
    BY DEF LockInv, Bound, LockDelete
  <1>2. /\ work' = [v \in Workers |-> work'[v]]
        /\ \A v \in Workers \ {w} : work'[v] = work[v]
        /\ {"pc", "dir", "next"} \subseteq DOMAIN work'[w]
        /\ work'[w].pc = work[w].next /\ work'[w].dir = work[w].dir
    BY <1>1 DEF LockDelete, WorkShapes
  <1>3. dir' = [dir EXCEPT ![work[w].dir] =
                 [Here(w) EXCEPT !.lockFile = @ /\ Here(w).holder # None]]
    BY DEF LockDelete
  <1>4. WorkShapes' /\ \A d \in Dirs : dir'[d].holder = dir[d].holder
    BY <1>1, <1>2, <1>3 DEF WorkShapes, Here
  <1>5. FileOfHolder'
    BY <1>1, <1>3 DEF LockInv, WorkShapes, FileOfHolder, Here
  <1> QED BY <1>1, <1>2, <1>4, <1>5, OneWorkerMoves DEF Bound, Opened, InSection

\* Reconcile, Extract, Context and Look happen outside the section.
LEMMA OutsideInv ==
  ASSUME LockInv, NEW w \in Workers,
         Reconcile(w) \/ Extract(w) \/ Context(w) \/ Look(w)
  PROVE  LockInv'
  <1>1. /\ work' = [v \in Workers |-> work'[v]]
        /\ \A v \in Workers \ {w} : work'[v] = work[v]
        /\ {"pc", "dir", "next"} \subseteq DOMAIN work'[w]
        /\ work'[w].pc \in {"look", "create", "context", "extract", "ready", "failed"}
        /\ work'[w].dir = work[w].dir
    <2>1. WorkShapes
      BY DEF LockInv
    <2>2. CASE Reconcile(w)
      <3> DEFINE x == IF Here(w).marker = NoGen THEN "look" ELSE "create"
                 r == [work[w] EXCEPT !.hash = source, !.pc = x, !.then = "reconcile",
                                      !.step = 1]
      <3>1. x \in {"look", "create"}
        OBVIOUS
      <3> HIDE DEF x
      <3>2. {"pc", "dir", "next"} \subseteq DOMAIN r /\ r.pc = x /\ r.dir = work[w].dir
        BY <2>1 DEF WorkShapes
      <3>3. work' = [work EXCEPT ![w] = r]
        BY <2>1, <2>2 DEF Reconcile, WorkShapes, x
      <3> HIDE DEF r
      <3> QED BY <2>1, <3>1, <3>2, <3>3 DEF WorkShapes
    <2>3. CASE Extract(w)
      BY <2>1, <2>3 DEF WorkShapes, Extract
    <2>4. CASE Context(w)
      BY <2>1, <2>4 DEF WorkShapes, Context
    <2>5. CASE Look(w)
      <3>1. \/ \E x \in {"extract", "ready", "failed"} : work' = [work EXCEPT ![w].pc = x]
            \/ work' = [work EXCEPT ![w].pc = "create", ![w].then = "finalize", ![w].step = 1]
        BY <2>5 DEF Look
      <3> QED BY <2>1, <3>1 DEF WorkShapes
    <2> QED BY <2>2, <2>3, <2>4, <2>5
  <1>2. ~At(w, "off") /\ dir' = dir
    BY DEF Reconcile, Extract, Context, Look
  <1> QED BY <1>1, <1>2, LockUntouched DEF InSection

\* A worker inside the section stays there or is about to close the file.
LEMMA InsideMoves ==
  ASSUME LockInv, NEW w \in Workers, InSection(w),
         work' = [v \in Workers |-> work'[v]],
         \A v \in Workers \ {w} : work'[v] = work[v],
         {"pc", "dir", "next"} \subseteq DOMAIN work'[w],
         work'[w].dir = work[w].dir,
         \/ work'[w].pc = work[w].pc /\ work'[w].next = work[w].next
         \/ work'[w].pc \in {"publish", "rollback"}
         \/ work'[w].pc = "close" /\ work'[w].next \in {"look", "ready", "failed"},
         dir' = dir \/ \E e : dir' = [dir EXCEPT ![work[w].dir] = e] /\ SameLock(Here(w), e)
  PROVE  LockInv'
  <1>1. ~At(w, "off") /\ Bound(w)
    BY DEF InSection, LockInv
  <1>2. work'[w].pc \in {"close", "delete"} => work'[w].next \in {"look", "ready", "failed"}
    BY <1>1 DEF Bound
  <1> QED BY <1>1, <1>2, LockUntouched

\* recover_incomplete_publication_locked and what follows it.
LEMMA RecoverInv ==
  ASSUME LockInv, NEW w \in Workers, Recover(w) \/ Recovered(w)
  PROVE  LockInv'
  <1>1. WorkShapes /\ InSection(w) /\ work[w].dir \in Dirs
        /\ {"holder", "lockFile"} \subseteq DOMAIN Here(w)
    BY DEF LockInv, WorkShapes, Bound, Recover, Recovered, InSection, Here
  <1>2. CASE Recover(w)
    <2>1. SameLock(Here(w), Quarantined(Here(w)))
      BY <1>1, QuarantineKeepsLock
    <2> QED BY <1>1, <1>2, <2>1, InsideMoves DEF Recover, WorkShapes
  <1>3. CASE Recovered(w)
    <2>1. \/ dir' = dir
          \/ dir' = [dir EXCEPT ![work[w].dir] = [Here(w) EXCEPT !.marker = NoGen]]
          \/ \E m : dir' = [dir EXCEPT ![work[w].dir] = [Here(w) EXCEPT !.made = m]]
      BY <1>3 DEF Recovered
    <2>2. dir' = dir \/ \E e : dir' = [dir EXCEPT ![work[w].dir] = e] /\ SameLock(Here(w), e)
      <3>1. \A m : /\ SameLock(Here(w), [Here(w) EXCEPT !.made = m])
                   /\ SameLock(Here(w), [Here(w) EXCEPT !.marker = m])
        BY <1>1 DEF SameLock
      <3> QED BY <2>1, <3>1
    <2>3. \/ \E x \in {"look", "ready", "failed"} :
               work' = [work EXCEPT ![w].pc = "close", ![w].next = x]
          \/ \E g : work' = [work EXCEPT ![w].pc = "publish", ![w].gen = g, ![w].step = 1]
      BY <1>3 DEF Recovered
    <2>4. /\ work' = [v \in Workers |-> work'[v]]
          /\ \A v \in Workers \ {w} : work'[v] = work[v]
          /\ {"pc", "dir", "next"} \subseteq DOMAIN work'[w]
          /\ work'[w].dir = work[w].dir
          /\ \/ work'[w].pc = "publish"
             \/ work'[w].pc = "close" /\ work'[w].next \in {"look", "ready", "failed"}
      <3>1. CASE \E x \in {"look", "ready", "failed"} :
                   work' = [work EXCEPT ![w].pc = "close", ![w].next = x]
        BY <1>1, <3>1, WorkerLeaves
      <3>2. CASE \E g : work' = [work EXCEPT ![w].pc = "publish", ![w].gen = g, ![w].step = 1]
        <4>1. PICK g : work' = [work EXCEPT ![w] = [work[w] EXCEPT !.pc = "publish",
                                                    !.gen = g, !.step = 1]]
          BY <1>1, <3>2 DEF WorkShapes
        <4> QED BY <1>1, <4>1 DEF WorkShapes
      <3> QED BY <2>3, <3>1, <3>2
    <2> QED BY <1>1, <2>2, <2>4, InsideMoves
  <1> QED BY <1>2, <1>3

\* persist_prepared_voice_reference and its rollback.
LEMMA PublishInv ==
  ASSUME LockInv, NEW w \in Workers, Publish(w) \/ PublishFails(w) \/ Rollback(w)
  PROVE  LockInv'
  <1>1. WorkShapes /\ InSection(w) /\ work[w].dir \in Dirs
        /\ {"holder", "lockFile"} \subseteq DOMAIN Here(w)
    BY DEF LockInv, WorkShapes, Bound, Publish, PublishFails, Rollback, InSection, Here
  <1>2. dir' = dir \/ \E e : dir' = [dir EXCEPT ![work[w].dir] = e] /\ SameLock(Here(w), e)
    <2>1. CASE Publish(w)
      BY <1>1, <2>1, PublishKeepsLock DEF Publish
    <2>2. CASE PublishFails(w)
      <3>1. \E f : dir' = [dir EXCEPT ![work[w].dir] = [Here(w) EXCEPT !.files = f]]
        BY <2>2 DEF PublishFails
      <3>2. \A f : SameLock(Here(w), [Here(w) EXCEPT !.files = f])
        BY <1>1 DEF SameLock
      <3> QED BY <3>1, <3>2
    <2>3. CASE Rollback(w)
      BY <1>1, <2>3 DEF Rollback, SameLock
    <2> QED BY <2>1, <2>2, <2>3
  <1>3. \/ \E x \in {"ready", "failed"} :
             work' = [work EXCEPT ![w].pc = "close", ![w].next = x]
        \/ work' = [work EXCEPT ![w].step = @ + 1]
        \/ work' = [work EXCEPT ![w].pc = "rollback", ![w].step = 1]
    BY DEF Publish, PublishFails, Rollback
  <1>4. /\ work' = [v \in Workers |-> work'[v]]
        /\ \A v \in Workers \ {w} : work'[v] = work[v]
        /\ {"pc", "dir", "next"} \subseteq DOMAIN work'[w]
        /\ work'[w].dir = work[w].dir
        /\ \/ work'[w].pc = work[w].pc /\ work'[w].next = work[w].next
           \/ work'[w].pc = "rollback"
           \/ work'[w].pc = "close" /\ work'[w].next \in {"look", "ready", "failed"}
    <2>1. CASE \E x \in {"ready", "failed"} :
                 work' = [work EXCEPT ![w].pc = "close", ![w].next = x]
      BY <1>1, <2>1, WorkerLeaves
    <2>2. CASE work' = [work EXCEPT ![w].step = @ + 1]
      BY <1>1, <2>2 DEF WorkShapes
    <2>3. CASE work' = [work EXCEPT ![w].pc = "rollback", ![w].step = 1]
      BY <1>1, <2>3 DEF WorkShapes
    <2> QED BY <1>3, <2>1, <2>2, <2>3
  <1> QED BY <1>1, <1>2, <1>4, InsideMoves

\* An exception leaves load(), through the destructor of the lock if it is held.
LEMMA ThrowsInv == ASSUME LockInv, NEW w \in Workers, Throws(w) PROVE LockInv'
  <1>1. WorkShapes /\ dir' = dir /\ ~At(w, "off")
    BY DEF LockInv, Throws
  <1>2. CASE work' = [work EXCEPT ![w].pc = "failed"]
    BY <1>1, <1>2, StaysOut
  <1>3. CASE InSection(w) /\ work' = [work EXCEPT ![w].pc = "close", ![w].next = "failed"]
    BY <1>1, <1>3, InsideMoves, WorkerLeaves
  <1> QED BY <1>2, <1>3 DEF Throws, InSection

\* The system closes the handles of a killed process.
LEMMA KilledInv == ASSUME LockInv, NEW w, ~At(w, "off"), Killed(w) PROVE LockInv'
  <1> DEFINE e == [Here(w) EXCEPT !.holder = IF @ = w THEN None ELSE @]
  <1>1. dir' = [dir EXCEPT ![work[w].dir] = e] /\ work' = [work EXCEPT ![w] = Off]
    BY DEF Killed
  <1>2. {"pc", "dir", "next"} \subseteq DOMAIN Off /\ Off.pc = "off"
    BY DEF Off
  <1>3. /\ \A v \in Workers \ {w} : work'[v] = work[v]
        /\ w \in Workers => work'[w] = Off
        /\ work' = [v \in Workers |-> work'[v]]
    BY <1>1 DEF LockInv, WorkShapes
  <1>4. work[w].dir \in Dirs =>
          /\ {"holder", "lockFile"} \subseteq DOMAIN e
          /\ e.holder # None => e.holder = Here(w).holder
          /\ Here(w).holder # w => e.holder = Here(w).holder
          /\ e.lockFile = Here(w).lockFile
    <2> SUFFICES ASSUME {"holder", "lockFile"} \subseteq DOMAIN Here(w)
                 PROVE  /\ {"holder", "lockFile"} \subseteq DOMAIN e
                        /\ e.holder = IF Here(w).holder = w THEN None ELSE Here(w).holder
                        /\ e.lockFile = Here(w).lockFile
      BY DEF LockInv, WorkShapes, Here
    <2> QED OBVIOUS
  <1> HIDE DEF e
  <1>5. WorkShapes'
    BY <1>1, <1>2, <1>3, <1>4 DEF LockInv, WorkShapes
  <1>6. FileOfHolder'
    BY <1>1, <1>4 DEF LockInv, WorkShapes, FileOfHolder, Here
  <1>7. \A d \in Dirs, v \in Workers \ {w} : dir[d].holder = v => dir'[d].holder = v
    BY <1>1, <1>4 DEF LockInv, WorkShapes, Here
  <1>8. ASSUME NEW v \in Workers PROVE Bound(v)' /\ Opened(v)'
    BY <1>2, <1>3, <1>7 DEF LockInv, Bound, Opened, InSection, Here
  <1> QED BY <1>5, <1>6, <1>8 DEF LockInv

\* A new process starts outside the section.
LEMMA LaunchedInv ==
  ASSUME LockInv, NEW w \in Workers, At(w, "off"), NEW d \in Dirs, NEW prepare,
         Launched(w, d, prepare), dir' = dir
  PROVE  LockInv'
  <1> DEFINE r == [Off EXCEPT !.pc = "reconcile", !.dir = d, !.prepare = prepare]
  <1>1. {"pc", "dir", "next"} \subseteq DOMAIN r /\ r.pc = "reconcile" /\ r.dir = d
    BY DEF Off
  <1>2. work' = [work EXCEPT ![w] = r]
    BY DEF Launched
  <1> HIDE DEF r
  <1>3. WorkShapes' /\ work'[w] = r /\ \A v \in Workers \ {w} : work'[v] = work[v]
    BY <1>1, <1>2 DEF LockInv, WorkShapes
  <1>4. Bound(w)' /\ Opened(w)' /\ FileOfHolder'
    BY <1>1, <1>3 DEF LockInv, Bound, Opened, InSection, FileOfHolder
  <1> QED BY <1>3, <1>4, OneWorkerMoves

\* A process ends of its own accord only outside the section.
LEMMA OffInv ==
  ASSUME LockInv, NEW w, ~InSection(w), work' = [work EXCEPT ![w] = Off], dir' = dir
  PROVE  LockInv'
  <1>1. {"pc", "dir", "next"} \subseteq DOMAIN Off /\ Off.pc = "off"
    BY DEF Off
  <1>2. WorkShapes' /\ \A v \in Workers : work'[v] = IF v = w THEN Off ELSE work[v]
    BY <1>1 DEF LockInv, WorkShapes
  <1> QED BY <1>1, <1>2 DEF LockInv, Bound, Opened, InSection, FileOfHolder, Here

\* Every step of the library keeps the lock with the worker that is inside.
LEMMA LockNext == CommandInv /\ LockInv /\ [Next]_vars => LockInv'
  <1> SUFFICES ASSUME CommandInv, LockInv, [Next]_vars PROVE LockInv'
    OBVIOUS
  <1>1. ASSUME UNCHANGED <<dir, work>> PROVE LockInv'
    BY <1>1
    DEF LockInv, WorkShapes, Bound, Opened, InSection, FileOfHolder, Here
  <1>2. ASSUME NEW w \in Workers, WorkerNext(w) PROVE LockInv'
    <2>1. CASE WorkerStep(w)
      BY <2>1, LockCreateInv, LockProbeInv, LockUnlinkInv, LockCloseInv, LockDeleteInv,
         OutsideInv, RecoverInv, PublishInv, ThrowsInv
      DEF WorkerStep
    <2>2. CASE Crash(w)
      BY <2>2, KilledInv DEF Crash, Running
    <2>3. CASE Exit(w)
      BY <2>3, OffInv DEF Exit, InSection
    <2> QED BY <1>2, <2>1, <2>2, <2>3 DEF WorkerNext
  <1>3. ASSUME NEW w \in Workers, Serve(w) PROVE LockInv'
    BY <1>3, LaunchedInv DEF Serve
  <1>4. ASSUME NEW c \in Clis, CliNext(c) PROVE LockInv'
    <2>1. CASE PrepareLaunch(c)
      <3>1. Target(c) \in Dirs
        BY <2>1, VoiceAssumption
        DEF PrepareLaunch, CommandInv, Sound, Aimed, Target
      <3> QED BY <2>1, <3>1, LaunchedInv DEF PrepareLaunch
    <2>2. CASE PrepareReady(c)
      BY <2>2, OffInv DEF PrepareReady, InSection
    <2>3. CASE PrepareTimeout(c)
      BY <2>3, KilledInv DEF PrepareTimeout
    <2>4. CASE ~(PrepareLaunch(c) \/ PrepareReady(c) \/ PrepareTimeout(c))
      <3>1. UNCHANGED <<dir, work>>
        BY <1>4, <2>4
        DEF CliNext, AddStart, AddLock, AddClean, AddCheck, AddPublish, AddRegister,
            AddRollback, PrepareStart, PrepareCheck, PrepareLock, PrepareWrite, Unlock,
            Return, CliCrash
      <3> QED BY <3>1, <1>1
    <2> QED BY <2>1, <2>2, <2>3, <2>4
  <1>5. CASE EditSource
    BY <1>1, <1>5 DEF EditSource, Edit
  <1>6. CASE UNCHANGED vars
    BY <1>1, <1>6 DEF vars
  <1> QED BY <1>2, <1>3, <1>4, <1>5, <1>6 DEF Next

\* However many workers share a directory and wherever they are killed, the probe
\* and the deletions of PublicationLock never let two of them publish, recover or
\* roll back there at the same time.
THEOREM OneAtATime == Spec => []OnePublisher
  <1>1. LockInv => OnePublisher
    BY DEF LockInv, Opened, OnePublisher, Here
  <1>2. Spec => []LockInv
    BY LockInit, LockNext, CommandsSound, PTL DEF Spec
  <1> QED BY <1>1, <1>2, PTL

-----------------------------------------------------------------------------
(* What a registered voice can rely on *)

\* Every artifact that the manifest of a directory names is there.
Committed(d) ==
  d.manifest # NoManifest => \A k \in Kinds : File(d.manifest.gen, k) \in d.files

\* A publisher that has not renamed its manifest yet, or that rolls back, finds none;
\* and the artifacts that it has renamed are still there.
Progress(w) ==
  /\ At(w, "publish") =>
       /\ work[w].step \in 1..Len(PublishOrder)
       /\ work[w].step < Len(PublishOrder) => Here(w).manifest = NoManifest
       /\ work[w].step > 4 => File(work[w].gen, "spk") \in Here(w).files
       /\ ~XVectorOnly /\ work[w].step > 5 => File(work[w].gen, "rvq") \in Here(w).files
  /\ At(w, "rollback") => Here(w).manifest = NoManifest

Shapes ==
  /\ \A d \in Dirs : {"manifest", "files", "marker"} \subseteq DOMAIN dir[d]
  /\ \A w \in Workers : {"gen", "step"} \subseteq DOMAIN work[w]

ContentInv ==
  /\ Shapes
  /\ \A d \in Dirs : Committed(dir[d])
  /\ \A w \in Workers : Progress(w)

\* A row has its entry, and a manifest for each binding it lists.
Rowed(v) ==
  registry[v] # NoRow =>
    /\ entry[v] = "whole"
    /\ \A b \in registry[v].refs : dir[<<v, b>>].manifest # NoManifest

\* What a command knows of the entry and of the directory it is about to register.
Knows(c) ==
  /\ CAt(c, "register") => entry[cli[c].v] = "whole"
  /\ CAt(c, "rollback") => registry[cli[c].v] = NoRow
  /\ cli[c].pc \in {"launch", "wait", "check", "reg lock", "write"} => cli[c].row # NoRow
  /\ cli[c].pc \in {"reg lock", "write"} => dir[Target(c)].manifest # NoManifest

UsableInv ==
  /\ entry = [v \in Voices |-> entry[v]]
  /\ \A v \in Voices : Rowed(v)
  /\ \A c \in Clis : Knows(c)

\* p is made of s, t and u; and element by element if they have three, one or two, and two.
Joins(p, s, t, u) ==
  /\ Len(p) = Len(s) + Len(t) + Len(u)
  /\ \A i \in 1..Len(s) : p[i] = s[i]
  /\ \A i \in 1..Len(t) : p[i + Len(s)] = t[i]
  /\ \A i \in 1..Len(u) : p[i + (Len(s) + Len(t))] = u[i]

Lists(p, s, t, u) ==
  /\ p[1] = s[1] /\ p[2] = s[2] /\ p[3] = s[3] /\ p[4] = t[1]
  /\ Len(t) = 1 => Len(p) = 6 /\ p[5] = u[1] /\ p[6] = u[2]
  /\ Len(t) = 2 => Len(p) = 7 /\ p[5] = t[2] /\ p[6] = u[1] /\ p[7] = u[2]

\* What a concatenation of three sequences is made of.
LEMMA Concatenated ==
  ASSUME NEW S, NEW s \in Seq(S), NEW t \in Seq(S), NEW u \in Seq(S)
  PROVE  Joins((s \o t) \o u, s, t, u)
  <1>1. /\ s \o t \in Seq(S) /\ Len(s \o t) = Len(s) + Len(t)
        /\ \A i \in 1..Len(s) : (s \o t)[i] = s[i]
    OBVIOUS
  <1>2. \A i \in 1..Len(t) : (s \o t)[i + Len(s)] = t[i]
    OBVIOUS
  <1>3. PICK st \in Seq(S) : st = s \o t
    BY <1>1
  <1>4. /\ Len(st \o u) = Len(st) + Len(u)
        /\ \A i \in 1..Len(st) : (st \o u)[i] = st[i]
    OBVIOUS
  <1>5. \A i \in 1..Len(u) : (st \o u)[i + Len(st)] = u[i]
    OBVIOUS
  <1>6. Len(st) = Len(s) + Len(t) /\ Len(s) \in Nat /\ Len(t) \in Nat
    BY <1>1, <1>3
  <1>7. /\ \A i \in 1..Len(s) : i \in 1..Len(st)
        /\ \A i \in 1..Len(t) : i + Len(s) \in 1..Len(st)
    BY <1>6
  <1> QED BY <1>1, <1>2, <1>3, <1>4, <1>5, <1>6, <1>7 DEF Joins

\* The same, element by element.
LEMMA ThreeParts ==
  ASSUME NEW s, NEW t, NEW u, NEW p, Joins(p, s, t, u),
         Len(s) = 3, Len(t) \in 1..2, Len(u) = 2
  PROVE  Lists(p, s, t, u)
  <1>1. p[1] = s[1] /\ p[2] = s[2] /\ p[3] = s[3]
    BY DEF Joins
  <1>2. p[4] = t[1] /\ (Len(t) = 2 => p[5] = t[2])
    BY DEF Joins
  <1>3. Len(p) = 5 + Len(t) /\ p[4 + Len(t)] = u[1] /\ p[5 + Len(t)] = u[2]
    BY DEF Joins
  <1>4. Len(t) = 1 => Len(p) = 6 /\ p[5] = u[1] /\ p[6] = u[2]
    BY <1>3
  <1>5. Len(t) = 2 => Len(p) = 7 /\ p[6] = u[1] /\ p[7] = u[2]
    BY <1>3
  <1> QED BY <1>1, <1>2, <1>4, <1>5 DEF Lists

\* The operations of a publication, one by one.
LEMMA OrderFacts ==
  /\ Len(PublishOrder) = (IF XVectorOnly THEN 6 ELSE 7)
  /\ PublishOrder[1] = "write marker" /\ PublishOrder[2] = "marker"
  /\ PublishOrder[3] = "write" /\ PublishOrder[4] = "spk"
  /\ XVectorOnly => PublishOrder[5] = "manifest" /\ PublishOrder[6] = "unmark"
  /\ ~XVectorOnly => /\ PublishOrder[5] = "rvq"
                     /\ PublishOrder[6] = "manifest" /\ PublishOrder[7] = "unmark"
  <1> DEFINE Ops == {"write marker", "marker", "write", "spk", "rvq", "manifest", "unmark"}
  <1>1. <<"write marker", "marker", "write">> \in Seq(Ops)
    OBVIOUS
  <1>2. <<"manifest", "unmark">> \in Seq(Ops)
    OBVIOUS
  <1>3. <<"spk">> \in Seq(Ops)
    OBVIOUS
  <1>4. <<"spk", "rvq">> \in Seq(Ops)
    OBVIOUS
  <1> HIDE DEF Ops
  <1>5. PICK s \in Seq(Ops) : s = <<"write marker", "marker", "write">>
    BY <1>1
  <1>6. PICK u \in Seq(Ops) : u = <<"manifest", "unmark">>
    BY <1>2
  <1>7. PICK t \in Seq(Ops) : t = IF XVectorOnly THEN <<"spk">> ELSE <<"spk", "rvq">>
    BY <1>3, <1>4
  <1>8. PublishOrder = (s \o t) \o u
    BY <1>5, <1>6, <1>7 DEF PublishOrder
  <1>9. Len(s) = 3 /\ Len(u) = 2
    BY <1>5, <1>6
  <1>10. Len(t) = IF XVectorOnly THEN 1 ELSE 2
    BY <1>7
  <1>11. Len(t) \in 1..2
    BY <1>10
  <1>12. Lists(PublishOrder, s, t, u)
    <2>1. Joins(PublishOrder, s, t, u)
      BY <1>8, Concatenated
    <2> QED BY <1>9, <1>11, <2>1, ThreeParts
  <1>13. /\ s[1] = "write marker" /\ s[2] = "marker" /\ s[3] = "write"
         /\ u[1] = "manifest" /\ u[2] = "unmark"
    BY <1>5, <1>6
  <1>14. t[1] = "spk" /\ (~XVectorOnly => t[2] = "rvq")
    BY <1>7
  <1> QED BY <1>10, <1>12, <1>13, <1>14 DEF Lists

\* Directories that were never used are committed, and every worker is off.
LEMMA ContentInit == Init => ContentInv
  <1> SUFFICES ASSUME Init PROVE ContentInv
    OBVIOUS
  <1>1. dir = [d \in Dirs |-> EmptyDir] /\ work = [w \in Workers |-> Off]
    BY DEF Init, PrepInit
  <1>2. Shapes /\ \A d \in Dirs : Committed(dir[d])
    BY <1>1 DEF Shapes, EmptyDir, Off, Committed
  <1>3. \A w \in Workers : work[w].pc = "off"
    BY <1>1 DEF Off
  <1> QED BY <1>2, <1>3 DEF ContentInv, Progress

\* Manifest and files of a directory are the same.
SameContent(d, e) ==
  /\ {"manifest", "files", "marker"} \subseteq DOMAIN e
  /\ e.manifest = d.manifest /\ e.files = d.files

\* No worker but w moves.
OnlyMoves(w) == \A v \in Workers \ {w} : work'[v] = work[v]

\* A manifest is never taken away.
Persist == \A d \in Dirs : dir[d].manifest # NoManifest => dir'[d].manifest # NoManifest

\* A worker moves, and changes at most a lock.
LEMMA ContentUntouched ==
  ASSUME ContentInv, NEW w, OnlyMoves(w), w \in Workers => {"gen", "step"} \subseteq DOMAIN work'[w],
         \A d \in Dirs : SameContent(dir[d], dir'[d]),
         \A v \in Workers : InSection(v) => work[v].dir \in Dirs,
         w \in Workers => work'[w].pc \notin {"publish", "rollback"}
  PROVE  ContentInv' /\ Persist
  <1>1. Shapes' /\ Persist
    BY DEF ContentInv, Shapes, SameContent, OnlyMoves, Persist
  <1>2. ASSUME NEW d \in Dirs PROVE Committed(dir[d])'
    BY <1>2 DEF ContentInv, SameContent, Committed
  <1>3. ASSUME NEW v \in Workers PROVE Progress(v)'
    <2>1. CASE v = w
      BY <2>1 DEF Progress
    <2>2. CASE v # w
      <3>1. work'[v] = work[v]
        BY <2>2 DEF OnlyMoves
      <3>2. CASE work[v].pc \in {"publish", "rollback"}
        <4>1. SameContent(Here(v), Here(v)')
          BY <3>1, <3>2 DEF InSection, Here
        <4> QED BY <3>1, <3>2, <4>1 DEF ContentInv, Progress, SameContent
      <3>3. CASE work[v].pc \notin {"publish", "rollback"}
        BY <3>1, <3>3 DEF Progress
      <3> QED BY <3>2, <3>3
    <2> QED BY <2>1, <2>2
  <1> QED BY <1>1, <1>2, <1>3 DEF ContentInv

\* The worker inside the section changes the directory: nobody else is inside.
LEMMA ContentChanged ==
  ASSUME LockInv, ContentInv, NEW w \in Workers, InSection(w), OnlyMoves(w),
         {"gen", "step"} \subseteq DOMAIN work'[w], work'[w].dir = work[w].dir,
         NEW e, dir' = [dir EXCEPT ![work[w].dir] = e],
         {"manifest", "files", "marker"} \subseteq DOMAIN e, Committed(e), Progress(w)',
         Here(w).manifest # NoManifest => e.manifest # NoManifest
  PROVE  ContentInv' /\ Persist
  <1>1. work[w].dir \in Dirs /\ WorkShapes
    BY DEF LockInv, Bound, InSection
  <1>2. \A d \in Dirs : dir'[d] = IF d = work[w].dir THEN e ELSE dir[d]
    BY <1>1 DEF WorkShapes
  <1>3. Shapes' /\ Persist
    BY <1>2 DEF ContentInv, Shapes, OnlyMoves, Persist, Here
  <1>4. ASSUME NEW d \in Dirs PROVE Committed(dir[d])'
    <2>1. dir'[d] = e \/ dir'[d] = dir[d]
      BY <1>2
    <2> QED BY <2>1 DEF ContentInv, Committed
  <1>5. ASSUME NEW v \in Workers \ {w} PROVE Progress(v)'
    <2>1. work'[v] = work[v]
      BY DEF OnlyMoves
    <2>2. CASE work[v].pc \in {"publish", "rollback"}
      <3>1. work[v].dir \in Dirs /\ work[v].dir # work[w].dir
        BY <2>2 DEF LockInv, Bound, Opened, InSection, Here
      <3>2. Here(v)' = Here(v)
        BY <1>2, <2>1, <3>1 DEF Here
      <3> QED BY <2>1, <2>2, <3>2 DEF ContentInv, Progress
    <2>3. CASE work[v].pc \notin {"publish", "rollback"}
      BY <2>1, <2>3 DEF Progress
    <2> QED BY <2>2, <2>3
  <1> QED BY <1>3, <1>4, <1>5 DEF ContentInv
\* The steps of PublicationLock, and those outside of the section, change no content.
LEMMA OutsideContent ==
  ASSUME LockInv, ContentInv, NEW w \in Workers,
         \/ LockCreate(w) \/ LockProbe(w) \/ LockUnlink(w) \/ LockClose(w) \/ LockDelete(w)
         \/ Reconcile(w) \/ Look(w) \/ Extract(w) \/ Context(w) \/ Throws(w)
  PROVE  ContentInv' /\ Persist
  <1>1. WorkShapes /\ Shapes /\ work[w].dir \in Dirs /\ Bound(w)
    BY DEF LockInv, ContentInv, Bound, LockCreate, LockProbe, LockUnlink, LockClose,
           LockDelete, Reconcile, Look, Extract, Context, Throws
  <1>2. \A d \in Dirs : SameContent(dir[d], dir'[d])
    <2>1. CASE dir' = dir
      BY <1>1, <2>1 DEF SameContent, Shapes
    <2>2. CASE LockCreate(w)
      <3> DEFINE e == [Here(w) EXCEPT !.lockFile = TRUE, !.holder = w]
      <3>1. SameContent(Here(w), e)
        BY <1>1 DEF SameContent, Shapes, Here
      <3> HIDE DEF e
      <3>2. dir' = dir \/ dir' = [dir EXCEPT ![work[w].dir] = e]
        BY <2>2 DEF LockCreate, e
      <3> QED BY <1>1, <2>1, <3>1, <3>2 DEF SameContent, WorkShapes, Shapes, Here
    <2>3. CASE LockUnlink(w)
      BY <1>1, <2>1, <2>3 DEF LockUnlink, SameContent, WorkShapes, Shapes, Here
    <2>4. CASE LockClose(w)
      BY <1>1, <2>4 DEF LockClose, SameContent, WorkShapes, Shapes, Here
    <2>5. CASE LockDelete(w)
      BY <1>1, <2>5 DEF LockDelete, SameContent, WorkShapes, Shapes, Here
    <2>6. CASE LockProbe(w) \/ Reconcile(w) \/ Look(w) \/ Extract(w) \/ Context(w) \/ Throws(w)
      BY <2>1, <2>6 DEF LockProbe, Reconcile, Look, Extract, Context, Throws
    <2> QED BY <2>2, <2>3, <2>4, <2>5, <2>6
  <1>3. \A v \in Workers : InSection(v) => work[v].dir \in Dirs
    BY DEF LockInv, Bound, InSection
  <1>4. /\ OnlyMoves(w) /\ {"gen", "step"} \subseteq DOMAIN work'[w]
        /\ work'[w].pc \notin {"publish", "rollback"}
    <2>1. CASE LockCreate(w)
      BY <1>1, <2>1 DEF LockCreate, OnlyMoves, WorkShapes, Shapes
    <2>2. CASE LockProbe(w)
      BY <1>1, <2>2 DEF LockProbe, OnlyMoves, WorkShapes, Shapes
    <2>3. CASE LockUnlink(w)
      BY <1>1, <2>3 DEF LockUnlink, OnlyMoves, WorkShapes, Shapes
    <2>4. CASE LockClose(w)
      BY <1>1, <2>4 DEF LockClose, OnlyMoves, WorkShapes, Shapes
    <2>5. CASE LockDelete(w)
      BY <1>1, <2>5 DEF LockDelete, OnlyMoves, WorkShapes, Shapes, Bound
    <2>6. CASE Reconcile(w)
      BY <1>1, <2>6 DEF Reconcile, OnlyMoves, WorkShapes, Shapes
    <2>7. CASE Look(w)
      BY <1>1, <2>7 DEF Look, OnlyMoves, WorkShapes, Shapes
    <2>8. CASE Extract(w)
      BY <1>1, <2>8 DEF Extract, OnlyMoves, WorkShapes, Shapes
    <2>9. CASE Context(w)
      BY <1>1, <2>9 DEF Context, OnlyMoves, WorkShapes, Shapes
    <2>10. CASE Throws(w)
      BY <1>1, <2>10 DEF Throws, OnlyMoves, WorkShapes, Shapes
    <2> QED BY <2>1, <2>2, <2>3, <2>4, <2>5, <2>6, <2>7, <2>8, <2>9, <2>10
  <1> QED BY <1>2, <1>3, <1>4, ContentUntouched

\* A worker that is killed, launched or ends leaves the content alone.
LEMMA LifeContent ==
  ASSUME LockInv, ContentInv, NEW w,
         \/ ~At(w, "off") /\ Killed(w)
         \/ dir' = dir /\ work' = [work EXCEPT ![w] = Off]
         \/ dir' = dir /\ \E d, p : Launched(w, d, p)
  PROVE  ContentInv' /\ Persist
  <1>1. WorkShapes /\ Shapes
    BY DEF LockInv, ContentInv
  <1>2. \A d \in Dirs : SameContent(dir[d], dir'[d])
    <2>1. CASE dir' = dir
      BY <1>1, <2>1 DEF SameContent, Shapes
    <2>2. CASE Killed(w)
      BY <1>1, <2>2 DEF Killed, SameContent, WorkShapes, Shapes, Here
    <2> QED BY <2>1, <2>2
  <1>3. \A v \in Workers : InSection(v) => work[v].dir \in Dirs
    BY DEF LockInv, Bound, InSection
  <1>4. PICK r : /\ {"gen", "step"} \subseteq DOMAIN r /\ r.pc \in {"off", "reconcile"}
                 /\ work' = [work EXCEPT ![w] = r]
    <2>1. CASE work' = [work EXCEPT ![w] = Off]
      <3>1. {"gen", "step"} \subseteq DOMAIN Off /\ Off.pc = "off"
        BY DEF Off
      <3> QED BY <2>1, <3>1
    <2>2. CASE \E d, p : Launched(w, d, p)
      <3>1. PICK d, p : Launched(w, d, p)
        BY <2>2
      <3> DEFINE r == [Off EXCEPT !.pc = "reconcile", !.dir = d, !.prepare = p]
      <3>2. {"gen", "step"} \subseteq DOMAIN r /\ r.pc = "reconcile"
        BY DEF Off
      <3>3. work' = [work EXCEPT ![w] = r]
        BY <3>1 DEF Launched
      <3> QED BY <3>2, <3>3
    <2> QED BY <2>1, <2>2 DEF Killed
  <1>5. OnlyMoves(w) /\ (w \in Workers => work'[w] = r)
    BY <1>1, <1>4 DEF OnlyMoves, WorkShapes
  <1> QED BY <1>2, <1>3, <1>4, <1>5, ContentUntouched
Fields == {"manifest", "files", "marker"}

\* recover_incomplete_publication_locked moves files only as long as there is no manifest.
LEMMA RecoverContent ==
  ASSUME LockInv, ContentInv, NEW w \in Workers, Recover(w)
  PROVE  ContentInv' /\ Persist
  <1> DEFINE e == Quarantined(Here(w))
  <1>1. /\ WorkShapes /\ Shapes /\ InSection(w) /\ work[w].dir \in Dirs
        /\ Fields \subseteq DOMAIN Here(w)
    BY DEF LockInv, ContentInv, Shapes, Bound, Recover, InSection, Here, Fields
  <1>2. Here(w).manifest = NoManifest /\ dir' = [dir EXCEPT ![work[w].dir] = e] /\ work' = work
    BY DEF Recover, NothingToRecover
  <1>3. Fields \subseteq DOMAIN e /\ e.manifest = Here(w).manifest
    BY <1>1 DEF Quarantined, Fields
  <1> HIDE DEF e
  <1>4. Committed(e) /\ Progress(w)' /\ OnlyMoves(w)
    BY <1>2, <1>3 DEF Committed, Progress, OnlyMoves, Recover
  <1> QED BY <1>1, <1>2, <1>3, <1>4, ContentChanged DEF Shapes, Fields

\* After the recovery a publisher goes on only if there is no manifest.
LEMMA RecoveredContent ==
  ASSUME LockInv, ContentInv, NEW w \in Workers, Recovered(w)
  PROVE  ContentInv' /\ Persist
  <1>1. /\ WorkShapes /\ Shapes /\ InSection(w) /\ work[w].dir \in Dirs
        /\ Fields \subseteq DOMAIN Here(w)
    BY DEF LockInv, ContentInv, Shapes, Bound, Recovered, InSection, Here, Fields
  <1>2. \/ /\ dir' = dir \/ dir' = [dir EXCEPT ![work[w].dir] = [Here(w) EXCEPT !.marker = NoGen]]
           /\ \E x : work' = [work EXCEPT ![w].pc = "close", ![w].next = x]
        \/ /\ Here(w).manifest = NoManifest
           /\ \E m : dir' = [dir EXCEPT ![work[w].dir] = [Here(w) EXCEPT !.made = m]]
           /\ \E g : work' = [work EXCEPT ![w].pc = "publish", ![w].gen = g, ![w].step = 1]
    BY DEF Recovered
  <1>3. CASE /\ dir' = dir \/ dir' = [dir EXCEPT ![work[w].dir] = [Here(w) EXCEPT !.marker = NoGen]]
             /\ \E x : work' = [work EXCEPT ![w].pc = "close", ![w].next = x]
    <2>1. \A d \in Dirs : SameContent(dir[d], dir'[d])
      <3> DEFINE e == [Here(w) EXCEPT !.marker = NoGen]
      <3>1. SameContent(Here(w), e)
        BY <1>1 DEF SameContent, Fields
      <3> HIDE DEF e
      <3>2. dir' = dir \/ dir' = [dir EXCEPT ![work[w].dir] = e]
        BY <1>3 DEF e
      <3> QED BY <1>1, <3>1, <3>2 DEF SameContent, WorkShapes, Shapes, Here
    <2>2. \A v \in Workers : InSection(v) => work[v].dir \in Dirs
      BY DEF LockInv, Bound, InSection
    <2>3. /\ OnlyMoves(w) /\ {"gen", "step"} \subseteq DOMAIN work'[w]
          /\ work'[w].pc \notin {"publish", "rollback"}
      BY <1>1, <1>3 DEF OnlyMoves, WorkShapes, Shapes
    <2> QED BY <2>1, <2>2, <2>3, ContentUntouched
  <1>4. CASE /\ Here(w).manifest = NoManifest
             /\ \E m : dir' = [dir EXCEPT ![work[w].dir] = [Here(w) EXCEPT !.made = m]]
             /\ \E g : work' = [work EXCEPT ![w].pc = "publish", ![w].gen = g, ![w].step = 1]
    <2>1. PICK m : dir' = [dir EXCEPT ![work[w].dir] = [Here(w) EXCEPT !.made = m]]
      BY <1>4
    <2>2. PICK e : /\ dir' = [dir EXCEPT ![work[w].dir] = e]
                   /\ Fields \subseteq DOMAIN e /\ e.manifest = NoManifest
      <3>1. /\ Fields \subseteq DOMAIN [Here(w) EXCEPT !.made = m]
            /\ [Here(w) EXCEPT !.made = m].manifest = NoManifest
        BY <1>1, <1>4 DEF Fields
      <3> QED BY <2>1, <3>1
    <2>3. /\ OnlyMoves(w) /\ {"gen", "step"} \subseteq DOMAIN work'[w]
          /\ work'[w].pc = "publish" /\ work'[w].step = 1 /\ work'[w].dir = work[w].dir
      BY <1>1, <1>4 DEF OnlyMoves, WorkShapes, Shapes
    <2>4. Here(w)' = e
      BY <1>1, <2>2, <2>3 DEF WorkShapes, Here
    <2>5. Len(PublishOrder) \in {6, 7}
      BY OrderFacts
    <2>6. Committed(e)
      BY <2>2 DEF Committed
    <2>7. Progress(w)'
      <3>1. 1 \in 1..Len(PublishOrder)
        BY <2>5
      <3>2. ~(work'[w].step > 4) /\ ~(work'[w].step > 5)
        BY <2>3
      <3> QED BY <2>2, <2>3, <2>4, <3>1, <3>2 DEF Progress
    <2> QED BY <1>1, <1>4, <2>2, <2>3, <2>6, <2>7, ContentChanged DEF Fields
  <1> QED BY <1>2, <1>3, <1>4

\* What an operation of a publication does to the files that count.
LEMMA PublishedContent ==
  ASSUME NEW d, Fields \subseteq DOMAIN d, NEW gen, NEW hash, NEW op, NEW e,
         e = Published(d, gen, hash, op)
  PROVE  /\ Fields \subseteq DOMAIN e
         /\ op # "manifest" => e.manifest = d.manifest
         /\ op = "manifest" => e.manifest = [gen |-> gen, hash |-> hash]
         /\ \A g : \A k \in {"spk", "rvq"} : File(g, k) \in d.files => File(g, k) \in e.files
         /\ op = "spk" => File(gen, "spk") \in e.files
         /\ op = "rvq" => File(gen, "rvq") \in e.files
  <1>1. CASE op = "write marker"
    BY <1>1 DEF Published, Fields
  <1>2. CASE op = "marker"
    BY <1>2 DEF Published, Fields, File
  <1>3. CASE op = "write"
    BY <1>3 DEF Published, Fields
  <1>4. CASE op = "spk"
    BY <1>4 DEF Published, Fields, Renamed, File
  <1>5. CASE op = "rvq"
    BY <1>5 DEF Published, Fields, Renamed, File
  <1>6. CASE op = "manifest"
    BY <1>6 DEF Published, Fields, File
  <1>7. CASE op \notin {"write marker", "marker", "write", "spk", "rvq", "manifest"}
    BY <1>7 DEF Published, Fields
  <1> QED BY <1>1, <1>2, <1>3, <1>4, <1>5, <1>6, <1>7

\* The manifest is renamed after the artifacts that it names.
LEMMA PublishContent ==
  ASSUME LockInv, ContentInv, NEW w \in Workers, Publish(w)
  PROVE  ContentInv' /\ Persist
  <1> DEFINE n == Len(PublishOrder)
  <1>1. /\ WorkShapes /\ Shapes /\ InSection(w) /\ work[w].dir \in Dirs /\ Progress(w)
        /\ Fields \subseteq DOMAIN Here(w) /\ Committed(Here(w)) /\ At(w, "publish")
    BY DEF LockInv, ContentInv, Shapes, Bound, Publish, InSection, Here, Fields
  <1>2. PICK i, g, op : i = work[w].step /\ g = work[w].gen /\ op = PublishOrder[work[w].step]
    OBVIOUS
  <1>3. PICK e : e = Published(Here(w), g, work[w].hash, op)
    OBVIOUS
  <1>4. dir' = [dir EXCEPT ![work[w].dir] = e]
    BY <1>2, <1>3 DEF Publish
  <1>5. /\ i \in 1..n /\ n \in {6, 7} /\ (XVectorOnly => n = 6) /\ (~XVectorOnly => n = 7)
        /\ i < n => Here(w).manifest = NoManifest
        /\ i > 4 => File(g, "spk") \in Here(w).files
        /\ ~XVectorOnly /\ i > 5 => File(g, "rvq") \in Here(w).files
    BY <1>1, <1>2, OrderFacts DEF Progress
  <1> HIDE DEF n
  <1>6. /\ op = "manifest" => i = n - 1
        /\ i = 4 => op = "spk"
        /\ ~XVectorOnly /\ i = 5 => op = "rvq"
    <2>1. i \in {1, 2, 3, 4, 5, 6, 7}
      BY <1>5
    <2>2. /\ i = 1 => op = "write marker"
          /\ i = 2 => op = "marker"
          /\ i = 3 => op = "write"
          /\ i = 4 => op = "spk"
          /\ XVectorOnly /\ i = 6 => op = "unmark"
          /\ ~XVectorOnly => (i = 5 => op = "rvq") /\ (i = 7 => op = "unmark")
      BY <1>2, OrderFacts
    <2>3. op = "manifest" => i \in {5, 6, 7} /\ (XVectorOnly => i = 5) /\ (~XVectorOnly => i = 6)
      BY <1>5, <2>1, <2>2
    <2>4. (XVectorOnly => n - 1 = 5) /\ (~XVectorOnly => n - 1 = 6)
      BY <1>5
    <2> QED BY <2>2, <2>3, <2>4
  <1>7. /\ Fields \subseteq DOMAIN e
        /\ op # "manifest" => e.manifest = Here(w).manifest
        /\ op = "manifest" => e.manifest = [gen |-> g, hash |-> work[w].hash]
        /\ \A h : \A k \in {"spk", "rvq"} : File(h, k) \in Here(w).files => File(h, k) \in e.files
        /\ op = "spk" => File(g, "spk") \in e.files
        /\ op = "rvq" => File(g, "rvq") \in e.files
    BY <1>1, <1>3, PublishedContent
  <1>8. Kinds \subseteq {"spk", "rvq"} /\ (XVectorOnly => Kinds = {"spk"})
    BY DEF Kinds
  <1>9. Committed(e)
    <2>1. CASE op = "manifest"
      <3>1. e.manifest.gen = g /\ i > 4 /\ (~XVectorOnly => i > 5)
        BY <1>5, <1>6, <1>7, <2>1
      <3> QED BY <1>5, <1>7, <1>8, <3>1 DEF Committed
    <2>2. CASE op # "manifest"
      BY <1>1, <1>7, <1>8, <2>2 DEF Committed
    <2> QED BY <2>1, <2>2
  <1>10. Here(w).manifest # NoManifest => e.manifest # NoManifest
    BY <1>5, <1>6, <1>7
  <1>11. \/ /\ i = n /\ \E x : work' = [work EXCEPT ![w].pc = "close", ![w].next = x]
         \/ /\ i # n /\ work' = [work EXCEPT ![w].step = @ + 1]
    BY <1>2 DEF Publish, n
  <1>12. /\ OnlyMoves(w) /\ {"gen", "step"} \subseteq DOMAIN work'[w]
         /\ work'[w].dir = work[w].dir
         /\ \/ work'[w].pc = "close"
            \/ i # n /\ work'[w].pc = "publish" /\ work'[w].step = i + 1 /\ work'[w].gen = g
    <2>1. CASE \E x : work' = [work EXCEPT ![w].pc = "close", ![w].next = x]
      BY <1>1, <2>1 DEF OnlyMoves, WorkShapes, Shapes
    <2>2. CASE i # n /\ work' = [work EXCEPT ![w].step = @ + 1]
      BY <1>1, <1>2, <2>2 DEF OnlyMoves, WorkShapes, Shapes
    <2> QED BY <1>11, <2>1, <2>2
  <1>13. Here(w)' = e
    BY <1>1, <1>4, <1>12 DEF WorkShapes, Here
  <1>14. Progress(w)'
    <2>1. CASE work'[w].pc = "close"
      BY <2>1 DEF Progress
    <2>2. CASE i # n /\ work'[w].pc = "publish" /\ work'[w].step = i + 1 /\ work'[w].gen = g
      <3>1. i + 1 \in 1..n /\ (i + 1 < n => e.manifest = NoManifest)
        BY <1>5, <1>6, <1>7, <2>2
      <3>2. i + 1 > 4 => File(g, "spk") \in e.files
        BY <1>5, <1>6, <1>7, <2>2
      <3>3. ~XVectorOnly /\ i + 1 > 5 => File(g, "rvq") \in e.files
        BY <1>5, <1>6, <1>7, <2>2
      <3> QED BY <1>13, <2>2, <3>1, <3>2, <3>3 DEF Progress, n
    <2> QED BY <1>12, <2>1, <2>2
  <1> QED BY <1>1, <1>4, <1>7, <1>9, <1>10, <1>12, <1>14, ContentChanged DEF Fields

\* A publication fails, and is rolled back, only before its manifest is there.
LEMMA RollbackContent ==
  ASSUME LockInv, ContentInv, NEW w \in Workers, PublishFails(w) \/ Rollback(w)
  PROVE  ContentInv' /\ Persist
  <1>1. /\ WorkShapes /\ Shapes /\ InSection(w) /\ work[w].dir \in Dirs /\ Progress(w)
        /\ Fields \subseteq DOMAIN Here(w)
    BY DEF LockInv, ContentInv, Shapes, Bound, PublishFails, Rollback, InSection, Here, Fields
  <1>2. Here(w).manifest = NoManifest
    <2>1. CASE PublishFails(w)
      <3>1. PICK i : i = work[w].step
        OBVIOUS
      <3>2. At(w, "publish") /\ PublishOrder[i] # "unmark"
        BY <2>1, <3>1 DEF PublishFails
      <3>3. PICK n : n = Len(PublishOrder)
        OBVIOUS
      <3>4. i \in 1..n /\ i # n /\ n \in {6, 7}
        BY <1>1, <3>1, <3>2, <3>3, OrderFacts DEF Progress
      <3>5. i < n
        BY <3>4
      <3> QED BY <1>1, <3>1, <3>2, <3>3, <3>5 DEF Progress
    <2>2. CASE Rollback(w)
      BY <1>1, <2>2 DEF Progress, Rollback
    <2> QED BY <2>1, <2>2
  <1>3. PICK e : /\ dir' = [dir EXCEPT ![work[w].dir] = e]
                 /\ Fields \subseteq DOMAIN e /\ e.manifest = NoManifest
    <2>1. \/ dir' = dir
          \/ \E f : dir' = [dir EXCEPT ![work[w].dir] = [Here(w) EXCEPT !.files = f]]
          \/ dir' = [dir EXCEPT ![work[w].dir] = [Here(w) EXCEPT !.marker = NoGen]]
      BY DEF PublishFails, Rollback
    <2>2. /\ \A f : /\ Fields \subseteq DOMAIN [Here(w) EXCEPT !.files = f]
                    /\ [Here(w) EXCEPT !.files = f].manifest = NoManifest
          /\ Fields \subseteq DOMAIN [Here(w) EXCEPT !.marker = NoGen]
          /\ [Here(w) EXCEPT !.marker = NoGen].manifest = NoManifest
      BY <1>1, <1>2 DEF Fields
    <2>3. dir = [dir EXCEPT ![work[w].dir] = Here(w)]
      BY <1>1 DEF WorkShapes, Here
    <2> QED BY <1>1, <1>2, <2>1, <2>2, <2>3
  <1>4. /\ OnlyMoves(w) /\ {"gen", "step"} \subseteq DOMAIN work'[w]
        /\ work'[w].dir = work[w].dir /\ work'[w].pc \in {"rollback", "close"}
    <2>1. \/ \E x : work' = [work EXCEPT ![w].pc = "close", ![w].next = x]
          \/ At(w, "rollback") /\ work' = [work EXCEPT ![w].step = @ + 1]
          \/ work' = [work EXCEPT ![w].pc = "rollback", ![w].step = 1]
      BY DEF PublishFails, Rollback
    <2>2. CASE \E x : work' = [work EXCEPT ![w].pc = "close", ![w].next = x]
      BY <1>1, <2>2 DEF OnlyMoves, WorkShapes, Shapes
    <2>3. CASE At(w, "rollback") /\ work' = [work EXCEPT ![w].step = @ + 1]
      BY <1>1, <2>3 DEF OnlyMoves, WorkShapes, Shapes
    <2>4. CASE work' = [work EXCEPT ![w].pc = "rollback", ![w].step = 1]
      BY <1>1, <2>4 DEF OnlyMoves, WorkShapes, Shapes
    <2> QED BY <2>1, <2>2, <2>3, <2>4
  <1>5. Here(w)' = e
    BY <1>1, <1>3, <1>4 DEF WorkShapes, Here
  <1>6. Committed(e) /\ Progress(w)'
    BY <1>3, <1>4, <1>5 DEF Committed, Progress
  <1> QED BY <1>1, <1>2, <1>3, <1>4, <1>6, ContentChanged DEF Fields

\* Every step of the library keeps what is committed, and no manifest goes away.
LEMMA ContentNext ==
  ASSUME LockInv, ContentInv, [Next]_vars
  PROVE  ContentInv' /\ Persist
  <1>1. ASSUME UNCHANGED <<dir, work>> PROVE ContentInv' /\ Persist
    BY <1>1 DEF ContentInv, Shapes, Committed, Progress, Here, Persist
  <1>2. ASSUME NEW w \in Workers, WorkerNext(w) PROVE ContentInv' /\ Persist
    <2>1. CASE WorkerStep(w)
      BY <2>1, OutsideContent, RecoverContent, RecoveredContent, PublishContent,
         RollbackContent
      DEF WorkerStep
    <2>2. CASE Crash(w)
      BY <2>2, LifeContent DEF Crash, Running
    <2>3. CASE Exit(w)
      BY <2>3, LifeContent DEF Exit
    <2> QED BY <1>2, <2>1, <2>2, <2>3 DEF WorkerNext
  <1>3. ASSUME NEW w \in Workers, Serve(w) PROVE ContentInv' /\ Persist
    BY <1>3, LifeContent DEF Serve
  <1>4. ASSUME NEW c \in Clis, CliNext(c) PROVE ContentInv' /\ Persist
    <2>1. CASE PrepareLaunch(c)
      BY <2>1, LifeContent DEF PrepareLaunch
    <2>2. CASE PrepareReady(c)
      BY <2>2, LifeContent DEF PrepareReady
    <2>3. CASE PrepareTimeout(c)
      BY <2>3, LifeContent DEF PrepareTimeout
    <2>4. CASE ~(PrepareLaunch(c) \/ PrepareReady(c) \/ PrepareTimeout(c))
      <3>1. UNCHANGED <<dir, work>>
        BY <1>4, <2>4
        DEF CliNext, AddStart, AddLock, AddClean, AddCheck, AddPublish, AddRegister,
            AddRollback, PrepareStart, PrepareCheck, PrepareLock, PrepareWrite, Unlock,
            Return, CliCrash
      <3> QED BY <3>1, <1>1
    <2> QED BY <2>1, <2>2, <2>3, <2>4
  <1>5. CASE EditSource
    BY <1>1, <1>5 DEF EditSource, Edit
  <1>6. CASE UNCHANGED vars
    BY <1>1, <1>6 DEF vars
  <1> QED BY <1>2, <1>3, <1>4, <1>5, <1>6 DEF Next
-----------------------------------------------------------------------------
(* The registry, the entries and what the commands know of them *)

\* The voices that were added before have their entries and no references.
LEMMA UsableInit == Init => UsableInv
  <1> SUFFICES ASSUME Init PROVE UsableInv
    OBVIOUS
  <1>1. PICK old \in SUBSET Voices :
          /\ registry = [v \in Voices |-> IF v \in old THEN [refs |-> {}, sha |-> source]
                                         ELSE NoRow]
          /\ entry = [v \in Voices |-> IF v \in old THEN "whole" ELSE "absent"]
    BY DEF Init
  <1>2. \A v \in Voices : Rowed(v)
    BY <1>1 DEF Rowed
  <1>3. \A c \in Clis : cli[c].pc = "idle"
    BY DEF Init, Idle
  <1>4. \A c \in Clis : Knows(c)
    BY <1>3 DEF Knows
  <1> QED BY <1>1, <1>2, <1>4 DEF UsableInv

\* A row that does not change keeps what it can rely on, for manifests stay.
LEMMA RowedKept ==
  ASSUME Types, UsableInv, Persist, NEW v \in Voices,
         registry'[v] = registry[v], registry[v] # NoRow => entry'[v] = entry[v]
  PROVE  Rowed(v)'
  <1>1. Rowed(v)
    BY DEF UsableInv
  <1>2. \A b \in registry[v].refs : <<v, b>> \in Dirs
    BY VoiceAssumption DEF Types, Row
  <1> QED BY <1>1, <1>2 DEF Rowed, Persist

\* A command that works has a directory of Dirs in mind once it prepares.
LEMMA TargetThere ==
  ASSUME CommandInv, NEW c \in Clis,
         cli[c].pc \in {"launch", "wait", "check", "reg lock", "write"}
  PROVE  Target(c) \in Dirs
  <1>1. cli[c].v \in Voices /\ cli[c].b \in Bindings
    BY DEF CommandInv, Sound, Aimed
  <1> QED BY <1>1, VoiceAssumption DEF Target

\* One command moves and changes rows and entries only under its lock: what the
\* others know stays true.
LEMMA UsableMoves ==
  ASSUME CommandInv, UsableInv, Persist, NEW c \in Clis, Others(c), Knows(c)',
         entry' = [v \in Voices |-> entry'[v]], \A v \in Voices : Rowed(v)',
         UNCHANGED <<registry, entry>> \/ regLock = c
  PROVE  UsableInv'
  <1>1. ASSUME NEW k \in Clis \ {c} PROVE Knows(k)'
    <2>1. Knows(k) /\ Sound(k)
      BY DEF UsableInv, CommandInv
    <2>2. /\ cli'[k].pc = cli[k].pc /\ cli'[k].v = cli[k].v /\ cli'[k].b = cli[k].b
          /\ cli'[k].row = cli[k].row
      BY DEF Others
    <2>3. cli[k].pc \in {"register", "rollback"} => UNCHANGED <<registry, entry>>
      BY <2>1 DEF Sound, Locked, Holding
    <2>4. cli[k].pc \in {"reg lock", "write"} => dir'[Target(k)].manifest # NoManifest
      BY <2>1, TargetThere DEF Knows, Persist
    <2>5. Target(k)' = Target(k)
      BY <2>2 DEF Target
    <2> QED BY <2>1, <2>2, <2>3, <2>4, <2>5 DEF Knows
  <1> QED BY <1>1 DEF UsableInv

\* What a command needs to know to go to position x.
Enough(c, x) ==
  /\ x \in Positions \ {"register"}
  /\ x = "rollback" => registry[cli[c].v] = NoRow
  /\ x \in {"launch", "wait", "check", "reg lock", "write"} => cli[c].row # NoRow
  /\ x \in {"reg lock", "write"} =>
       Target(c) \in Dirs /\ dir[Target(c)].manifest # NoManifest

\* It goes there and leaves the rows and the entries as they are.
LEMMA UsableGoes ==
  ASSUME CommandInv, UsableInv, Persist, NEW c \in Clis, NEW x, Enough(c, x),
         \/ cli' = [cli EXCEPT ![c].pc = x]
         \/ cli' = Disturb([cli EXCEPT ![c].pc = x]),
         UNCHANGED <<registry, entry>>
  PROVE  UsableInv'
  <1>1. Types
    BY DEF CommandInv
  <1>2. /\ Others(c) /\ cli'[c].pc = x /\ cli'[c].v = cli[c].v /\ cli'[c].b = cli[c].b
        /\ cli'[c].row = cli[c].row
    BY <1>1, CommandGoes DEF Enough
  <1>3. Target(c)' = Target(c)
    BY <1>2 DEF Target
  <1>4. Knows(c)'
    BY <1>2, <1>3 DEF Enough, Knows, Persist
  <1>5. \A v \in Voices : Rowed(v)'
    BY <1>1, RowedKept
  <1> QED BY <1>2, <1>4, <1>5, UsableMoves DEF UsableInv

\* No command moves.
LEMMA UsableRests ==
  ASSUME CommandInv, UsableInv, Persist, cli' = cli \/ cli' = Disturb(cli),
         UNCHANGED <<registry, entry>>
  PROVE  UsableInv'
  <1>1. Types
    BY DEF CommandInv
  <1>2. \A k \in Clis : /\ cli'[k].pc = cli[k].pc /\ cli'[k].v = cli[k].v
                        /\ cli'[k].b = cli[k].b /\ cli'[k].row = cli[k].row
    BY <1>1, DisturbOnly DEF Types
  <1>3. ASSUME NEW k \in Clis PROVE Knows(k)'
    <2>1. Knows(k)
      BY DEF UsableInv
    <2>2. cli[k].pc \in {"reg lock", "write"} => dir'[Target(k)].manifest # NoManifest
      BY <2>1, TargetThere DEF Knows, Persist
    <2>3. Target(k)' = Target(k)
      BY <1>2 DEF Target
    <2> QED BY <1>2, <2>1, <2>2, <2>3 DEF Knows
  <1>4. \A v \in Voices : Rowed(v)'
    BY <1>1, RowedKept
  <1> QED BY <1>3, <1>4 DEF UsableInv
\* A command that gets a new record knows what the record says; one that is not at
\* a place where it has to know something knows enough.
Ignorant == {"idle", "lock", "clean", "stage", "unlock ok", "unlock error", "ok", "error"}

LEMMA UsableSets ==
  ASSUME CommandInv, UsableInv, Persist, NEW c \in Clis, NEW r \in Command,
         \/ r.pc \in Ignorant
         \/ r.pc \in {"launch", "wait", "check"} /\ r.row # NoRow,
         \/ cli' = [cli EXCEPT ![c] = r]
         \/ cli' = Disturb([cli EXCEPT ![c] = r])
         \/ cli' = [Disturb(cli) EXCEPT ![c] = r],
         UNCHANGED <<registry, entry>>
  PROVE  UsableInv'
  <1>1. Types
    BY DEF CommandInv
  <1>2. Others(c) /\ cli'[c].pc = r.pc /\ cli'[c].row = r.row
    BY <1>1, CommandSet
  <1>3. Knows(c)'
    BY <1>2 DEF Knows, Ignorant
  <1>4. \A v \in Voices : Rowed(v)'
    BY <1>1, RowedKept
  <1> QED BY <1>2, <1>3, <1>4, UsableMoves DEF UsableInv

\* add_voice up to the rename of its staged entry.
LEMMA UsableAddBegins ==
  ASSUME CommandInv, UsableInv, Persist, NEW c \in Clis,
         (\E v \in Voices : AddStart(c, v)) \/ AddLock(c) \/ AddCheck(c)
  PROVE  UsableInv'
  <1>1. Types
    BY DEF CommandInv
  <1>2. ASSUME NEW v \in Voices, AddStart(c, v) PROVE UsableInv'
    <2> DEFINE r == [Idle EXCEPT !.pc = "lock", !.v = v, !.alone = Quiet]
    <2>1. r \in Command /\ r.pc = "lock"
      BY DEF Idle, Command, Positions, NoRow, Row, Quiet
    <2>2. cli' = [Disturb(cli) EXCEPT ![c] = r] /\ UNCHANGED <<registry, entry>>
      BY <1>2 DEF AddStart
    <2> HIDE DEF r
    <2> QED BY <2>1, <2>2, UsableSets DEF Ignorant
  <1>3. CASE AddLock(c) /\ regLock = None
    <2> DEFINE todo == {v \in Voices : entry[v] # "absent"}
               r == [cli[c] EXCEPT !.pc = "clean", !.left = InspectLimit, !.todo = todo]
    <2>1. r \in Command /\ r.pc = "clean"
      BY <1>1, VoiceAssumption DEF Types, Command, Positions
    <2>2. cli' = [cli EXCEPT ![c] = r] /\ UNCHANGED <<registry, entry>>
      BY <1>1, <1>3 DEF AddLock, Types
    <2> HIDE DEF r
    <2> QED BY <2>1, <2>2, UsableSets DEF Ignorant
  <1>4. CASE AddLock(c) /\ regLock # None
    <2>1. Enough(c, "error")
      BY DEF Enough, Positions
    <2> QED BY <1>4, <2>1, UsableGoes DEF AddLock
  <1>5. CASE AddCheck(c)
    <2>1. Enough(c, "unlock error") /\ Enough(c, "stage")
      BY DEF Enough, Positions
    <2>2. /\ \/ cli' = [cli EXCEPT ![c].pc = "unlock error"]
             \/ cli' = [cli EXCEPT ![c].pc = "stage"]
          /\ UNCHANGED <<registry, entry>>
      BY <1>5 DEF AddCheck
    <2> QED BY <2>1, <2>2, UsableGoes
  <1> QED BY <1>2, <1>3, <1>4, <1>5

\* _cleanup_orphaned_entries moves away only entries without a row.
LEMMA UsableAddCleans ==
  ASSUME CommandInv, UsableInv, Persist, NEW c \in Clis, AddClean(c)
  PROVE  UsableInv'
  <1>1. PICK v \in cli[c].todo :
          /\ cli[c].left > 0
          /\ \/ entry' = entry
             \/ Orphan(v) /\ entry' = [entry EXCEPT ![v] = "absent"]
          /\ \/ cli' = [cli EXCEPT ![c].todo = @ \ {v}, ![c].left = @ - 1]
             \/ cli' = Disturb([cli EXCEPT ![c].todo = @ \ {v}, ![c].left = @ - 1])
    BY DEF AddClean
  <1> DEFINE r == [cli[c] EXCEPT !.todo = @ \ {v}, !.left = @ - 1]
  <1>2. Types /\ Sound(c) /\ cli[c].pc = "clean" /\ registry' = registry
    BY DEF CommandInv, AddClean
  <1>3. r \in Command /\ r.pc = "clean" /\ v \in Voices
    BY <1>1, <1>2 DEF Types, Command
  <1>4. [cli EXCEPT ![c].todo = @ \ {v}, ![c].left = @ - 1] = [cli EXCEPT ![c] = r]
    BY <1>2 DEF Types
  <1>5. cli' = [cli EXCEPT ![c] = r] \/ cli' = Disturb([cli EXCEPT ![c] = r])
    BY <1>1, <1>4
  <1> HIDE DEF r
  <1>6. Others(c) /\ cli'[c].pc = "clean"
    BY <1>2, <1>3, <1>5, CommandSet
  <1>7. Knows(c)' /\ regLock = c
    BY <1>2, <1>6 DEF Knows, Sound, Locked, Holding
  <1>8. entry' = [u \in Voices |-> entry'[u]]
    BY <1>1 DEF UsableInv
  <1>9. \A u \in Voices : registry[u] # NoRow => entry'[u] = entry[u]
    BY <1>1, <1>3 DEF UsableInv, Orphan
  <1>10. \A u \in Voices : Rowed(u)'
    BY <1>2, <1>9, RowedKept
  <1> QED BY <1>6, <1>7, <1>8, <1>10, UsableMoves

\* The entry is visible before its row, and a row that could not be written leaves
\* an entry without one.
LEMMA UsableAddPublishes ==
  ASSUME CommandInv, UsableInv, Persist, NEW c \in Clis, AddPublish(c)
  PROVE  UsableInv'
  <1> DEFINE v == cli[c].v
  <1>1. Types /\ Sound(c) /\ cli[c].pc = "stage" /\ registry' = registry
    BY DEF CommandInv, AddPublish
  <1>2. v \in Voices /\ regLock = c /\ registry[v] = NoRow
    BY <1>1 DEF Sound, Aimed, Locked, NewVoice, Holding
  <1>3. CASE entry' = [entry EXCEPT ![v] = "whole"] /\ cli' = [cli EXCEPT ![c].pc = "register"]
    <2>1. Others(c) /\ cli'[c].pc = "register" /\ cli'[c].v = v
      BY <1>1, <1>3, CommandGoes DEF Positions
    <2>2. entry' = [u \in Voices |-> entry'[u]] /\ entry'[v] = "whole"
      BY <1>2, <1>3 DEF UsableInv
    <2>3. Knows(c)'
      BY <2>1, <2>2 DEF Knows
    <2>4. \A u \in Voices : registry[u] # NoRow => entry'[u] = entry[u]
      BY <1>2, <1>3 DEF UsableInv
    <2>5. \A u \in Voices : Rowed(u)'
      BY <1>1, <2>4, RowedKept
    <2> QED BY <1>2, <2>1, <2>2, <2>3, <2>5, UsableMoves
  <1>4. CASE UNCHANGED entry /\ cli' = Disturb([cli EXCEPT ![c].pc = "unlock error"])
    <2>1. Enough(c, "unlock error")
      BY DEF Enough, Positions
    <2> QED BY <1>1, <1>4, <2>1, UsableGoes
  <1> QED BY <1>3, <1>4 DEF AddPublish, FailTo

\* The row is written for an entry that is whole, and has no references yet.
LEMMA UsableAddRegisters ==
  ASSUME CommandInv, UsableInv, Persist, NEW c \in Clis, AddRegister(c)
  PROVE  UsableInv'
  <1> DEFINE v == cli[c].v
             row == [refs |-> {}, sha |-> source]
  <1>1. Types /\ Sound(c) /\ Knows(c) /\ cli[c].pc = "register" /\ entry' = entry
    BY DEF CommandInv, UsableInv, AddRegister
  <1>2. v \in Voices /\ regLock = c /\ registry[v] = NoRow /\ entry[v] = "whole"
    BY <1>1 DEF Sound, Aimed, Locked, NewVoice, Holding, Knows
  <1>3. CASE registry' = [registry EXCEPT ![v] = row] /\ cli' = [cli EXCEPT ![c].pc = "unlock ok"]
    <2>1. Others(c) /\ cli'[c].pc = "unlock ok"
      BY <1>1, <1>3, CommandGoes DEF Positions
    <2>2. Knows(c)'
      BY <2>1 DEF Knows
    <2>3. \A u \in Voices \ {v} : registry'[u] = registry[u]
      BY <1>1, <1>3 DEF Types
    <2>4. \A u \in Voices \ {v} : Rowed(u)'
      BY <1>1, <2>3, RowedKept
    <2>5. registry'[cli[c].v].refs = {} /\ entry'[cli[c].v] = "whole"
      BY <1>1, <1>2, <1>3 DEF Types
    <2>6. ASSUME NEW u \in Voices, u = v PROVE Rowed(u)'
      BY <2>5, <2>6 DEF Rowed
    <2>7. entry' = [u \in Voices |-> entry'[u]]
      BY <1>1 DEF UsableInv
    <2>8. \A u \in Voices : Rowed(u)'
      BY <2>4, <2>6
    <2> QED BY <1>2, <2>1, <2>2, <2>7, <2>8, UsableMoves
  <1>4. CASE UNCHANGED registry /\ cli' = Disturb([cli EXCEPT ![c].pc = "rollback"])
    <2>1. Enough(c, "rollback")
      BY <1>2 DEF Enough, Positions
    <2> QED BY <1>1, <1>4, <2>1, UsableGoes
  <1> QED BY <1>3, <1>4 DEF AddRegister, FailTo
\* rmtree of an entry that has no row, under the lock that keeps others from
\* registering it.
LEMMA UsableAddRollsBack ==
  ASSUME CommandInv, UsableInv, Persist, NEW c \in Clis, AddRollback(c)
  PROVE  UsableInv'
  <1> DEFINE v == cli[c].v
  <1>1. /\ Types /\ Sound(c) /\ Knows(c) /\ cli[c].pc = "rollback"
        /\ registry' = registry /\ dir' = dir
    BY DEF CommandInv, UsableInv, AddRollback
  <1>2. v \in Voices /\ regLock = c /\ registry[v] = NoRow
    BY <1>1 DEF Sound, Aimed, Locked, Holding, Knows
  <1>3. PICK left : entry' = [entry EXCEPT ![v] = left]
    BY DEF AddRollback
  <1>4. entry' = [u \in Voices |-> entry'[u]]
    BY <1>3 DEF UsableInv
  <1>5. \A u \in Voices : registry[u] # NoRow => entry'[u] = entry[u]
    BY <1>2, <1>3 DEF UsableInv
  <1>6. \A u \in Voices : Rowed(u)'
    BY <1>1, <1>5, RowedKept
  <1>7. Others(c) /\ Knows(c)'
    <2>1. CASE UNCHANGED cli
      BY <1>1, <2>1 DEF Others, Knows
    <2>2. CASE cli' = [cli EXCEPT ![c].pc = "unlock error"]
      <3>1. Others(c) /\ cli'[c].pc = "unlock error"
        BY <1>1, <2>2, CommandGoes DEF Positions
      <3> QED BY <3>1 DEF Knows
    <2> QED BY <2>1, <2>2 DEF AddRollback
  <1> QED BY <1>2, <1>4, <1>6, <1>7, UsableMoves

\* prepare_voice reads a row that is there.
LEMMA UsablePrepareBegins ==
  ASSUME CommandInv, UsableInv, Persist, NEW c \in Clis, NEW v \in Voices,
         NEW b \in Bindings, PrepareStart(c, v, b)
  PROVE  UsableInv'
  <1> DEFINE status == Status(registry[v], <<v, b>>)
             pc == CASE status = "prepared_valid" -> "ok"
                     [] status = "unprepared"     -> "launch"
                     [] OTHER                     -> "error"
             r == [Idle EXCEPT !.v = v, !.b = b, !.alone = Quiet, !.row = registry[v],
                               !.hash = source, !.pc = pc]
  <1>1. Types
    BY DEF CommandInv
  <1>2. pc \in {"ok", "launch", "error"}
    OBVIOUS
  <1>3. /\ cli' = [Disturb(cli) EXCEPT ![c] = r]
        /\ registry[v] # NoRow /\ UNCHANGED <<registry, entry>>
    BY DEF PrepareStart
  <1> HIDE DEF pc
  <1>4. r \in Command /\ r.pc = pc /\ r.row = registry[v]
    BY <1>1, <1>2 DEF Types, Idle, Command, Positions, NoRow, Row, Quiet
  <1> HIDE DEF r
  <1>5. r.pc \in Ignorant \/ (r.pc \in {"launch", "wait", "check"} /\ r.row # NoRow)
    BY <1>2, <1>3, <1>4 DEF Ignorant
  <1> QED BY <1>3, <1>4, <1>5, UsableSets

\* A worker is started, ends or is killed: the command keeps the row it has read.
LEMMA UsablePrepareWorker ==
  ASSUME CommandInv, UsableInv, Persist, NEW c \in Clis,
         PrepareLaunch(c) \/ PrepareReady(c) \/ PrepareTimeout(c)
  PROVE  UsableInv'
  <1>1. Types /\ Knows(c)
    BY DEF CommandInv, UsableInv
  <1>2. ASSUME NEW w \in Workers \cup {None}, NEW x \in {"wait", "check", "error"},
               cli[c].pc \in {"launch", "wait"},
               \/ cli' = [cli EXCEPT ![c].pc = x, ![c].w = w]
               \/ cli' = Disturb([cli EXCEPT ![c].pc = x, ![c].w = w]),
               UNCHANGED <<registry, entry>>
        PROVE  UsableInv'
    <2> DEFINE r == [cli[c] EXCEPT !.pc = x, !.w = w]
    <2>1. r \in Command /\ r.pc = x /\ r.row = cli[c].row
      BY <1>1 DEF Types, Command, Positions
    <2>2. [cli EXCEPT ![c].pc = x, ![c].w = w] = [cli EXCEPT ![c] = r]
      BY <1>1 DEF Types
    <2>3. cli' = [cli EXCEPT ![c] = r] \/ cli' = Disturb([cli EXCEPT ![c] = r])
      BY <1>2, <2>2
    <2> HIDE DEF r
    <2>4. cli[c].row # NoRow
      BY <1>1, <1>2 DEF Knows
    <2>5. r.pc \in Ignorant \/ (r.pc \in {"launch", "wait", "check"} /\ r.row # NoRow)
      BY <2>1, <2>4 DEF Ignorant
    <2> QED BY <1>2, <2>1, <2>3, <2>5, UsableSets
  <1>3. CASE PrepareLaunch(c)
    <2>1. PICK w \in Workers : cli' = [cli EXCEPT ![c].pc = "wait", ![c].w = w]
      BY <1>3 DEF PrepareLaunch
    <2> QED BY <1>2, <1>3, <2>1 DEF PrepareLaunch
  <1>4. CASE PrepareReady(c)
    <2> DEFINE x == IF At(cli[c].w, "ready") THEN "check" ELSE "error"
    <2>1. x \in {"check", "error"} /\ cli' = [cli EXCEPT ![c].pc = x, ![c].w = None]
      BY <1>4 DEF PrepareReady
    <2> HIDE DEF x
    <2> QED BY <1>2, <1>4, <2>1 DEF PrepareReady
  <1>5. CASE PrepareTimeout(c)
    BY <1>2, <1>5 DEF PrepareTimeout
  <1> QED BY <1>3, <1>4, <1>5

\* The verification has seen the manifest, and it is still there under the lock.
LEMMA UsablePrepareChecks ==
  ASSUME CommandInv, UsableInv, Persist, NEW c \in Clis,
         PrepareCheck(c) \/ PrepareLock(c) \/ Unlock(c)
  PROVE  UsableInv'
  <1>1. Types /\ Knows(c) /\ UNCHANGED <<registry, entry>>
    BY DEF CommandInv, UsableInv, PrepareCheck, PrepareLock, Unlock
  <1>2. Enough(c, "error") /\ Enough(c, "ok")
    BY DEF Enough, Positions
  <1>3. CASE PrepareCheck(c)
    <2> DEFINE status == Status([cli[c].row EXCEPT !.refs = {cli[c].b}], Target(c))
    <2>1. status = "prepared_valid" => dir[Target(c)].manifest # NoManifest
      BY DEF Status
    <2>2. \/ cli' = [cli EXCEPT ![c].pc = "error"]
          \/ status = "prepared_valid" /\ cli' = [cli EXCEPT ![c].pc = "reg lock"]
      BY <1>3 DEF PrepareCheck
    <2> HIDE DEF status
    <2>3. Target(c) \in Dirs /\ cli[c].row # NoRow
      BY <1>1, <1>3, TargetThere DEF PrepareCheck, Knows
    <2>4. status = "prepared_valid" => Enough(c, "reg lock")
      BY <2>1, <2>3 DEF Enough, Positions
    <2> QED BY <1>1, <1>2, <2>2, <2>4, UsableGoes
  <1>4. CASE PrepareLock(c)
    <2>1. Target(c) \in Dirs /\ cli[c].row # NoRow /\ dir[Target(c)].manifest # NoManifest
      BY <1>1, <1>4, TargetThere DEF PrepareLock, Knows
    <2>2. Enough(c, "write")
      BY <2>1 DEF Enough, Positions
    <2>3. cli' = [cli EXCEPT ![c].pc = "error"] \/ cli' = [cli EXCEPT ![c].pc = "write"]
      BY <1>4 DEF PrepareLock
    <2> QED BY <1>1, <1>2, <2>2, <2>3, UsableGoes
  <1>5. CASE Unlock(c)
    <2>1. cli' = [cli EXCEPT ![c].pc = "error"] \/ cli' = [cli EXCEPT ![c].pc = "ok"]
      BY <1>5 DEF Unlock
    <2> QED BY <1>1, <1>2, <2>1, UsableGoes
  <1> QED BY <1>3, <1>4, <1>5

\* The reference is added to a row that has its entry, for a directory that has
\* its manifest.
LEMMA UsablePrepareWrites ==
  ASSUME CommandInv, UsableInv, Persist, NEW c \in Clis, PrepareWrite(c)
  PROVE  UsableInv'
  <1>1. /\ Types /\ Sound(c) /\ Knows(c) /\ cli[c].pc = "write" /\ entry' = entry
        /\ dir' = dir
    BY DEF CommandInv, UsableInv, PrepareWrite
  <1>2. PICK v \in Voices : v = cli[c].v
    BY <1>1 DEF Sound, Aimed
  <1>3. PICK b \in Bindings : b = cli[c].b
    BY <1>1 DEF Sound, Aimed
  <1>4. regLock = c /\ cli[c].row # NoRow /\ dir[<<v, b>>].manifest # NoManifest
    BY <1>1, <1>2, <1>3 DEF Sound, Locked, Holding, Knows, Target
  <1>5. CASE /\ registry[v] = cli[c].row
             /\ registry' = [registry EXCEPT ![v].refs = @ \cup {b}]
             /\ cli' = [cli EXCEPT ![c].pc = "unlock ok"]
    <2>1. Others(c) /\ cli'[c].pc = "unlock ok"
      BY <1>1, <1>5, CommandGoes DEF Positions
    <2>2. Knows(c)'
      BY <2>1 DEF Knows
    <2>3. \A u \in Voices \ {v} : registry'[u] = registry[u]
      BY <1>1, <1>5 DEF Types
    <2>4. \A u \in Voices \ {v} : Rowed(u)'
      BY <1>1, <2>3, RowedKept
    <2>5. registry'[v].refs = registry[v].refs \cup {b}
      BY <1>1, <1>5 DEF Types, Row
    <2>6. Rowed(v) /\ registry[v] # NoRow
      BY <1>4, <1>5 DEF UsableInv
    <2>7. Rowed(v)'
      BY <1>1, <1>4, <2>5, <2>6 DEF Rowed
    <2>8. entry' = [u \in Voices |-> entry'[u]] /\ \A u \in Voices : Rowed(u)'
      BY <1>1, <2>4, <2>7 DEF UsableInv
    <2> QED BY <1>4, <2>1, <2>2, <2>8, UsableMoves
  <1>6. CASE /\ UNCHANGED registry
             /\ \/ cli' = [cli EXCEPT ![c].pc = "unlock error"]
                \/ cli' = Disturb([cli EXCEPT ![c].pc = "unlock error"])
    <2>1. Enough(c, "unlock error")
      BY DEF Enough, Positions
    <2> QED BY <1>1, <1>6, <2>1, UsableGoes
  <1> QED BY <1>2, <1>3, <1>5, <1>6 DEF PrepareWrite, FailTo

\* A command that ends or is killed leaves an entry without a row at worst.
LEMMA UsableEnds ==
  ASSUME CommandInv, UsableInv, Persist, NEW c \in Clis, Return(c) \/ CliCrash(c)
  PROVE  UsableInv'
  <1>1. Idle \in Command /\ Idle.pc = "idle"
    BY DEF Idle, Command, Positions, NoRow, Row
  <1> QED BY <1>1, UsableSets DEF Return, CliCrash, Ignorant

\* Every step keeps the registered voices usable.
LEMMA UsableNext ==
  ASSUME CommandInv, LockInv, ContentInv, UsableInv, [Next]_vars
  PROVE  UsableInv'
  <1>1. Persist
    BY ContentNext
  <1>2. ASSUME NEW c \in Clis, CliNext(c) PROVE UsableInv'
    BY <1>1, <1>2, UsableAddBegins, UsableAddCleans, UsableAddPublishes,
       UsableAddRegisters, UsableAddRollsBack, UsablePrepareBegins, UsablePrepareWorker,
       UsablePrepareChecks, UsablePrepareWrites, UsableEnds
    DEF CliNext
  <1>3. ASSUME NEW w \in Workers, WorkerNext(w) \/ Serve(w) PROVE UsableInv'
    BY <1>1, <1>3, UsableRests DEF WorkerNext, Serve
  <1>4. CASE EditSource
    BY <1>1, <1>4, UsableRests DEF EditSource
  <1>5. CASE UNCHANGED vars
    BY <1>1, <1>5, UsableRests DEF vars
  <1> QED BY <1>2, <1>3, <1>4, <1>5 DEF Next

\* Whichever commands and workers run side by side, wherever they are killed and
\* whichever of their calls fail, a row of the registry has its managed entry, and
\* each reference it lists a manifest whose artifacts are all there: what a worker
\* reads of the registry without a lock, it can load (add_voice, prepare_voice,
\* persist_prepared_voice_reference, recover_incomplete_publication_locked).
THEOREM RowsAreUsable == Spec => []RegisteredIsUsable
  <1> DEFINE All == CommandInv /\ LockInv /\ ContentInv /\ UsableInv
  <1>1. Init => All
    BY CommandInit, LockInit, ContentInit, UsableInit
  <1>2. All /\ [Next]_vars => All'
    BY CommandNext, LockNext, ContentNext, UsableNext
  <1>3. All => RegisteredIsUsable
    <2> SUFFICES ASSUME All, NEW v \in Voices, registry[v] # NoRow
                 PROVE  /\ entry[v] = "whole"
                        /\ \A b \in registry[v].refs :
                             /\ dir[<<v, b>>].manifest # NoManifest
                             /\ \A k \in Kinds :
                                  File(dir[<<v, b>>].manifest.gen, k) \in dir[<<v, b>>].files
      BY DEF RegisteredIsUsable
    <2>1. Rowed(v)
      BY DEF UsableInv
    <2>2. \A b \in registry[v].refs : <<v, b>> \in Dirs
      BY VoiceAssumption DEF CommandInv, Types, Row
    <2>3. \A b \in registry[v].refs : Committed(dir[<<v, b>>])
      BY <2>2 DEF ContentInv
    <2> QED BY <2>1, <2>3 DEF Rowed, Committed
  <1>4. Spec => []All
    BY <1>1, <1>2, PTL DEF Spec
  <1> QED BY <1>3, <1>4, PTL
=============================================================================
