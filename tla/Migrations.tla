------------------------------ MODULE Migrations ------------------------------
(***************************************************************************)
(* Migrations on boot: replicas of the api start against one database and  *)
(* each module applies the files of its schema                             *)
(* (packages/shared/database/src/migrator.ts), one module after the other, *)
(* before the replica listens.                                             *)
(*                                                                         *)
(* pc[r] is the statement that replica r runs next.  The advisory lock is  *)
(* the session's: it goes with the connection when a replica dies.  What a *)
(* file does to the tables is left out: it is run, to the end or not at    *)
(* all, with its row of the ledger.                                        *)
(***************************************************************************)
EXTENDS Naturals, Sequences, FiniteSets

CONSTANTS Replicas, NoReplica,
          Schemas,
          FilesOf,    \* FilesOf[s]: the files of s in the order of their names
          Orders,     \* orders in which modules may be initialised
          Befores,    \* databases that earlier releases may have left
          MaxFaults   \* bound: crashes and failing statements of a behaviour

Files == UNION {{FilesOf[s][n] : n \in DOMAIN FilesOf[s]} : s \in Schemas}

\* altered: files that were applied with another content than they have now.
Database == [ledger : SUBSET Files, altered : SUBSET Files]

ASSUME MigrationsAssumption ==
  /\ NoReplica \notin Replicas
  /\ FilesOf \in [Schemas -> Seq(Files)]
  /\ \A s, t \in Schemas : \A m \in DOMAIN FilesOf[s], n \in DOMAIN FilesOf[t] :
       FilesOf[s][m] = FilesOf[t][n] => s = t /\ m = n
  /\ Orders \subseteq Seq(Schemas)
  /\ \A o \in Orders : o # <<>> /\ \A s \in Schemas : \E n \in DOMAIN o : o[n] = s
  /\ \A b \in Befores :
       /\ b \in Database /\ b.altered \subseteq b.ledger
       /\ \A s \in Schemas : \A n \in DOMAIN FilesOf[s] : \A m \in 1 .. n :
            FilesOf[s][n] \in b.ledger => FilesOf[s][m] \in b.ledger
  /\ MaxFaults \in Nat

VARIABLES
  pc,       \* pc[r]: the statement r runs next
  order,    \* order[r]: the modules in the order r initialises them
  at,       \* at[r]: the module r is at
  file,     \* file[r]: the file r is at
  throwing, \* throwing[r]: apply() is on its way out with an error
  holder,   \* who holds the advisory lock, or NoReplica
  ledger,   \* rows of the tables __migrations
  altered,
  ran,      \* history: how often a file was run to the end
  faults    \* faults so far

progress == <<order, at, file, throwing>>
database == <<ledger, altered, ran>>
vars == <<pc, order, at, file, throwing, holder, ledger, altered, ran, faults>>

InTransaction == {"run", "record", "commit", "rollback"}
Locked == {"prepare", "check", "unlock"} \union InTransaction

Here(r) == FilesOf[order[r][at[r]]]

Init ==
  /\ \E b \in Befores :
       /\ ledger = b.ledger /\ altered = b.altered
       /\ ran = [f \in Files |-> IF f \in b.ledger THEN 1 ELSE 0]
  /\ order \in [Replicas -> Orders]
  /\ pc = [r \in Replicas |-> "down"]
  /\ at = [r \in Replicas |-> 1]
  /\ file = [r \in Replicas |-> 1]
  /\ throwing = [r \in Replicas |-> FALSE]
  /\ holder = NoReplica
  /\ faults = 0

Goto(r, label) == pc' = [pc EXCEPT ![r] = label]

-------------------------------------------------------------------------------
(* apply() *)

\* Mutant of Boot: files are counted from 0.
BootFromZero(r) ==
  /\ pc[r] = "down"
  /\ Goto(r, "lock")
  /\ at' = [at EXCEPT ![r] = 1]
  /\ file' = [file EXCEPT ![r] = 0]
  /\ throwing' = [throwing EXCEPT ![r] = FALSE]
  /\ UNCHANGED <<order, holder, database, faults>>

\* The process starts and reaches its first onModuleInit.
Boot(r) ==
  /\ pc[r] = "down"
  /\ Goto(r, "lock")
  /\ at' = [at EXCEPT ![r] = 1]
  /\ file' = [file EXCEPT ![r] = 1]
  /\ throwing' = [throwing EXCEPT ![r] = FALSE]
  /\ UNCHANGED <<order, holder, database, faults>>

\* Mutant of Lock: pg_advisory_lock is left out.
LockNothing(r) ==
  /\ pc[r] = "lock"
  /\ holder' = r
  /\ Goto(r, "prepare")
  /\ UNCHANGED <<progress, database, faults>>

\* pg_advisory_lock, which waits
Lock(r) ==
  /\ pc[r] = "lock"
  /\ holder = NoReplica
  /\ holder' = r
  /\ Goto(r, "prepare")
  /\ UNCHANGED <<progress, database, faults>>

\* CREATE SCHEMA and CREATE TABLE __migrations, IF NOT EXISTS
Prepare(r) ==
  /\ pc[r] = "prepare"
  /\ Goto(r, "check")
  /\ UNCHANGED <<progress, holder, database, faults>>

NextFile(r) == file' = [file EXCEPT ![r] = @ + 1]

\* Mutant of Check: the checksum is not compared.
CheckNameOnly(r) ==
  /\ pc[r] = "check"
  /\ file[r] <= Len(Here(r))
  /\ IF Here(r)[file[r]] \in ledger
     THEN NextFile(r) /\ UNCHANGED pc
     ELSE Goto(r, "run") /\ UNCHANGED file
  /\ UNCHANGED <<order, at, throwing, holder, database, faults>>

\* The ledger's row of the file, and its checksum.
Check(r) ==
  /\ pc[r] = "check"
  /\ file[r] <= Len(Here(r))
  /\ LET f == Here(r)[file[r]]
     IN  CASE f \notin ledger ->
                Goto(r, "run") /\ UNCHANGED <<file, throwing>>
           [] f \in ledger \ altered ->
                NextFile(r) /\ UNCHANGED <<pc, throwing>>
           [] f \in ledger \intersect altered ->
                /\ throwing' = [throwing EXCEPT ![r] = TRUE]
                /\ Goto(r, "unlock")
                /\ UNCHANGED file
  /\ UNCHANGED <<order, at, holder, database, faults>>

AllChecked(r) ==
  /\ pc[r] = "check"
  /\ file[r] > Len(Here(r))
  /\ Goto(r, "unlock")
  /\ UNCHANGED <<progress, holder, database, faults>>

\* BEGIN and the file
Run(r) ==
  /\ pc[r] = "run"
  /\ Goto(r, "record")
  /\ UNCHANGED <<progress, holder, database, faults>>

\* INSERT INTO __migrations, whose primary key is the name of the file
Record(r) ==
  /\ pc[r] = "record"
  /\ Goto(r, IF Here(r)[file[r]] \in ledger THEN "rollback" ELSE "commit")
  /\ UNCHANGED <<progress, holder, database, faults>>

MakeDurable(f) ==
  /\ ledger' = ledger \union {f}
  /\ ran' = [ran EXCEPT ![f] = @ + 1]
  /\ UNCHANGED altered

Commit(r) ==
  /\ pc[r] = "commit"
  /\ MakeDurable(Here(r)[file[r]])
  /\ NextFile(r)
  /\ Goto(r, "check")
  /\ UNCHANGED <<order, at, throwing, holder, faults>>

\* Mutant of Rollback: the error is logged and the next file is tried.
RollbackAndGoOn(r) ==
  /\ pc[r] = "rollback"
  /\ NextFile(r)
  /\ Goto(r, "check")
  /\ UNCHANGED <<order, at, throwing, holder, database, faults>>

\* ROLLBACK, and the error goes on.
Rollback(r) ==
  /\ pc[r] = "rollback"
  /\ throwing' = [throwing EXCEPT ![r] = TRUE]
  /\ Goto(r, "unlock")
  /\ UNCHANGED <<order, at, file, holder, database, faults>>

\* The finally: pg_advisory_unlock.  An error ends the process (main.ts); else
\* the next module is initialised, and after the last one the replica listens.
Unlock(r) ==
  /\ pc[r] = "unlock"
  /\ holder' = NoReplica
  /\ IF throwing[r]
     THEN Goto(r, "down") /\ UNCHANGED <<at, file>>
     ELSE IF at[r] < Len(order[r])
     THEN /\ at' = [at EXCEPT ![r] = @ + 1]
          /\ file' = [file EXCEPT ![r] = 1]
          /\ Goto(r, "lock")
     ELSE Goto(r, "serving") /\ UNCHANGED <<at, file>>
  /\ UNCHANGED <<order, throwing, database, faults>>

-------------------------------------------------------------------------------
(* Faults *)

Fault == faults < MaxFaults /\ faults' = faults + 1

StatementFails(r) ==
  /\ Fault
  /\ \/ /\ pc[r] \in {"prepare", "check"}
        /\ throwing' = [throwing EXCEPT ![r] = TRUE]
        /\ Goto(r, "unlock")
     \/ /\ pc[r] \in {"run", "record", "commit"}
        /\ Goto(r, "rollback")
        /\ UNCHANGED throwing
  /\ UNCHANGED <<order, at, file, holder, database>>

\* Mutant of Crash: a lock that is not the session's.
CrashKeepingLock(r) ==
  /\ Fault
  /\ pc[r] # "down"
  /\ Goto(r, "down")
  /\ UNCHANGED <<progress, holder, database>>

\* The process or its connection dies; a COMMIT on its way may still succeed.
Crash(r) ==
  /\ Fault
  /\ pc[r] # "down"
  /\ Goto(r, "down")
  /\ holder' = IF holder = r THEN NoReplica ELSE holder
  /\ \/ UNCHANGED database
     \/ pc[r] = "commit" /\ MakeDurable(Here(r)[file[r]])
  /\ UNCHANGED progress

-------------------------------------------------------------------------------

Step(r) ==
  \/ Boot(r) \/ Lock(r) \/ Prepare(r) \/ Check(r) \/ AllChecked(r) \/ Run(r)
  \/ Record(r) \/ Commit(r) \/ Rollback(r) \/ Unlock(r)

Next == \E r \in Replicas : Step(r) \/ StatementFails(r) \/ Crash(r)

Spec == Init /\ [][Next]_vars

\* Statements end and a replica that exited is started again.
FairSpec == Spec /\ \A r \in Replicas : WF_vars(Step(r))

-------------------------------------------------------------------------------
(* Properties *)

TypeOK ==
  /\ pc \in [Replicas -> Locked \union {"down", "lock", "serving"}]
  /\ order \in [Replicas -> Orders]
  /\ at \in [Replicas -> Nat \ {0}] /\ file \in [Replicas -> Nat \ {0}]
  /\ throwing \in [Replicas -> BOOLEAN]
  /\ holder \in Replicas \union {NoReplica}
  /\ ledger \subseteq Files /\ altered \subseteq ledger
  /\ ran \in [Files -> Nat]
  /\ faults \in 0 .. MaxFaults

\* "The migration and its ledger row commit together or not at all", and of two
\* runners that see a file as unapplied only one runs it: the ledger holds the
\* files that were run, each once, and in the order of their names.
LedgerFaithful ==
  /\ \A f \in Files : ran[f] = IF f \in ledger THEN 1 ELSE 0
  /\ \A s \in Schemas : \A n \in DOMAIN FilesOf[s] : \A m \in 1 .. n :
       FilesOf[s][n] \in ledger => FilesOf[s][m] \in ledger

\* A replica listens only on a database that has every file, unaltered, whatever
\* failed, here or in another replica, on the way.
ServesMigrated ==
  \A r \in Replicas : pc[r] = "serving" => Files \subseteq ledger \ altered

\* "two migrators against the same database queue rather than collide": without a
\* fault or an altered file no replica fails to boot.
QueueNotCollide ==
  faults = 0 /\ altered = {} =>
    \A r \in Replicas : ~throwing[r] /\ pc[r] # "rollback"

\* A replica that died with the lock, or left with an error, keeps no other from
\* migrating: unless a file was altered, every replica comes to listen.
ReplicasServe ==
  \A r \in Replicas : []<>(pc[r] = "serving" \/ altered # {})

===============================================================================
