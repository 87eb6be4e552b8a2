--------------------------- MODULE MigrationsProofs ---------------------------
(***************************************************************************)
(* Theorems about Migrations, for any number of replicas, modules, files   *)
(* and faults, whatever the order of the modules.                          *)
(***************************************************************************)
EXTENDS Migrations, TLAPS

\* Every file of s was applied as it is.
Done(s) == \A n \in DOMAIN FilesOf[s] : FilesOf[s][n] \in ledger \ altered

\* What r has behind it.
Behind(r) ==
  /\ pc[r] \in Locked \union {"lock"} =>
       at[r] <= Len(order[r]) /\ \A k \in 1 .. (at[r] - 1) : Done(order[r][k])
  /\ pc[r] \in {"lock", "prepare"} => file[r] = 1
  /\ pc[r] \in {"check", "run", "record", "commit"} =>
       \A n \in DOMAIN Here(r) : n < file[r] => Here(r)[n] \in ledger \ altered
  /\ pc[r] \in {"run", "record", "commit"} =>
       file[r] <= Len(Here(r)) /\ Here(r)[file[r]] \notin ledger
  /\ pc[r] = "unlock" /\ ~throwing[r] => Done(order[r][at[r]])
  /\ pc[r] = "serving" => \A k \in DOMAIN order[r] : Done(order[r][k])

LockHeld == \A r \in Replicas : pc[r] \in Locked <=> holder = r

IInv ==
  /\ TypeOK
  /\ LockHeld
  /\ \A r \in Replicas : Behind(r)
  /\ LedgerFaithful
  /\ QueueNotCollide

-------------------------------------------------------------------------------
(* Constants *)

LEMMA FileNames ==
  /\ \A s \in Schemas : FilesOf[s] \in Seq(Files)
  /\ \A s \in Schemas : \A n \in DOMAIN FilesOf[s] : n \in Nat \ {0} /\ FilesOf[s][n] \in Files
  /\ \A s \in Schemas : \A n \in Nat \ {0} : n <= Len(FilesOf[s]) <=> n \in DOMAIN FilesOf[s]
  /\ \A s, t \in Schemas : \A m \in DOMAIN FilesOf[s], n \in DOMAIN FilesOf[t] :
       FilesOf[s][m] = FilesOf[t][n] => s = t /\ m = n
<1>1. \A s \in Schemas : FilesOf[s] \in Seq(Files)
  BY MigrationsAssumption
<1>2. \A s \in Schemas : \A n \in DOMAIN FilesOf[s] : n \in Nat \ {0} /\ FilesOf[s][n] \in Files
  BY <1>1
<1>3. \A s \in Schemas : \A n \in Nat \ {0} : n <= Len(FilesOf[s]) <=> n \in DOMAIN FilesOf[s]
  BY <1>1
<1>4. QED
  BY <1>1, <1>2, <1>3, MigrationsAssumption

LEMMA ModuleOrders ==
  \A o \in Orders : /\ o \in Seq(Schemas) /\ Len(o) \in Nat \ {0}
                    /\ \A s \in Schemas : \E n \in DOMAIN o : o[n] = s
<1> SUFFICES ASSUME NEW o \in Orders
             PROVE  /\ o \in Seq(Schemas) /\ Len(o) \in Nat \ {0}
                    /\ \A s \in Schemas : \E n \in DOMAIN o : o[n] = s
  OBVIOUS
<1>1. o \in Seq(Schemas) /\ o # <<>> /\ \A s \in Schemas : \E n \in DOMAIN o : o[n] = s
  BY MigrationsAssumption
<1>2. QED
  BY <1>1

\* The module at hand.
LEMMA HereType ==
  ASSUME TypeOK, NEW r \in Replicas, at[r] <= Len(order[r])
  PROVE  order[r][at[r]] \in Schemas
<1>1. order[r] \in Seq(Schemas) /\ at[r] \in Nat \ {0}
  BY ModuleOrders DEF TypeOK
<1>2. QED
  BY <1>1

-------------------------------------------------------------------------------
(* Init *)

LEMMA InitIInv == Init => IInv
<1> SUFFICES ASSUME Init PROVE IInv
  OBVIOUS
<1>1. PICK b \in Befores :
        /\ ledger = b.ledger /\ altered = b.altered
        /\ ran = [f \in Files |-> IF f \in b.ledger THEN 1 ELSE 0]
  BY DEF Init
<1>2. /\ b \in Database /\ b.altered \subseteq b.ledger
      /\ \A s \in Schemas : \A n \in DOMAIN FilesOf[s] : \A m \in 1 .. n :
           FilesOf[s][n] \in b.ledger => FilesOf[s][m] \in b.ledger
  BY MigrationsAssumption
<1>3. TypeOK
  BY <1>1, <1>2, MigrationsAssumption DEF Init, TypeOK, Database
<1>4. LockHeld
  BY MigrationsAssumption DEF Init, LockHeld, Locked, InTransaction
<1>5. \A r \in Replicas : Behind(r)
  BY DEF Init, Behind, Locked, InTransaction
<1>6. LedgerFaithful
  BY <1>1, <1>2 DEF LedgerFaithful
<1>7. QueueNotCollide
  BY DEF Init, QueueNotCollide
<1>8. QED
  BY <1>3, <1>4, <1>5, <1>6, <1>7 DEF IInv

-------------------------------------------------------------------------------
(* Steps *)

\* What a replica has behind it stays when others move, since the ledger only
\* grows, and not by the file at hand.
LEMMA OthersStay ==
  ASSUME IInv, NEW q \in Replicas, Behind(q),
         pc'[q] = pc[q], order'[q] = order[q], at'[q] = at[q], file'[q] = file[q],
         throwing'[q] = throwing[q],
         ledger \subseteq ledger', UNCHANGED altered,
         ledger' # ledger => pc[q] \notin {"run", "record", "commit"}
  PROVE  Behind(q)'
<1>1. \A s : Done(s) => Done(s)'
  BY DEF Done
<1>2. Here(q)' = Here(q)
  BY DEF Here
<1>3. QED
  BY <1>1, <1>2 DEF Behind

\* Nor does it change when the replica goes on with the same file.
LEMMA GoingOn ==
  ASSUME NEW r \in Replicas, Behind(r),
         order'[r] = order[r], at'[r] = at[r], file'[r] = file[r],
         UNCHANGED <<ledger, altered>>,
         pc[r] \in Locked \union {"lock"}, pc'[r] \in Locked,
         pc'[r] = "prepare" => pc[r] = "lock",
         pc'[r] # "check",
         pc'[r] \in {"run", "record", "commit"} => pc[r] \in {"run", "record", "commit"},
         pc'[r] = "unlock" /\ ~throwing'[r] => Done(order[r][at[r]])
  PROVE  Behind(r)'
<1>1. \A t : Done(t) => Done(t)'
  BY DEF Done
<1>2. Here(r)' = Here(r)
  BY DEF Here
<1>3. at[r] <= Len(order[r]) /\ \A k \in 1 .. (at[r] - 1) : Done(order[r][k])
  BY DEF Behind
<1>4. pc'[r] # "serving" /\ pc'[r] # "lock"
  BY DEF Locked, InTransaction
<1>5. pc'[r] = "prepare" => file[r] = 1
  BY DEF Behind
<1>6. pc'[r] \in {"run", "record", "commit"} =>
        /\ \A n \in DOMAIN Here(r) : n < file[r] => Here(r)[n] \in ledger \ altered
        /\ file[r] <= Len(Here(r)) /\ Here(r)[file[r]] \notin ledger
  BY DEF Behind
<1>7. QED
  BY <1>1, <1>2, <1>3, <1>4, <1>5, <1>6 DEF Behind

\* A file that becomes durable is recorded as it is, once and after the ones
\* before it.
LEMMA Durable ==
  ASSUME IInv, NEW r \in Replicas, pc[r] = "commit", MakeDurable(Here(r)[file[r]])
  PROVE  /\ Here(r)[file[r]] \in ledger' \ altered'
         /\ ledger \subseteq ledger' /\ ledger' \subseteq Files
         /\ altered' = altered /\ altered' \subseteq ledger'
         /\ ran' \in [Files -> Nat]
         /\ LedgerFaithful'
<1> DEFINE s == order[r][at[r]]
<1> DEFINE f == Here(r)[file[r]]
<1> USE DEF IInv
<1>1. at[r] <= Len(order[r]) /\ s \in Schemas
  BY HereType DEF Behind, Locked, InTransaction
<1>2. /\ file[r] \in DOMAIN FilesOf[s] /\ f = FilesOf[s][file[r]] /\ f \notin ledger
      /\ \A n \in DOMAIN FilesOf[s] : n < file[r] => FilesOf[s][n] \in ledger
  <2>1. file[r] \in Nat \ {0} /\ file[r] <= Len(FilesOf[s]) /\ f \notin ledger
    BY DEF TypeOK, Behind, Here
  <2>2. QED
    BY <1>1, <2>1, FileNames DEF Behind, Here
<1>3. f \in Files
  BY <1>1, <1>2, FileNames
<1>4. /\ ledger' = ledger \union {f} /\ altered' = altered
      /\ ran' = [ran EXCEPT ![f] = ran[f] + 1]
  BY DEF MakeDurable
<1> HIDE DEF f, s
<1>5. f \in ledger' \ altered'
  BY <1>2, <1>4 DEF TypeOK
<1>6. ran' \in [Files -> Nat] /\ \A g \in Files : ran'[g] = IF g \in ledger' THEN 1 ELSE 0
  BY <1>2, <1>3, <1>4 DEF TypeOK, LedgerFaithful
<1>7. ASSUME NEW t \in Schemas, NEW n \in DOMAIN FilesOf[t], NEW m \in 1 .. n,
             FilesOf[t][n] \in ledger'
      PROVE  FilesOf[t][m] \in ledger'
  <2>1. CASE FilesOf[t][n] \in ledger
    BY <1>4, <2>1 DEF LedgerFaithful
  <2>2. CASE FilesOf[t][n] = f
    <3>1. t = s /\ n = file[r]
      BY <1>1, <1>2, <2>2, FileNames
    <3>2. m = n \/ m < n
      BY <1>7, FileNames
    <3>3. m \in DOMAIN FilesOf[t]
      BY <1>7, FileNames
    <3>4. QED
      BY <1>2, <1>4, <2>2, <3>1, <3>2, <3>3
  <2>3. QED
    BY <1>4, <1>7, <2>1, <2>2
<1>8. LedgerFaithful'
  BY <1>6, <1>7 DEF LedgerFaithful
<1>9. QED
  BY <1>3, <1>4, <1>5, <1>6, <1>8 DEF f, TypeOK

LEMMA StepIInv ==
  ASSUME IInv, NEW r \in Replicas, Step(r)
  PROVE  IInv'
<1> USE DEF IInv
<1>0. at[r] \in Nat \ {0} /\ file[r] \in Nat \ {0} /\ order[r] \in Orders
  BY DEF TypeOK
<1>a. \A q \in Replicas : q # r => pc[q] \notin Locked \/ pc[r] \notin Locked
  BY DEF LockHeld
<1>1. CASE Boot(r)
  <2> USE DEF Boot, Goto, database
  <2>1. TypeOK'
    BY <1>1 DEF TypeOK, Locked, InTransaction
  <2>2. LockHeld'
    BY <1>1 DEF LockHeld, TypeOK, Locked, InTransaction
  <2>3. Behind(r)'
    <3>1. 1 <= Len(order[r])
      BY <1>0, ModuleOrders
    <3>2. pc'[r] = "lock" /\ at'[r] = 1 /\ file'[r] = 1 /\ order' = order
      BY <1>1 DEF TypeOK
    <3>3. QED
      BY <3>1, <3>2 DEF Behind
  <2>4. \A q \in Replicas : q # r => Behind(q)'
    BY <1>1, OthersStay DEF TypeOK
  <2>5. LedgerFaithful' /\ QueueNotCollide'
    BY <1>1 DEF TypeOK, LedgerFaithful, QueueNotCollide
  <2>6. QED
    BY <2>1, <2>2, <2>3, <2>4, <2>5
<1>2. CASE Lock(r)
  <2> USE DEF Lock, Goto, progress, database
  <2>1. TypeOK'
    BY <1>2 DEF TypeOK, Locked, InTransaction
  <2>2. LockHeld'
    BY <1>2, MigrationsAssumption DEF LockHeld, TypeOK, Locked, InTransaction
  <2>3. Behind(r)'
    BY <1>2, GoingOn DEF TypeOK, Locked, InTransaction
  <2>4. \A q \in Replicas : q # r => Behind(q)'
    BY <1>2, OthersStay DEF TypeOK
  <2>5. LedgerFaithful' /\ QueueNotCollide'
    BY <1>2 DEF TypeOK, LedgerFaithful, QueueNotCollide
  <2>6. QED
    BY <2>1, <2>2, <2>3, <2>4, <2>5
<1>3. CASE Prepare(r)
  <2> USE DEF Prepare, Goto, progress, database
  <2>1. TypeOK'
    BY <1>3 DEF TypeOK, Locked, InTransaction
  <2>2. LockHeld'
    BY <1>3 DEF LockHeld, TypeOK, Locked, InTransaction
  <2>3. Behind(r)'
    <3>1. pc[r] = "prepare" /\ pc'[r] = "check" /\ file[r] = 1
      BY <1>3 DEF TypeOK, Behind
    <3>2. Here(r)' = Here(r) /\ UNCHANGED <<progress, database>>
      BY <1>3 DEF Here
    <3>3. at[r] <= Len(order[r]) /\ \A k \in 1 .. (at[r] - 1) : Done(order[r][k])
      BY <3>1 DEF Behind, Locked
    <3>4. \A n \in DOMAIN Here(r) : ~(n < 1)
      BY <1>0, <3>3, HereType, FileNames DEF Here
    <3>5. QED
      BY <3>1, <3>2, <3>3, <3>4 DEF Behind, Done
  <2>4. \A q \in Replicas : q # r => Behind(q)'
    BY <1>3, OthersStay DEF TypeOK
  <2>5. LedgerFaithful' /\ QueueNotCollide'
    BY <1>3 DEF TypeOK, LedgerFaithful, QueueNotCollide
  <2>6. QED
    BY <2>1, <2>2, <2>3, <2>4, <2>5
<1>4. CASE Check(r)
  <2> DEFINE f == Here(r)[file[r]]
  <2>0. /\ pc[r] = "check" /\ file[r] <= Len(Here(r))
        /\ UNCHANGED <<order, at, holder, database, faults>>
    BY <1>4 DEF Check
  <2>a. /\ at[r] <= Len(order[r]) /\ order[r][at[r]] \in Schemas
        /\ \A k \in 1 .. (at[r] - 1) : Done(order[r][k])
    BY <2>0, HereType DEF Behind, Locked
  <2>b. \A n \in DOMAIN Here(r) : n < file[r] => Here(r)[n] \in ledger \ altered
    BY <2>0 DEF Behind
  <2>c. file[r] \in DOMAIN Here(r)
    BY <1>0, <2>0, <2>a, FileNames DEF Here
  <2>d. Here(r)' = Here(r)
    BY <2>0 DEF Here
  <2>e. \A q \in Replicas : q # r => pc'[q] = pc[q] /\ file'[q] = file[q]
                                     /\ throwing'[q] = throwing[q]
    BY <1>4 DEF Check, Goto, NextFile, TypeOK
  <2>f. \A q \in Replicas : q # r => Behind(q)'
    BY <2>0, <2>e, OthersStay DEF database
  <2>g. LedgerFaithful'
    BY <2>0 DEF LedgerFaithful, database
  <2>1. CASE f \notin ledger
    <3>1. Goto(r, "run") /\ UNCHANGED <<file, throwing>>
      BY <1>4, <2>1 DEF Check
    <3>2. TypeOK' /\ LockHeld' /\ QueueNotCollide'
      BY <2>0, <3>1 DEF TypeOK, LockHeld, QueueNotCollide, Goto, Locked, InTransaction,
                        database
    <3>3. Behind(r)'
      BY <2>0, <2>1, <2>a, <2>b, <2>d, <3>1
         DEF Behind, Goto, TypeOK, Done, database, Locked, InTransaction
    <3>4. QED
      BY <2>f, <2>g, <3>2, <3>3
  <2>2. CASE f \in ledger \ altered
    <3>1. NextFile(r) /\ UNCHANGED <<pc, throwing>>
      BY <1>4, <2>2 DEF Check
    <3>2. file' = [file EXCEPT ![r] = file[r] + 1] /\ file[r] + 1 \in Nat \ {0}
      BY <1>0, <3>1 DEF NextFile
    <3>3. TypeOK' /\ LockHeld' /\ QueueNotCollide'
      BY <2>0, <3>1, <3>2 DEF TypeOK, LockHeld, QueueNotCollide, database
    <3>4. \A n \in DOMAIN Here(r) : n < file[r] + 1 => Here(r)[n] \in ledger \ altered
      <4>1. \A n \in DOMAIN Here(r) : n \in Nat \ {0}
        BY <2>a, FileNames DEF Here
      <4>2. \A n \in DOMAIN Here(r) : n < file[r] + 1 => n < file[r] \/ n = file[r]
        BY <1>0, <4>1
      <4>3. QED
        BY <2>2, <2>b, <4>2
    <3>5. Behind(r)'
      <4>1. file'[r] = file[r] + 1 /\ pc'[r] = "check"
        BY <2>0, <3>1, <3>2 DEF TypeOK
      <4>2. QED
        BY <2>0, <2>a, <2>d, <3>4, <4>1 DEF Behind, Done, database, Locked, InTransaction
    <3>6. QED
      BY <2>f, <2>g, <3>3, <3>5
  <2>3. CASE f \in ledger \intersect altered
    <3>1. /\ throwing' = [throwing EXCEPT ![r] = TRUE]
          /\ Goto(r, "unlock") /\ UNCHANGED file
      BY <1>4, <2>3 DEF Check
    <3>2. TypeOK' /\ LockHeld'
      BY <2>0, <3>1 DEF TypeOK, LockHeld, Goto, Locked, InTransaction, database
    <3>3. QueueNotCollide'
      BY <2>0, <2>3 DEF QueueNotCollide, database
    <3>4. Behind(r)'
      BY <2>0, <2>a, <3>1 DEF Behind, Goto, TypeOK, Done, database, Locked, InTransaction
    <3>5. QED
      BY <2>f, <2>g, <3>2, <3>3, <3>4
  <2>4. QED
    BY <2>1, <2>2, <2>3
<1>5. CASE AllChecked(r)
  <2> USE DEF AllChecked, Goto, progress, database
  <2>1. TypeOK'
    BY <1>5 DEF TypeOK, Locked, InTransaction
  <2>2. LockHeld'
    BY <1>5, MigrationsAssumption DEF LockHeld, TypeOK, Locked, InTransaction
  <2>3. Behind(r)'
    <3>1. at[r] <= Len(order[r]) /\ order[r][at[r]] \in Schemas
      BY <1>5, HereType DEF Behind, Locked
    <3>2. \A n \in DOMAIN Here(r) : n < file[r]
      <4>1. \A n \in DOMAIN Here(r) : n \in Nat \ {0} /\ n <= Len(Here(r))
        BY <3>1, FileNames DEF Here
      <4>2. Len(Here(r)) \in Nat
        BY <3>1, FileNames DEF Here
      <4>3. QED
        BY <1>0, <1>5, <4>1, <4>2
    <3>3. Done(order[r][at[r]])
      BY <1>5, <3>2 DEF Behind, Done, Here
    <3>4. QED
      BY <1>5, <3>3, GoingOn DEF TypeOK, Locked, InTransaction
  <2>4. \A q \in Replicas : q # r => Behind(q)'
    BY <1>5, OthersStay DEF TypeOK
  <2>5. LedgerFaithful' /\ QueueNotCollide'
    BY <1>5 DEF TypeOK, LedgerFaithful, QueueNotCollide
  <2>6. QED
    BY <2>1, <2>2, <2>3, <2>4, <2>5
<1>6. CASE Run(r)
  <2> USE DEF Run, Goto, progress, database
  <2>1. TypeOK'
    BY <1>6 DEF TypeOK, Locked, InTransaction
  <2>2. LockHeld'
    BY <1>6, MigrationsAssumption DEF LockHeld, TypeOK, Locked, InTransaction
  <2>3. Behind(r)'
    <3>1. /\ pc[r] = "run" /\ pc'[r] = "record" /\ UNCHANGED <<progress, database>>
      BY <1>6 DEF TypeOK
    <3>2. QED
      BY <3>1, GoingOn DEF Locked, InTransaction
  <2>4. \A q \in Replicas : q # r => Behind(q)'
    BY <1>6, OthersStay DEF TypeOK
  <2>5. LedgerFaithful' /\ QueueNotCollide'
    BY <1>6 DEF TypeOK, LedgerFaithful, QueueNotCollide
  <2>6. QED
    BY <2>1, <2>2, <2>3, <2>4, <2>5
<1>7. CASE Record(r)
  <2> USE DEF Record, Goto, progress, database
  <2>1. TypeOK'
    BY <1>7 DEF TypeOK, Locked, InTransaction
  <2>2. LockHeld'
    BY <1>7, MigrationsAssumption DEF LockHeld, TypeOK, Locked, InTransaction
  <2>3. Behind(r)'
    BY <1>7, GoingOn DEF TypeOK, Locked, InTransaction
  <2>4. \A q \in Replicas : q # r => Behind(q)'
    BY <1>7, OthersStay DEF TypeOK
  <2>5. LedgerFaithful' /\ QueueNotCollide'
    BY <1>7 DEF TypeOK, LedgerFaithful, QueueNotCollide, Behind
  <2>6. QED
    BY <2>1, <2>2, <2>3, <2>4, <2>5
<1>8. CASE Commit(r)
  <2>0. /\ pc[r] = "commit" /\ MakeDurable(Here(r)[file[r]]) /\ NextFile(r)
        /\ Goto(r, "check") /\ UNCHANGED <<order, at, throwing, holder, faults>>
    BY <1>8 DEF Commit
  <2>1. /\ file' = [file EXCEPT ![r] = file[r] + 1] /\ file[r] + 1 \in Nat \ {0}
        /\ pc' = [pc EXCEPT ![r] = "check"]
    BY <1>0, <2>0 DEF NextFile, Goto
  <2>2. TypeOK'
    BY <2>0, <2>1, Durable DEF TypeOK, Locked, InTransaction
  <2>3. LockHeld'
    BY <2>0, <2>1 DEF LockHeld, TypeOK, Locked, InTransaction
  <2>4. QueueNotCollide'
    BY <2>0, <2>1, Durable DEF QueueNotCollide, TypeOK
  <2>5. Behind(r)'
    <3>1. /\ at[r] <= Len(order[r]) /\ order[r][at[r]] \in Schemas
          /\ \A k \in 1 .. (at[r] - 1) : Done(order[r][k])'
      BY <2>0, HereType, Durable DEF Behind, Locked, InTransaction, Done
    <3>2. ASSUME NEW n \in DOMAIN Here(r), n < file[r] + 1
          PROVE  Here(r)[n] \in ledger' \ altered'
      <4>1. n \in Nat
        BY <3>1, FileNames DEF Here
      <4>2. n < file[r] \/ n = file[r]
        BY <1>0, <3>2, <4>1
      <4>3. QED
        BY <2>0, <4>2, Durable DEF Behind
    <3>3. pc'[r] = "check" /\ file'[r] = file[r] + 1 /\ Here(r)' = Here(r)
      BY <2>0, <2>1 DEF TypeOK, Here
    <3>4. QED
      BY <2>0, <3>1, <3>2, <3>3 DEF Behind, Locked, InTransaction
  <2>6. ASSUME NEW q \in Replicas, q # r PROVE Behind(q)'
    <3>1. pc[q] \notin Locked
      BY <1>a, <2>0, <2>6 DEF Locked, InTransaction
    <3>2. QED
      BY <2>0, <2>1, <2>6, <3>1, OthersStay, Durable DEF TypeOK, Locked, InTransaction
  <2>7. QED
    BY <2>0, <2>2, <2>3, <2>4, <2>5, <2>6, Durable
<1>9. CASE Rollback(r)
  <2> USE DEF Rollback, Goto, database
  <2>1. TypeOK'
    BY <1>9 DEF TypeOK, Locked, InTransaction
  <2>2. LockHeld'
    BY <1>9 DEF LockHeld, TypeOK, Locked, InTransaction
  <2>3. Behind(r)'
    BY <1>9, GoingOn DEF TypeOK, Locked, InTransaction
  <2>4. \A q \in Replicas : q # r => Behind(q)'
    BY <1>9, OthersStay DEF TypeOK
  <2>5. LedgerFaithful' /\ QueueNotCollide'
    BY <1>9 DEF TypeOK, LedgerFaithful, QueueNotCollide
  <2>6. QED
    BY <2>1, <2>2, <2>3, <2>4, <2>5
<1>10. CASE Unlock(r)
  <2> USE DEF Goto
  <2>0. /\ pc[r] = "unlock" /\ holder = r /\ holder' = NoReplica
        /\ UNCHANGED <<order, throwing, database, faults>>
    BY <1>10 DEF Unlock, LockHeld, Locked
  <2>a. /\ at[r] <= Len(order[r]) /\ order[r] \in Seq(Schemas) /\ Len(order[r]) \in Nat
        /\ \A k \in 1 .. (at[r] - 1) : Done(order[r][k])
    BY <1>0, <2>0, ModuleOrders DEF Behind, Locked
  <2>b. LedgerFaithful'
    BY <2>0 DEF LedgerFaithful, database
  <2>c. \A q \in Replicas : q # r => pc[q] \notin Locked
    BY <1>a, <2>0 DEF Locked
  <2>1. CASE throwing[r]
    <3>1. Goto(r, "down") /\ UNCHANGED <<at, file>>
      BY <1>10, <2>1 DEF Unlock
    <3>2. TypeOK' /\ LockHeld' /\ QueueNotCollide'
      BY <2>0, <2>c, <3>1, MigrationsAssumption
         DEF TypeOK, LockHeld, QueueNotCollide, Locked, InTransaction, database
    <3>3. Behind(r)'
      BY <2>0, <3>1 DEF Behind, TypeOK, Locked, InTransaction
    <3>4. \A q \in Replicas : q # r => Behind(q)'
      BY <2>0, <3>1, OthersStay DEF TypeOK, database
    <3>5. QED
      BY <2>b, <3>2, <3>3, <3>4
  <2>2. CASE ~throwing[r] /\ at[r] < Len(order[r])
    <3>1. /\ at' = [at EXCEPT ![r] = @ + 1]
          /\ file' = [file EXCEPT ![r] = 1]
          /\ Goto(r, "lock")
      BY <1>10, <2>2 DEF Unlock
    <3>a. at' = [at EXCEPT ![r] = at[r] + 1] /\ at[r] + 1 \in Nat \ {0}
      BY <1>0, <3>1
    <3>b. TypeOK'
      BY <2>0, <3>1, <3>a DEF TypeOK, database
    <3>c. LockHeld' /\ QueueNotCollide'
      BY <2>0, <2>c, <3>1, MigrationsAssumption
         DEF TypeOK, LockHeld, QueueNotCollide, Locked, InTransaction, database
    <3>2. TypeOK' /\ LockHeld' /\ QueueNotCollide'
      BY <3>b, <3>c
    <3>3. Behind(r)'
      <4>1. pc'[r] = "lock" /\ at'[r] = at[r] + 1 /\ file'[r] = 1 /\ order'[r] = order[r]
        BY <2>0, <3>1 DEF TypeOK
      <4>2. \A k \in 1 .. at[r] : Done(order[r][k])'
        <5>1. Done(order[r][at[r]])
          BY <2>0, <2>2 DEF Behind
        <5>2. \A k \in 1 .. at[r] : k \in 1 .. (at[r] - 1) \/ k = at[r]
          BY <1>0
        <5>3. QED
          BY <2>0, <2>a, <5>1, <5>2 DEF Done, database
      <4>3. at[r] + 1 <= Len(order[r]) /\ (at[r] + 1) - 1 = at[r]
        BY <1>0, <2>2, <2>a
      <4>4. QED
        BY <4>1, <4>2, <4>3 DEF Behind, Done
    <3>4. \A q \in Replicas : q # r => Behind(q)'
      BY <2>0, <3>1, OthersStay DEF TypeOK, database
    <3>5. QED
      BY <2>b, <3>2, <3>3, <3>4
  <2>3. CASE ~throwing[r] /\ ~(at[r] < Len(order[r]))
    <3>1. Goto(r, "serving") /\ UNCHANGED <<at, file>>
      BY <1>10, <2>3 DEF Unlock
    <3>2. TypeOK' /\ LockHeld' /\ QueueNotCollide'
      BY <2>0, <2>c, <3>1, MigrationsAssumption
         DEF TypeOK, LockHeld, QueueNotCollide, Locked, InTransaction, database
    <3>3. Behind(r)'
      <4>1. \A k \in DOMAIN order[r] : Done(order[r][k])
        <5>1. Done(order[r][at[r]])
          BY <2>0, <2>3 DEF Behind
        <5>2. \A k \in DOMAIN order[r] : k \in 1 .. (at[r] - 1) \/ k = at[r]
          BY <1>0, <2>3, <2>a
        <5>3. QED
          BY <2>a, <5>1, <5>2
      <4>2. pc'[r] = "serving"
        BY <3>1 DEF TypeOK
      <4>3. QED
        BY <2>0, <4>1, <4>2 DEF Behind, Done, database, Locked, InTransaction
    <3>4. \A q \in Replicas : q # r => Behind(q)'
      BY <2>0, <3>1, OthersStay DEF TypeOK, database
    <3>5. QED
      BY <2>b, <3>2, <3>3, <3>4
  <2>4. QED
    BY <2>1, <2>2, <2>3
<1>11. QED
  BY <1>1, <1>2, <1>3, <1>4, <1>5, <1>6, <1>7, <1>8, <1>9, <1>10 DEF Step

LEMMA FaultIInv ==
  ASSUME IInv, NEW r \in Replicas, StatementFails(r) \/ Crash(r)
  PROVE  IInv'
<1> USE DEF IInv
<1>1. faults' \in 0 .. MaxFaults /\ faults' # 0
  <2>1. faults < MaxFaults /\ faults' = faults + 1
    BY DEF StatementFails, Crash, Fault
  <2>2. faults \in Nat /\ faults <= MaxFaults /\ MaxFaults \in Nat
    BY MigrationsAssumption DEF TypeOK
  <2>3. QED
    BY <2>1, <2>2
<1>2. QueueNotCollide'
  BY <1>1 DEF QueueNotCollide
<1>3. CASE StatementFails(r)
  <2>0. /\ UNCHANGED <<order, at, file, holder, database>>
        /\ throwing' \in [Replicas -> BOOLEAN]
    BY <1>3 DEF StatementFails, TypeOK
  <2>1. PICK l \in {"unlock", "rollback"} :
          /\ pc[r] \in Locked \ {"unlock"} /\ pc' = [pc EXCEPT ![r] = l]
          /\ l = "unlock" => throwing'[r] = TRUE
    BY <1>3 DEF StatementFails, TypeOK, Goto, Locked, InTransaction
  <2>2. TypeOK'
    BY <1>1, <2>0, <2>1 DEF TypeOK, Locked, InTransaction, database
  <2>3. LockHeld'
    BY <2>0, <2>1 DEF LockHeld, TypeOK, Locked, InTransaction
  <2>4. Behind(r)'
    BY <2>0, <2>1, GoingOn DEF TypeOK, Locked, InTransaction, database
  <2>5. ASSUME NEW q \in Replicas, q # r PROVE Behind(q)'
    <3>1. pc'[q] = pc[q] /\ throwing'[q] = throwing[q]
      BY <1>3, <2>1, <2>5 DEF StatementFails, TypeOK
    <3>2. QED
      BY <2>0, <3>1, OthersStay DEF database
  <2>6. LedgerFaithful'
    BY <2>0 DEF LedgerFaithful, database
  <2>7. QED
    BY <1>2, <2>2, <2>3, <2>4, <2>5, <2>6
<1>4. CASE Crash(r)
  <2>0. /\ UNCHANGED progress /\ pc' = [pc EXCEPT ![r] = "down"]
        /\ holder' = IF holder = r THEN NoReplica ELSE holder
    BY <1>4 DEF Crash, Goto
  <2>1. /\ ledger \subseteq ledger' /\ ledger' \subseteq Files
        /\ altered' = altered /\ altered' \subseteq ledger'
        /\ ran' \in [Files -> Nat] /\ LedgerFaithful'
        /\ ledger' # ledger => pc[r] = "commit"
    <3>1. CASE UNCHANGED database
      BY <3>1 DEF database, TypeOK, LedgerFaithful
    <3>2. CASE pc[r] = "commit" /\ MakeDurable(Here(r)[file[r]])
      BY <3>2, Durable
    <3>3. QED
      BY <1>4, <3>1, <3>2 DEF Crash
  <2>2. TypeOK'
    BY <1>1, <2>0, <2>1 DEF TypeOK, progress
  <2>3. LockHeld'
    BY <2>0, MigrationsAssumption DEF LockHeld, TypeOK, Locked, InTransaction
  <2>4. Behind(r)'
    BY <2>0 DEF Behind, TypeOK, Locked, InTransaction
  <2>5. ASSUME NEW q \in Replicas, q # r PROVE Behind(q)'
    <3>1. pc[r] = "commit" => pc[q] \notin Locked
      BY <2>5 DEF LockHeld, Locked, InTransaction
    <3>2. QED
      BY <2>0, <2>1, <2>5, <3>1, OthersStay DEF TypeOK, progress, Locked, InTransaction
  <2>6. QED
    BY <1>2, <2>1, <2>2, <2>3, <2>4, <2>5
<1>5. QED
  BY <1>3, <1>4

LEMMA NextIInv == IInv /\ [Next]_vars => IInv'
<1> SUFFICES ASSUME IInv, [Next]_vars PROVE IInv'
  OBVIOUS
<1>1. CASE Next
  BY <1>1, StepIInv, FaultIInv DEF Next
<1>2. CASE UNCHANGED vars
  BY <1>2 DEF vars, IInv, TypeOK, LockHeld, Behind, Done, Here, LedgerFaithful,
              QueueNotCollide
<1>3. QED
  BY <1>1, <1>2

LEMMA Invariant == Spec => []IInv
BY InitIInv, NextIInv, PTL DEF Spec

-------------------------------------------------------------------------------
(* Theorems *)

\* Every variable keeps its type.
THEOREM TypeCorrect == Spec => []TypeOK
<1>1. IInv => TypeOK
  BY DEF IInv
<1>2. QED
  BY <1>1, Invariant, PTL

\* The ledger holds the files that were run, each once and in their order,
\* whatever replicas, failing statements and crashes do.
THEOREM LedgerCorrect == Spec => []LedgerFaithful
<1>1. IInv => LedgerFaithful
  BY DEF IInv
<1>2. QED
  BY <1>1, Invariant, PTL

\* A replica listens only on a database that has every file, unaltered.
THEOREM ServeCorrect == Spec => []ServesMigrated
<1>1. IInv => ServesMigrated
  <2> SUFFICES ASSUME IInv, NEW r \in Replicas, pc[r] = "serving", NEW f \in Files
               PROVE  f \in ledger \ altered
    BY DEF ServesMigrated
  <2>1. PICK s \in Schemas : \E n \in DOMAIN FilesOf[s] : f = FilesOf[s][n]
    BY DEF Files
  <2>2. PICK k \in DOMAIN order[r] : order[r][k] = s
    BY ModuleOrders DEF IInv, TypeOK
  <2>3. Done(s)
    BY <2>2 DEF IInv, Behind
  <2>4. QED
    BY <2>1, <2>3 DEF Done
<1>2. QED
  BY <1>1, Invariant, PTL

\* Migrators queue: none fails to boot because of another.
THEOREM QueueCorrect == Spec => []QueueNotCollide
<1>1. IInv => QueueNotCollide
  BY DEF IInv
<1>2. QED
  BY <1>1, Invariant, PTL
===============================================================================
