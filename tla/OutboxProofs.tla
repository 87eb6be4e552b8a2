----------------------------- MODULE OutboxProofs -----------------------------
(***************************************************************************)
(* Theorems about Outbox, for any number of rows, workers and faults.      *)
(***************************************************************************)
EXTENDS Outbox, TLAPS

\* What a worker holds or has sent is a row of the table.
WorkOwed ==
  /\ \A w \in Workers, id \in Ids : claims[w][id] > 0 => id \in rows
  /\ \A w \in Workers : sending[w] \in Ids => sending[w] \in rows
  /\ strays \subseteq rows

TypeInv == TypeOK /\ WorkOwed

LEMMA NullId == NoId \notin Ids
BY OutboxAssumption

-------------------------------------------------------------------------------
(* Types *)

LEMMA FinishTypes ==
  ASSUME TypeInv, NEW w \in Workers, sending[w] \in Ids, Finish(w)
  PROVE  /\ claims' \in [Workers -> [Ids -> Nat]]
         /\ sending' = [sending EXCEPT ![w] = NoId]
         /\ pc' = [pc EXCEPT ![w] = "idle"] \/ pc' = [pc EXCEPT ![w] = "next"]
         /\ \A v \in Workers, id \in Ids : claims'[v][id] > 0 => claims[v][id] > 0
<1> USE DEF TypeInv, TypeOK, Finish, Goto
<1> DEFINE left == [claims[w] EXCEPT ![sending[w]] = 0]
<1>1. claims' = [claims EXCEPT ![w] = left] /\ sending' = [sending EXCEPT ![w] = NoId]
  OBVIOUS
<1>2. pc' = [pc EXCEPT ![w] = IF left = NoClaims THEN "idle" ELSE "next"]
  OBVIOUS
<1>3. left \in [Ids -> Nat] /\ \A id \in Ids : left[id] > 0 => claims[w][id] > 0
  OBVIOUS
<1> HIDE DEF left
<1>4. claims' \in [Workers -> [Ids -> Nat]]
  BY <1>1, <1>3
<1>5. \A v \in Workers, id \in Ids : claims'[v][id] > 0 => claims[v][id] > 0
  BY <1>1, <1>3
<1>6. pc' = [pc EXCEPT ![w] = "idle"] \/ pc' = [pc EXCEPT ![w] = "next"]
  BY <1>2
<1> QED
  BY <1>1, <1>4, <1>5, <1>6

\* The oldest id leaves a full memory.
LEMMA SeenTypes ==
  ASSUME TypeInv, seen # <<>>
  PROVE  /\ Head(seen) \in Ids /\ Head(seen) = seen[1]
         /\ Tail(seen) \in Seq(Ids) /\ Len(Tail(seen)) = Len(seen) - 1
         /\ \A i \in 1 .. Len(seen) - 1 : Tail(seen)[i] = seen[i + 1]
BY DEF TypeInv, TypeOK

LEMMA HandleTypes ==
  ASSUME TypeInv, NEW id \in Ids, Handle(id)
  PROVE  /\ seen' \in Seq(Ids) /\ Len(seen') <= MaxSeen
         /\ performed' \in [Ids -> Nat] /\ forgotten' \in [Ids -> Nat]
<1> USE DEF TypeInv, TypeOK, Handle, route
<1>1. MaxSeen \in Nat /\ MaxSeen > 0
  BY OutboxAssumption
<1>2. [performed EXCEPT ![id] = @ + 1] \in [Ids -> Nat]
  OBVIOUS
<1>3. CASE InSeen(id)
  BY <1>3
<1>4. CASE ~InSeen(id) /\ Len(seen) < MaxSeen
  <2>1. Append(seen, id) \in Seq(Ids) /\ Len(Append(seen, id)) = Len(seen) + 1
    OBVIOUS
  <2>2. Len(seen) \in Nat
    OBVIOUS
  <2>3. seen' = Append(seen, id) /\ forgotten' = forgotten
    BY <1>4
  <2>4. performed' \in [Ids -> Nat]
    <3>1. performed' = [performed EXCEPT ![id] = @ + 1]
      BY <1>4
    <3> QED BY <3>1, <1>2
  <2> QED BY <1>1, <1>4, <2>1, <2>2, <2>3, <2>4
<1>5. CASE ~InSeen(id) /\ ~(Len(seen) < MaxSeen)
  <2>1. Len(seen) = MaxSeen /\ seen # <<>>
    BY <1>1, <1>5
  <2>2. Head(seen) \in Ids /\ Tail(seen) \in Seq(Ids) /\ Len(Tail(seen)) = Len(seen) - 1
    BY <2>1, SeenTypes
  <2>3. /\ Append(Tail(seen), id) \in Seq(Ids)
        /\ Len(Append(Tail(seen), id)) = Len(Tail(seen)) + 1
    BY <2>2
  <2>4. seen' = Append(Tail(seen), id)
    BY <1>5
  <2>5. performed' \in [Ids -> Nat]
    <3>1. performed' = [performed EXCEPT ![id] = @ + 1]
      BY <1>5
    <3> QED BY <3>1, <1>2
  <2>6. forgotten' \in [Ids -> Nat]
    <3> DEFINE oldest == Head(seen)
    <3>1. forgotten' = [forgotten EXCEPT ![oldest] = @ + 1]
      BY <1>5
    <3>2. oldest \in Ids
      BY <2>2
    <3> HIDE DEF oldest
    <3> QED BY <3>1, <3>2
  <2>7. Len(seen) \in Nat /\ Len(seen') = Len(seen)
    BY <2>1, <2>2, <2>3, <2>4
  <2> QED BY <1>1, <2>1, <2>3, <2>4, <2>5, <2>6, <2>7
<1> QED
  BY <1>3, <1>4, <1>5

LEMMA ClaimTypes ==
  ASSUME TypeInv, NEW w \in Workers, Claim(w)
  PROVE  TypeInv'
<1> USE DEF TypeInv, TypeOK, WorkOwed, Claim, route
<1>1. PICK S \in SUBSET (due \ delivered) :
        /\ due' = due \ S
        /\ attempts' = [id \in Ids |-> IF id \in S THEN attempts[id] + 1 ELSE attempts[id]]
        /\ claims' = [claims EXCEPT ![w] =
                       [id \in Ids |-> IF id \in S THEN attempts[id] + 1 ELSE 0]]
  BY DEF Batches
<1>2. TypeOK'
  <2>1. claims' \in [Workers -> [Ids -> Nat]]
    BY <1>1
  <2> QED BY <1>1, <2>1
<1>3. WorkOwed'
  <2>1. ASSUME NEW v \in Workers, NEW id \in Ids, claims'[v][id] > 0
        PROVE  id \in rows
    BY <1>1, <2>1
  <2> QED BY <2>1
<1> QED
  BY <1>2, <1>3

LEMMA SweepTypes ==
  ASSUME TypeInv, Sweep
  PROVE  TypeInv'
<1> USE DEF TypeInv, TypeOK, WorkOwed, Sweep, work, route
<1>1. PICK S \in SUBSET Sweepable :
        /\ delivered' = delivered \ S
        /\ exhausted' = exhausted \ S
        /\ due' = due \union S
        /\ attempts' = [id \in Ids |-> IF id \in S THEN 0 ELSE attempts[id]]
        /\ requeues' = [id \in Ids |-> IF id \in S THEN requeues[id] + 1 ELSE requeues[id]]
  BY DEF Batches
<1>2. ASSUME NEW id \in S PROVE id \in rows /\ requeues[id] + 1 \in 0 .. MaxRequeues
  <2>1. id \in Ids /\ requeues[id] < MaxRequeues /\ id \in rows
    BY DEF Sweepable
  <2> QED BY <2>1, OutboxAssumption
<1> QED
  BY <1>1, <1>2

LEMMA Typing == TypeInv /\ [Next]_vars => TypeInv'
<1> SUFFICES ASSUME TypeInv, [Next]_vars PROVE TypeInv'
  OBVIOUS
<1> USE NullId DEF TypeInv, TypeOK, WorkOwed
<1>1. ASSUME NEW id \in Ids, Enqueue(id) PROVE TypeInv'
  BY <1>1 DEF Enqueue, work, route
<1>2. ASSUME NEW id \in Ids, BecomeDue(id) PROVE TypeInv'
  BY <1>2 DEF BecomeDue, work, route
<1>3. ASSUME NEW id \in Ids, ReceiveStray(id) PROVE TypeInv'
  BY <1>3, HandleTypes DEF ReceiveStray, table, work
<1>4. ASSUME NEW w \in Workers, Claim(w) PROVE TypeInv'
  BY <1>4, ClaimTypes
<1>5. ASSUME NEW w \in Workers, Send(w) PROVE TypeInv'
  BY <1>5 DEF Send, Goto, table, route
<1>6. ASSUME NEW w \in Workers, MarkDelivered(w) PROVE TypeInv'
  <2>1. sending[w] \in Ids /\ sending[w] \in rows
    BY <1>6 DEF MarkDelivered
  <2>2. /\ claims' \in [Workers -> [Ids -> Nat]]
        /\ sending' = [sending EXCEPT ![w] = NoId]
        /\ pc' = [pc EXCEPT ![w] = "idle"] \/ pc' = [pc EXCEPT ![w] = "next"]
        /\ \A v \in Workers, id \in Ids : claims'[v][id] > 0 => claims[v][id] > 0
    BY <1>6, <2>1, FinishTypes DEF MarkDelivered
  <2>3. /\ rows' \subseteq Ids /\ errors' \subseteq rows' /\ due' \subseteq rows'
        /\ exhausted' \subseteq delivered' /\ delivered' \subseteq rows'
    BY <1>6, <2>1 DEF MarkDelivered
  <2>4. /\ rows' = rows /\ UNCHANGED <<strays, seen, performed, forgotten, faults>>
        /\ UNCHANGED <<attempts, requeues>>
    BY <1>6 DEF MarkDelivered, route
  <2>5. /\ sending' \in [Workers -> Ids \union {NoId}]
        /\ pc' \in [Workers -> {"idle", "next", "posted", "accepted", "failed"}]
        /\ \A v \in Workers : sending'[v] = NoId <=> pc'[v] \in {"idle", "next"}
        /\ \A v \in Workers : sending'[v] \in Ids => sending[v] = sending'[v]
    BY <2>2
  <2> QED BY <2>2, <2>3, <2>4, <2>5
<1>7. ASSUME NEW w \in Workers, RecordFailure(w) PROVE TypeInv'
  <2>1. sending[w] \in Ids /\ sending[w] \in rows
    BY <1>7 DEF RecordFailure
  <2>2. /\ claims' \in [Workers -> [Ids -> Nat]]
        /\ sending' = [sending EXCEPT ![w] = NoId]
        /\ pc' = [pc EXCEPT ![w] = "idle"] \/ pc' = [pc EXCEPT ![w] = "next"]
        /\ \A v \in Workers, id \in Ids : claims'[v][id] > 0 => claims[v][id] > 0
    BY <1>7, <2>1, FinishTypes DEF RecordFailure
  <2>3. /\ rows' \subseteq Ids /\ errors' \subseteq rows' /\ due' \subseteq rows'
        /\ exhausted' \subseteq delivered' /\ delivered' \subseteq rows'
    BY <1>7, <2>1 DEF RecordFailure
  <2>4. /\ rows' = rows /\ UNCHANGED <<strays, seen, performed, forgotten, faults>>
        /\ UNCHANGED <<attempts, requeues>>
    BY <1>7 DEF RecordFailure, route
  <2>5. /\ sending' \in [Workers -> Ids \union {NoId}]
        /\ pc' \in [Workers -> {"idle", "next", "posted", "accepted", "failed"}]
        /\ \A v \in Workers : sending'[v] = NoId <=> pc'[v] \in {"idle", "next"}
        /\ \A v \in Workers : sending'[v] \in Ids => sending[v] = sending'[v]
    BY <2>2
  <2> QED BY <2>2, <2>3, <2>4, <2>5
<1>8. ASSUME NEW w \in Workers, FetchFails(w) PROVE TypeInv'
  BY <1>8 DEF FetchFails, Abandoned, Goto, table, route
<1>9. ASSUME NEW w \in Workers, AnswerLost(w) PROVE TypeInv'
  BY <1>9 DEF AnswerLost, Goto, table, route
<1>10. ASSUME NEW w \in Workers, Receive(w) PROVE TypeInv'
  BY <1>10, HandleTypes DEF Receive, Goto, table
<1>11. ASSUME NEW w \in Workers, MarkFails(w) PROVE TypeInv'
  BY <1>11, OutboxAssumption DEF MarkFails, Goto, table, route
<1>12. ASSUME NEW w \in Workers, TickEnds(w) PROVE TypeInv'
  <2>1. strays' \subseteq rows
    BY <1>12 DEF TickEnds, Abandoned
  <2>2. claims' \in [Workers -> [Ids -> Nat]]
    BY <1>12 DEF TickEnds, NoClaims
  <2>3. \A v \in Workers, id \in Ids : claims'[v][id] > 0 => claims[v][id] > 0
    BY <1>12 DEF TickEnds, NoClaims
  <2> QED BY <1>12, <2>1, <2>2, <2>3, OutboxAssumption DEF TickEnds, Goto, table, route
<1>13. CASE Sweep
  BY <1>13, SweepTypes
<1>14. CASE StorefrontRestarts
  <2>1. seen' = <<>> /\ seen' \in Seq(Ids)
    BY <1>14 DEF StorefrontRestarts
  <2>2. forgotten' \in [Ids -> Nat]
    BY <1>14 DEF StorefrontRestarts
  <2> QED
    BY <1>14, <2>1, <2>2, OutboxAssumption DEF StorefrontRestarts, table, work
<1>15. CASE UNCHANGED vars
  BY <1>15 DEF vars
<1> QED
  BY <1>1, <1>2, <1>3, <1>4, <1>5, <1>6, <1>7, <1>8, <1>9, <1>10, <1>11, <1>12,
     <1>13, <1>14, <1>15 DEF Next, Work

LEMMA InitTypes == Init => TypeInv
BY OutboxAssumption DEF Init, TypeInv, TypeOK, WorkOwed, NoClaims

\* Every variable keeps its type, and the table its shape: only rows that exist
\* are due or settled, only settled ones are exhausted, no row is swept more than
\* MaxRequeues times, and the route never remembers more than MAX_SEEN ids.
THEOREM TypeCorrect == Spec => []TypeOK
BY InitTypes, Typing, PTL DEF Spec, TypeInv

-------------------------------------------------------------------------------
(* The memory of the route *)

\* The route counts what it did: an invalidation for id is either remembered or
\* was forgotten since, and it remembers an id once.
Tally ==
  /\ \A i, j \in 1 .. Len(seen) : seen[i] = seen[j] => i = j
  /\ \A id \in Ids :
       performed[id] = forgotten[id] + (IF InSeen(id) THEN 1 ELSE 0)
  /\ \A id \in Ids : performed[id] > 0 => id \in rows

LEMMA NotLast ==
  ASSUME NEW n \in Nat, NEW i \in 1 .. n, i # n
  PROVE  i \in 1 .. n - 1 /\ i + 1 \in 1 .. n /\ 1 \in 1 .. n
OBVIOUS

LEMMA AppendSeen ==
  ASSUME TypeInv, Tally, NEW id \in rows, Handle(id), ~InSeen(id),
         Len(seen) < MaxSeen, rows' = rows
  PROVE  Tally'
<1> USE DEF TypeInv, TypeOK
<1>1. /\ seen' = Append(seen, id) /\ forgotten' = forgotten
      /\ performed' = [performed EXCEPT ![id] = @ + 1]
  BY DEF Handle
<1>2. /\ Len(seen) \in Nat /\ Len(seen') = Len(seen) + 1
      /\ seen'[Len(seen) + 1] = id
      /\ \A i \in 1 .. Len(seen) : seen'[i] = seen[i]
  BY <1>1
<1>3. \A i \in 1 .. Len(seen) : seen[i] # id
  BY DEF InSeen
<1>4. \A i, j \in 1 .. Len(seen') : seen'[i] = seen'[j] => i = j
  <2> SUFFICES ASSUME NEW i \in 1 .. Len(seen) + 1, NEW j \in 1 .. Len(seen) + 1,
                      seen'[i] = seen'[j]
               PROVE  i = j
    BY <1>2
  <2>1. \A k \in 1 .. Len(seen) + 1 : k = Len(seen) + 1 \/ k \in 1 .. Len(seen)
    BY <1>2
  <2>2. CASE i = Len(seen) + 1 \/ j = Len(seen) + 1
    BY <1>2, <1>3, <2>1, <2>2
  <2>3. CASE i \in 1 .. Len(seen) /\ j \in 1 .. Len(seen)
    BY <1>2, <2>3 DEF Tally
  <2> QED BY <2>1, <2>2, <2>3
<1>5. ASSUME NEW x \in Ids PROVE InSeen(x)' <=> InSeen(x) \/ x = id
  <2>1. \A k \in 1 .. Len(seen) + 1 : k = Len(seen) + 1 \/ k \in 1 .. Len(seen)
    BY <1>2
  <2>2. Len(seen) + 1 \in 1 .. Len(seen') /\ 1 .. Len(seen) \subseteq 1 .. Len(seen')
    BY <1>2
  <2>3. InSeen(x)' => InSeen(x) \/ x = id
    BY <1>2, <2>1 DEF InSeen
  <2>4. InSeen(x) => InSeen(x)'
    BY <1>2, <2>2 DEF InSeen
  <2>5. InSeen(id)'
    BY <1>2, <2>2 DEF InSeen
  <2> QED BY <2>3, <2>4, <2>5
<1>6. ASSUME NEW x \in Ids
      PROVE  performed'[x] = forgotten'[x] + (IF InSeen(x)' THEN 1 ELSE 0)
  <2>1. performed[x] = forgotten[x] + (IF InSeen(x) THEN 1 ELSE 0)
    BY DEF Tally
  <2>2. CASE x = id
    <3>1. performed'[x] = performed[x] + 1
      BY <1>1, <2>2
    <3>2. performed[x] = forgotten[x] + 0
      BY <2>1, <2>2
    <3>3. InSeen(x)'
      BY <1>5, <2>2
    <3> QED BY <1>1, <3>1, <3>2, <3>3
  <2>3. CASE x # id
    <3>1. performed'[x] = performed[x]
      BY <1>1, <2>3
    <3>2. InSeen(x)' <=> InSeen(x)
      BY <1>5, <2>3
    <3> QED BY <1>1, <2>1, <3>1, <3>2
  <2> QED BY <2>2, <2>3
<1>7. \A x \in Ids : performed'[x] > 0 => x \in rows'
  BY <1>1 DEF Tally
<1> QED
  BY <1>4, <1>6, <1>7 DEF Tally

LEMMA RotateSeen ==
  ASSUME TypeInv, Tally, NEW id \in rows, Handle(id), ~InSeen(id),
         ~(Len(seen) < MaxSeen), rows' = rows
  PROVE  Tally'
<1> USE DEF TypeInv, TypeOK
<1> PICK oldest : oldest = Head(seen)
  OBVIOUS
<1>1. /\ seen' = Append(Tail(seen), id)
      /\ forgotten' = [forgotten EXCEPT ![oldest] = @ + 1]
      /\ performed' = [performed EXCEPT ![id] = @ + 1]
  BY DEF Handle
<1>2. Len(seen) \in Nat /\ Len(seen) > 0 /\ seen # <<>>
  BY OutboxAssumption
<1>3. oldest \in Ids /\ oldest = seen[1]
  BY <1>2, SeenTypes
<1>4. /\ Tail(seen) \in Seq(Ids) /\ Len(Tail(seen)) = Len(seen) - 1
      /\ \A i \in 1 .. Len(seen) - 1 : Tail(seen)[i] = seen[i + 1]
  BY <1>2, SeenTypes
<1>5. /\ Len(seen') = Len(seen)
      /\ seen'[Len(seen)] = id
      /\ \A i \in 1 .. Len(seen) - 1 : seen'[i] = Tail(seen)[i]
  BY <1>1, <1>2, <1>4
<1>6. \A i \in 1 .. Len(seen) - 1 : seen'[i] = seen[i + 1]
  BY <1>4, <1>5
<1>7. \A i \in 1 .. Len(seen) : seen[i] # id
  BY DEF InSeen
<1>8. \A i, j \in 1 .. Len(seen') : seen'[i] = seen'[j] => i = j
  <2> SUFFICES ASSUME NEW i \in 1 .. Len(seen), NEW j \in 1 .. Len(seen),
                      seen'[i] = seen'[j]
               PROVE  i = j
    BY <1>5
  <2>1. CASE i = Len(seen) \/ j = Len(seen)
    <3>1. ASSUME NEW k \in 1 .. Len(seen), k # Len(seen) PROVE seen'[k] # id
      <4>1. k \in 1 .. Len(seen) - 1 /\ k + 1 \in 1 .. Len(seen)
        BY <1>2, <3>1, NotLast
      <4> QED BY <1>6, <1>7, <4>1
    <3> QED BY <1>5, <2>1, <3>1
  <2>2. CASE i # Len(seen) /\ j # Len(seen)
    <3>1. i \in 1 .. Len(seen) - 1 /\ j \in 1 .. Len(seen) - 1
      BY <1>2, <2>2, NotLast
    <3>2. i + 1 \in 1 .. Len(seen) /\ j + 1 \in 1 .. Len(seen)
      BY <1>2, <2>2, NotLast
    <3>3. seen[i + 1] = seen[j + 1]
      BY <1>6, <3>1
    <3>4. i + 1 = j + 1
      BY <3>2, <3>3 DEF Tally
    <3> QED BY <3>1, <3>4
  <2> QED BY <2>1, <2>2
<1>9. oldest # id /\ InSeen(oldest)
  BY <1>2, <1>3, <1>7 DEF InSeen
<1>10. ~InSeen(oldest)'
  <2> SUFFICES ASSUME NEW i \in 1 .. Len(seen'), seen'[i] = oldest PROVE FALSE
    BY DEF InSeen
  <2>1. i \in 1 .. Len(seen)
    BY <1>5
  <2>2. i # Len(seen)
    BY <1>5, <1>9
  <2>3. i \in 1 .. Len(seen) - 1 /\ i + 1 \in 1 .. Len(seen) /\ 1 \in 1 .. Len(seen)
    BY <1>2, <2>1, <2>2, NotLast
  <2>4. seen[i + 1] = seen[1]
    BY <1>3, <1>6, <2>3
  <2>5. i + 1 = 1
    BY <2>3, <2>4 DEF Tally
  <2> QED BY <2>3, <2>5
<1>11. InSeen(id)'
  BY <1>2, <1>5 DEF InSeen
<1>12. ASSUME NEW x \in Ids, x # id, x # oldest PROVE InSeen(x)' <=> InSeen(x)
  <2>1. ASSUME InSeen(x) PROVE InSeen(x)'
    <3>1. PICK i \in 1 .. Len(seen) : seen[i] = x
      BY <2>1 DEF InSeen
    <3>2. i # 1
      BY <1>3, <1>12, <3>1
    <3>3. i - 1 \in 1 .. Len(seen) - 1 /\ i - 1 \in 1 .. Len(seen) /\ (i - 1) + 1 = i
      BY <1>2, <3>1, <3>2
    <3>4. seen'[i - 1] = x
      BY <1>6, <3>1, <3>3
    <3> QED BY <1>5, <3>3, <3>4 DEF InSeen
  <2>2. ASSUME InSeen(x)' PROVE InSeen(x)
    <3>1. PICK i \in 1 .. Len(seen) : seen'[i] = x
      BY <1>5, <2>2 DEF InSeen
    <3>2. i # Len(seen)
      BY <1>5, <1>12, <3>1
    <3>3. i \in 1 .. Len(seen) - 1 /\ i + 1 \in 1 .. Len(seen)
      BY <1>2, <3>1, <3>2, NotLast
    <3>4. seen[i + 1] = x
      BY <1>6, <3>1, <3>3
    <3> QED BY <3>3, <3>4 DEF InSeen
  <2> QED BY <2>1, <2>2
<1>13. ASSUME NEW x \in Ids
       PROVE  performed'[x] = forgotten'[x] + (IF InSeen(x)' THEN 1 ELSE 0)
  <2>1. performed[x] = forgotten[x] + (IF InSeen(x) THEN 1 ELSE 0)
    BY DEF Tally
  <2>2. CASE x = id
    <3>1. performed'[x] = performed[x] + 1 /\ forgotten'[x] = forgotten[x]
      BY <1>1, <1>9, <2>2
    <3>2. performed[x] = forgotten[x] + 0
      BY <2>1, <2>2
    <3>3. InSeen(x)'
      BY <1>11, <2>2
    <3> QED BY <3>1, <3>2, <3>3
  <2>3. CASE x = oldest
    <3>1. performed'[x] = performed[x] /\ forgotten'[x] = forgotten[x] + 1
      BY <1>1, <1>9, <2>3
    <3>2. performed[x] = forgotten[x] + 1
      BY <1>9, <2>1, <2>3
    <3>3. ~InSeen(x)'
      BY <1>10, <2>3
    <3> QED BY <3>1, <3>2, <3>3
  <2>4. CASE x # id /\ x # oldest
    <3>1. performed'[x] = performed[x] /\ forgotten'[x] = forgotten[x]
      BY <1>1, <1>3, <2>4
    <3>2. InSeen(x)' <=> InSeen(x)
      BY <1>12, <2>4
    <3> QED BY <2>1, <3>1, <3>2
  <2> QED BY <2>2, <2>3, <2>4
<1>14. \A x \in Ids : performed'[x] > 0 => x \in rows'
  BY <1>1 DEF Tally
<1> QED
  BY <1>8, <1>13, <1>14 DEF Tally

LEMMA HandleTally ==
  ASSUME TypeInv, Tally, NEW id \in rows, Handle(id), rows' = rows
  PROVE  Tally'
<1>1. CASE InSeen(id)
  BY <1>1 DEF Handle, route, Tally, InSeen
<1>2. CASE ~InSeen(id)
  BY <1>2, AppendSeen, RotateSeen
<1> QED
  BY <1>1, <1>2

LEMMA RestartTally ==
  ASSUME TypeInv, Tally, StorefrontRestarts
  PROVE  Tally'
<1> USE DEF TypeInv, TypeOK, StorefrontRestarts, table
<1>1. Len(seen') = 0 /\ \A x : ~InSeen(x)'
  BY DEF InSeen
<1>2. ASSUME NEW x \in Ids PROVE performed'[x] = forgotten'[x] + 0
  <2>1. performed[x] = forgotten[x] + (IF InSeen(x) THEN 1 ELSE 0)
    BY DEF Tally
  <2>2. forgotten'[x] = IF InSeen(x) THEN forgotten[x] + 1 ELSE forgotten[x]
    OBVIOUS
  <2>3. performed'[x] = performed[x] /\ performed[x] \in Nat /\ forgotten[x] \in Nat
    OBVIOUS
  <2>4. CASE InSeen(x)
    BY <2>1, <2>2, <2>3, <2>4
  <2>5. CASE ~InSeen(x)
    BY <2>1, <2>2, <2>3, <2>5
  <2> QED BY <2>4, <2>5
<1>3. \A x \in Ids : performed'[x] = forgotten'[x] + (IF InSeen(x)' THEN 1 ELSE 0)
  BY <1>1, <1>2
<1>4. \A x \in Ids : performed'[x] > 0 => x \in rows'
  BY DEF Tally
<1> QED
  BY <1>1, <1>3, <1>4 DEF Tally

LEMMA TallyKept == TypeInv /\ Tally /\ [Next]_vars => Tally'
<1> SUFFICES ASSUME TypeInv, Tally, [Next]_vars PROVE Tally'
  OBVIOUS
<1>1. ASSUME rows \subseteq rows', UNCHANGED route PROVE Tally'
  BY <1>1 DEF Tally, InSeen, route
<1>2. ASSUME NEW id \in Ids, Enqueue(id) \/ BecomeDue(id) PROVE Tally'
  BY <1>1, <1>2 DEF Enqueue, BecomeDue
<1>3. ASSUME NEW id \in Ids, ReceiveStray(id) PROVE Tally'
  BY <1>3, HandleTally DEF ReceiveStray, table, TypeInv, WorkOwed
<1>4. ASSUME NEW w \in Workers, Receive(w) PROVE Tally'
  <2>1. sending[w] \in rows
    BY <1>4, NullId DEF Receive, TypeInv, TypeOK, WorkOwed
  <2> QED BY <1>4, <2>1, HandleTally DEF Receive, table
<1>5. ASSUME NEW w \in Workers,
             Claim(w) \/ Send(w) \/ MarkDelivered(w) \/ RecordFailure(w)
      PROVE  Tally'
  BY <1>1, <1>5 DEF Claim, Send, MarkDelivered, RecordFailure, table
<1>6. ASSUME NEW w \in Workers,
             FetchFails(w) \/ AnswerLost(w) \/ MarkFails(w) \/ TickEnds(w)
      PROVE  Tally'
  BY <1>1, <1>6 DEF FetchFails, AnswerLost, MarkFails, TickEnds, table
<1>7. CASE Sweep
  BY <1>1, <1>7 DEF Sweep
<1>8. CASE StorefrontRestarts
  BY <1>8, RestartTally
<1>9. CASE UNCHANGED vars
  BY <1>1, <1>9 DEF vars, route
<1> QED
  BY <1>2, <1>3, <1>4, <1>5, <1>6, <1>7, <1>8, <1>9 DEF Next, Work

LEMMA TallyBounds == TypeInv /\ Tally => LooksExactlyOnce
<1> SUFFICES ASSUME TypeInv, Tally, NEW id \in Ids
             PROVE  performed[id] <= 1 + forgotten[id] /\ (performed[id] > 0 => id \in rows)
  BY DEF LooksExactlyOnce
<1>1. performed[id] = forgotten[id] + (IF InSeen(id) THEN 1 ELSE 0)
  BY DEF Tally
<1>2. performed[id] \in Nat /\ forgotten[id] \in Nat
  BY DEF TypeInv, TypeOK
<1>3. performed[id] = forgotten[id] + 1 \/ performed[id] = forgotten[id] + 0
  BY <1>1
<1> QED
  BY <1>2, <1>3 DEF Tally

LEMMA InitTally == Init => Tally
BY DEF Init, Tally, InSeen

\* However often workers time out, retry, sweep or crash and POSTs arrive late,
\* the route invalidates for a webhook once, and once more for each time it
\* forgot the delivery id, and never for one that is not in the table.
THEOREM OnceCorrect == Spec => []LooksExactlyOnce
<1>1. Init => TypeInv /\ Tally
  BY InitTypes, InitTally
<1>2. TypeInv /\ Tally /\ [Next]_vars => (TypeInv /\ Tally)'
  BY Typing, TallyKept
<1>3. TypeInv /\ Tally => LooksExactlyOnce
  BY TallyBounds
<1> QED
  BY <1>1, <1>2, <1>3, PTL DEF Spec

-------------------------------------------------------------------------------
(* Delivery *)

\* What the route acknowledges or remembers it has done.
Done ==
  /\ \A w \in Workers : pc[w] = "accepted" => performed[sending[w]] > 0
  /\ \A id \in Ids : InSeen(id) => performed[id] > 0

LEMMA HandleDone ==
  ASSUME TypeInv, Done, NEW id \in Ids, Handle(id)
  PROVE  /\ performed'[id] > 0
         /\ \A x \in Ids : performed[x] > 0 => performed'[x] > 0
         /\ \A x \in Ids : InSeen(x)' => InSeen(x) \/ x = id
<1> USE DEF TypeInv, TypeOK
<1>1. CASE InSeen(id)
  BY <1>1 DEF Handle, route, Done, InSeen
<1>2. CASE ~InSeen(id)
  <2>1. performed' = [performed EXCEPT ![id] = @ + 1]
    BY <1>2 DEF Handle
  <2>2. ASSUME NEW x \in Ids, NEW i \in 1 .. Len(seen'), seen'[i] = x, x # id
        PROVE  \E j \in 1 .. Len(seen) : seen[j] = x
    <3>1. CASE Len(seen) < MaxSeen
      <4>1. seen' = Append(seen, id)
        BY <1>2, <3>1 DEF Handle
      <4>2. /\ Len(seen') = Len(seen) + 1 /\ seen'[Len(seen) + 1] = id
            /\ Len(seen) \in Nat /\ \A k \in 1 .. Len(seen) : seen'[k] = seen[k]
        BY <4>1
      <4>3. i \in 1 .. Len(seen)
        BY <2>2, <4>2
      <4> QED BY <2>2, <4>2, <4>3
    <3>2. CASE ~(Len(seen) < MaxSeen)
      <4>1. seen' = Append(Tail(seen), id)
        BY <1>2, <3>2 DEF Handle
      <4>2. seen # <<>> /\ Len(seen) \in Nat
        BY <3>2, OutboxAssumption
      <4>3. /\ Len(seen') = Len(seen) /\ seen'[Len(seen)] = id
            /\ \A k \in 1 .. Len(seen) - 1 : seen'[k] = seen[k + 1]
        BY <4>1, <4>2, SeenTypes
      <4>4. i \in 1 .. Len(seen) /\ i # Len(seen)
        BY <2>2, <4>3
      <4>5. i \in 1 .. Len(seen) - 1 /\ i + 1 \in 1 .. Len(seen)
        BY <4>2, <4>4, NotLast
      <4> QED BY <2>2, <4>3, <4>5
    <3> QED BY <3>1, <3>2
  <2> QED BY <2>1, <2>2 DEF InSeen
<1> QED
  BY <1>1, <1>2

LEMMA DoneKept == TypeInv /\ Done /\ [Next]_vars => Done'
<1> SUFFICES ASSUME TypeInv, Done, [Next]_vars PROVE Done'
  OBVIOUS
<1> USE NullId DEF TypeInv, TypeOK
<1>1. ASSUME UNCHANGED route,
             \A w \in Workers : pc'[w] = "accepted" =>
               pc[w] = "accepted" /\ sending'[w] = sending[w]
      PROVE  Done'
  BY <1>1 DEF Done, InSeen, route
<1>2. ASSUME NEW id \in Ids, Enqueue(id) \/ BecomeDue(id) PROVE Done'
  BY <1>1, <1>2 DEF Enqueue, BecomeDue, work
<1>3. ASSUME NEW id \in Ids, ReceiveStray(id) PROVE Done'
  <2>1. Handle(id) /\ pc' = pc /\ sending' = sending
    BY <1>3 DEF ReceiveStray, work
  <2>2. ASSUME NEW w \in Workers, pc'[w] = "accepted" PROVE performed'[sending'[w]] > 0
    <3>1. sending[w] \in Ids /\ performed[sending[w]] > 0
      BY <2>1, <2>2 DEF Done
    <3> QED BY <2>1, <3>1, HandleDone
  <2>3. ASSUME NEW x \in Ids, InSeen(x)' PROVE performed'[x] > 0
    BY <2>1, <2>3, HandleDone DEF Done
  <2> QED BY <2>2, <2>3 DEF Done
<1>4. ASSUME NEW w \in Workers, Receive(w) PROVE Done'
  <2>1. sending[w] \in Ids /\ Handle(sending[w]) /\ sending' = sending
        /\ pc' = [pc EXCEPT ![w] = "accepted"]
    BY <1>4 DEF Receive, Goto
  <2>2. ASSUME NEW v \in Workers, pc'[v] = "accepted" PROVE performed'[sending'[v]] > 0
    <3>1. CASE v = w
      BY <2>1, <3>1, HandleDone
    <3>2. CASE v # w
      <4>1. sending[v] \in Ids /\ performed[sending[v]] > 0
        BY <2>1, <2>2, <3>2 DEF Done
      <4> QED BY <2>1, <4>1, HandleDone
    <3> QED BY <3>1, <3>2
  <2>3. ASSUME NEW x \in Ids, InSeen(x)' PROVE performed'[x] > 0
    BY <2>1, <2>3, HandleDone DEF Done
  <2> QED BY <2>2, <2>3 DEF Done
<1>5. ASSUME NEW w \in Workers, Claim(w) \/ Send(w) PROVE Done'
  BY <1>1, <1>5 DEF Claim, Send, Goto
<1>6. ASSUME NEW w \in Workers, MarkDelivered(w) \/ RecordFailure(w) PROVE Done'
  BY <1>1, <1>6 DEF MarkDelivered, RecordFailure, Finish, Goto
<1>7. ASSUME NEW w \in Workers,
             FetchFails(w) \/ AnswerLost(w) \/ MarkFails(w) \/ TickEnds(w)
      PROVE  Done'
  BY <1>1, <1>7 DEF FetchFails, AnswerLost, MarkFails, TickEnds, Goto
<1>8. CASE Sweep
  BY <1>1, <1>8 DEF Sweep, work
<1>9. CASE StorefrontRestarts
  <2>1. \A x : ~InSeen(x)'
    BY <1>9 DEF StorefrontRestarts, InSeen
  <2> QED BY <1>9, <2>1 DEF StorefrontRestarts, work, Done
<1>10. CASE UNCHANGED vars
  BY <1>1, <1>10 DEF vars, route
<1> QED
  BY <1>2, <1>3, <1>4, <1>5, <1>6, <1>7, <1>8, <1>9, <1>10 DEF Next, Work

LEMMA PerformedGrows ==
  ASSUME TypeInv, Done, [Next]_vars
  PROVE  \A x \in Ids : performed[x] > 0 => performed'[x] > 0
<1> USE DEF TypeInv, TypeOK
<1>1. ASSUME NEW id \in Ids, ReceiveStray(id)
      PROVE  \A x \in Ids : performed[x] > 0 => performed'[x] > 0
  BY <1>1, HandleDone DEF ReceiveStray
<1>2. ASSUME NEW w \in Workers, Receive(w)
      PROVE  \A x \in Ids : performed[x] > 0 => performed'[x] > 0
  BY <1>2, NullId, HandleDone DEF Receive
<1>3. \/ UNCHANGED performed
      \/ \E id \in Ids : ReceiveStray(id)
      \/ \E w \in Workers : Receive(w)
  BY DEF Next, Work, vars, route, Enqueue, BecomeDue, Claim, Send, MarkDelivered,
         RecordFailure, FetchFails, AnswerLost, MarkFails, TickEnds, Sweep,
         StorefrontRestarts
<1> QED
  BY <1>1, <1>2, <1>3

LEMMA LossKept == TypeInv /\ Done /\ NoSilentLoss /\ [Next]_vars => NoSilentLoss'
<1> SUFFICES ASSUME TypeInv, Done, NoSilentLoss, [Next]_vars,
                    NEW id \in delivered' \ exhausted'
             PROVE  performed'[id] > 0
  BY DEF NoSilentLoss
<1>1. CASE id \in delivered \ exhausted
  BY <1>1, PerformedGrows DEF NoSilentLoss, TypeInv, TypeOK
<1>2. CASE id \notin delivered \ exhausted
  <2>1. PICK w \in Workers : MarkDelivered(w) /\ id = sending[w]
    BY <1>2 DEF Next, Work, vars, table, Enqueue, BecomeDue, ReceiveStray, Claim, Send,
                MarkDelivered, RecordFailure, FetchFails, AnswerLost, Receive,
                MarkFails, TickEnds, Sweep, StorefrontRestarts
  <2>2. performed[id] > 0 /\ UNCHANGED performed
    BY <2>1 DEF Done, MarkDelivered, route
  <2> QED BY <2>2
<1> QED
  BY <1>1, <1>2

\* A webhook that is settled and not flagged exhausted had its pages
\* invalidated: no interleaving of workers, failures, sweeps, restarts of the
\* storefront and evictions from its memory loses one in silence.
THEOREM DeliveryCorrect == Spec => []NoSilentLoss
<1>1. Init => TypeInv /\ Done /\ NoSilentLoss
  BY InitTypes, NullId DEF Init, Done, InSeen, NoSilentLoss
<1>2. TypeInv /\ Done /\ NoSilentLoss /\ [Next]_vars => (TypeInv /\ Done /\ NoSilentLoss)'
  BY Typing, DoneKept, LossKept
<1> QED
  BY <1>1, <1>2, PTL DEF Spec
===============================================================================
