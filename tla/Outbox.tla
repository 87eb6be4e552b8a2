-------------------------------- MODULE Outbox --------------------------------
(***************************************************************************)
(* Storefront webhooks: the table audit.webhook_outbox                     *)
(* (packages/shared/security/src/webhook-outbox.repository.ts), the worker *)
(* that every api process runs against it                                  *)
(* (apps/api/src/storefront-webhook.module.ts), and the route of the       *)
(* storefront that receives them (apps/storefront .../revalidate/route.ts).*)
(*                                                                         *)
(* Each method of the repository is one transaction and hence one action.  *)
(* There is no clock: a row whose next_attempt_at was pushed into the      *)
(* future becomes due at any later step.  The visibility timeout of a      *)
(* claim is 2s, a fetch may take 5s and a batch is sent one row after the  *)
(* other, so a row does become due again while its claim is in flight.     *)
(***************************************************************************)
EXTENDS Integers, Sequences, FiniteSets

CONSTANTS Ids,          \* ids of outbox rows
          Workers,      \* api processes
          NoId,
          BatchSize, MaxAttempts, MaxRequeues,
          MaxSeen,      \* MAX_SEEN of the route
          MaxFaults     \* bound: crashes and failed statements of a behaviour

ASSUME OutboxAssumption ==
  /\ IsFiniteSet(Ids) /\ NoId \notin Ids
  /\ BatchSize \in Nat \ {0} /\ MaxAttempts \in Nat \ {0} /\ MaxSeen \in Nat \ {0}
  /\ MaxRequeues \in Nat /\ MaxFaults \in Nat

VARIABLES
  rows,      \* rows of the table, and its columns:
  delivered, \* rows with delivered_at
  exhausted, \* rows with exhausted
  errors,    \* rows with last_error
  due,       \* rows whose next_attempt_at has come
  attempts, requeues,
  claims,    \* claims[w][id]: the attempt w claimed id for and has not settled, or 0
  sending,   \* sending[w]: the row w is delivering, or NoId
  pc,        \* pc[w]: how far tick() of w is
  strays,    \* rows whose POST is still on its way though its sender gave up
  seen,      \* seenDeliveries, oldest first
  performed, \* performed[id]: how often the route invalidated for id
  forgotten, \* performed[id] - 1 that a restart or the bound of seen excuses
  faults     \* faults so far

table == <<rows, delivered, exhausted, errors, due, attempts, requeues>>
work  == <<claims, sending, pc>>
route == <<seen, performed, forgotten>>
vars == <<rows, delivered, exhausted, errors, due, attempts, requeues, claims,
          sending, pc, strays, seen, performed, forgotten, faults>>

NoClaims == [id \in Ids |-> 0]

Init ==
  /\ rows = {} /\ delivered = {} /\ exhausted = {} /\ errors = {} /\ due = {}
  /\ attempts = [id \in Ids |-> 0]
  /\ requeues = [id \in Ids |-> 0]
  /\ claims = [w \in Workers |-> NoClaims]
  /\ sending = [w \in Workers |-> NoId]
  /\ pc = [w \in Workers |-> "idle"]
  /\ strays = {}
  /\ seen = <<>>
  /\ performed = [id \in Ids |-> 0]
  /\ forgotten = [id \in Ids |-> 0]
  /\ faults = 0

-------------------------------------------------------------------------------
(* The table *)

\* enqueue, for an event the dispatcher subscribes to; an event whose enqueue
\* fails is dropped and leaves no trace.
Enqueue(id) ==
  /\ id \notin rows
  /\ rows' = rows \union {id}
  /\ due' = due \union {id}
  /\ UNCHANGED <<delivered, exhausted, errors, attempts, requeues, work, strays,
                 route, faults>>

\* next_attempt_at <= now()
BecomeDue(id) ==
  /\ id \in rows \ due
  /\ due' = due \union {id}
  /\ UNCHANGED <<rows, delivered, exhausted, errors, attempts, requeues, work,
                 strays, route, faults>>

\* What FOR UPDATE ... LIMIT may take of a set of rows.
Batches(ids) ==
  {S \in SUBSET ids : S # {} /\ Cardinality(S) <= BatchSize
                      /\ (S # ids => Cardinality(S) = BatchSize)}

\* tick() with claimDue
Claim(w) ==
  /\ pc[w] = "idle"
  /\ \E S \in Batches(due \ delivered) :
       /\ due' = due \ S
       /\ attempts' = [id \in Ids |-> IF id \in S THEN attempts[id] + 1 ELSE attempts[id]]
       /\ claims' = [claims EXCEPT ![w] =
                      [id \in Ids |-> IF id \in S THEN attempts[id] + 1 ELSE 0]]
  /\ pc' = [pc EXCEPT ![w] = "next"]
  /\ UNCHANGED <<rows, delivered, exhausted, errors, requeues, sending, strays,
                 route, faults>>

\* Mutant of Sweepable: off by one.
SweepableButLast == {id \in exhausted : requeues[id] + 1 < MaxRequeues}

Sweepable == {id \in exhausted : requeues[id] < MaxRequeues}

\* sweepExhausted, by the timer of any process
Sweep ==
  /\ \E S \in Batches(Sweepable) :
       /\ delivered' = delivered \ S
       /\ exhausted' = exhausted \ S
       /\ due' = due \union S
       /\ attempts' = [id \in Ids |-> IF id \in S THEN 0 ELSE attempts[id]]
       /\ requeues' = [id \in Ids |-> IF id \in S THEN requeues[id] + 1 ELSE requeues[id]]
  /\ UNCHANGED <<rows, errors, work, strays, route, faults>>

-------------------------------------------------------------------------------
(* The worker *)

Goto(w, label) == pc' = [pc EXCEPT ![w] = label]

\* The rows come back in no particular order.
Send(w) ==
  /\ pc[w] = "next"
  /\ \E id \in Ids : claims[w][id] > 0 /\ sending' = [sending EXCEPT ![w] = id]
  /\ Goto(w, "posted")
  /\ UNCHANGED <<table, claims, strays, route, faults>>

\* deliver() returned: on to the next row of the batch.
Finish(w) ==
  LET left == [claims[w] EXCEPT ![sending[w]] = 0]
  IN  /\ claims' = [claims EXCEPT ![w] = left]
      /\ sending' = [sending EXCEPT ![w] = NoId]
      /\ Goto(w, IF left = NoClaims THEN "idle" ELSE "next")

MarkDelivered(w) ==
  /\ pc[w] = "accepted"
  /\ delivered' = delivered \union {sending[w]}
  /\ errors' = errors \ {sending[w]}
  /\ Finish(w)
  /\ UNCHANGED <<rows, exhausted, due, attempts, requeues, strays, route, faults>>

GivesUp(w) == claims[w][sending[w]] >= MaxAttempts

\* Mutant of RecordFailure: a row that is given up is not flagged.
RecordFailureUnflagged(w) ==
  /\ pc[w] = "failed"
  /\ errors' = errors \union {sending[w]}
  /\ IF GivesUp(w)
     THEN delivered' = delivered \union {sending[w]} /\ UNCHANGED due
     ELSE due' = due \ {sending[w]} /\ UNCHANGED delivered
  /\ Finish(w)
  /\ UNCHANGED <<rows, exhausted, attempts, requeues, strays, route, faults>>

\* recordFailure: markExhausted or markFailed
RecordFailure(w) ==
  /\ pc[w] = "failed"
  /\ errors' = errors \union {sending[w]}
  /\ IF GivesUp(w)
     THEN /\ delivered' = delivered \union {sending[w]}
          /\ exhausted' = exhausted \union {sending[w]}
          /\ UNCHANGED due
     ELSE /\ due' = due \ {sending[w]}
          /\ UNCHANGED <<delivered, exhausted>>
  /\ Finish(w)
  /\ UNCHANGED <<rows, attempts, requeues, strays, route, faults>>

\* The abort of a fetch does not call the request back.
Abandoned(w) == {strays, strays \union {sending[w]}}

\* No connection, an error status, or no answer within 5s.
FetchFails(w) ==
  /\ pc[w] = "posted"
  /\ strays' \in Abandoned(w)
  /\ Goto(w, "failed")
  /\ UNCHANGED <<table, claims, sending, route, faults>>

\* The route did its work but its answer got lost.
AnswerLost(w) ==
  /\ pc[w] = "accepted"
  /\ Goto(w, "failed")
  /\ UNCHANGED <<table, claims, sending, strays, route, faults>>

\* markDelivered throws inside the try: recordFailure runs.
MarkFails(w) ==
  /\ pc[w] = "accepted" /\ faults < MaxFaults
  /\ faults' = faults + 1
  /\ Goto(w, "failed")
  /\ UNCHANGED <<table, claims, sending, strays, route>>

\* recordFailure throws, which ends the tick, or the process dies and is
\* restarted: the claims of the batch are forgotten.
TickEnds(w) ==
  /\ pc[w] # "idle" /\ faults < MaxFaults
  /\ faults' = faults + 1
  /\ IF pc[w] = "posted" THEN strays' \in Abandoned(w) ELSE strays' = strays
  /\ claims' = [claims EXCEPT ![w] = NoClaims]
  /\ sending' = [sending EXCEPT ![w] = NoId]
  /\ Goto(w, "idle")
  /\ UNCHANGED <<table, route>>

-------------------------------------------------------------------------------
(* The storefront *)

InSeen(id) == \E i \in 1 .. Len(seen) : seen[i] = id

\* Mutant of Handle: an id is remembered without evicting another.
HandleUnbounded(id) ==
  IF InSeen(id)
  THEN UNCHANGED route
  ELSE /\ performed' = [performed EXCEPT ![id] = @ + 1]
       /\ seen' = Append(seen, id)
       /\ UNCHANGED forgotten

\* Mutant of Handle: whether an id is remembered makes no difference.
HandleAlways(id) ==
  /\ performed' = [performed EXCEPT ![id] = @ + 1]
  /\ IF InSeen(id)
     THEN UNCHANGED <<seen, forgotten>>
     ELSE IF Len(seen) < MaxSeen
     THEN seen' = Append(seen, id) /\ UNCHANGED forgotten
     ELSE /\ seen' = Append(Tail(seen), id)
          /\ forgotten' = [forgotten EXCEPT ![Head(seen)] = @ + 1]

\* POST: alreadyHandled, then the invalidation, with no await in between.
Handle(id) ==
  IF InSeen(id)
  THEN UNCHANGED route
  ELSE /\ performed' = [performed EXCEPT ![id] = @ + 1]
       /\ IF Len(seen) < MaxSeen
          THEN seen' = Append(seen, id) /\ UNCHANGED forgotten
          ELSE /\ seen' = Append(Tail(seen), id)
               /\ forgotten' = [forgotten EXCEPT ![Head(seen)] = @ + 1]

Receive(w) ==
  /\ pc[w] = "posted"
  /\ Handle(sending[w])
  /\ Goto(w, "accepted")
  /\ UNCHANGED <<table, claims, sending, strays, faults>>

ReceiveStray(id) ==
  /\ id \in strays
  /\ Handle(id)
  /\ strays' = strays \ {id}
  /\ UNCHANGED <<table, work, faults>>

\* A restart, or another instance answering.
StorefrontRestarts ==
  /\ seen # <<>>
  /\ seen' = <<>>
  /\ forgotten' = [id \in Ids |-> IF InSeen(id) THEN forgotten[id] + 1 ELSE forgotten[id]]
  /\ UNCHANGED <<table, work, strays, performed, faults>>

-------------------------------------------------------------------------------

\* Every await of a tick ends: the fetch within its timeout, the statements.
Work(w) ==
  \/ Claim(w) \/ Send(w) \/ MarkDelivered(w) \/ RecordFailure(w)
  \/ FetchFails(w) \/ AnswerLost(w) \/ Receive(w)

Next ==
  \/ \E id \in Ids : Enqueue(id) \/ BecomeDue(id) \/ ReceiveStray(id)
  \/ \E w \in Workers : Work(w) \/ MarkFails(w) \/ TickEnds(w)
  \/ Sweep
  \/ StorefrontRestarts

Spec == Init /\ [][Next]_vars

\* The timers of the workers keep firing and time passes.
FairSpec ==
  /\ Spec
  /\ \A w \in Workers : WF_vars(Work(w))
  /\ \A id \in Ids : WF_vars(BecomeDue(id))
  /\ WF_vars(Sweep)

-------------------------------------------------------------------------------
(* Properties *)

TypeOK ==
  /\ rows \subseteq Ids /\ errors \subseteq rows /\ due \subseteq rows
  /\ exhausted \subseteq delivered /\ delivered \subseteq rows
  /\ attempts \in [Ids -> Nat] /\ requeues \in [Ids -> 0 .. MaxRequeues]
  /\ claims \in [Workers -> [Ids -> Nat]]
  /\ sending \in [Workers -> Ids \union {NoId}]
  /\ pc \in [Workers -> {"idle", "next", "posted", "accepted", "failed"}]
  /\ \A w \in Workers : sending[w] = NoId <=> pc[w] \in {"idle", "next"}
  /\ strays \subseteq Ids
  /\ seen \in Seq(Ids) /\ Len(seen) <= MaxSeen
  /\ performed \in [Ids -> Nat] /\ forgotten \in [Ids -> Nat]
  /\ faults \in 0 .. MaxFaults

\* No webhook is lost in silence: a row settled as delivered and not flagged
\* exhausted did have its pages invalidated, however many workers, retries,
\* timeouts, sweeps and crashes touched it (delivered_at alone "counts give-ups
\* as successes"; together with exhausted it does not).
NoSilentLoss ==
  \A id \in delivered \ exhausted : performed[id] > 0

\* "At-least-once delivery is the guarantee; this is how the consumer makes it
\* look like exactly-once": the route repeats an invalidation only if it had
\* forgotten the id, and never invalidates for a row that is not recorded.
LooksExactlyOnce ==
  \A id \in Ids :
    /\ performed[id] <= 1 + forgotten[id]
    /\ performed[id] > 0 => id \in rows

\* Whatever the storefront does, the queue comes to rest: every row ends up
\* settled for good, delivered or given up after the last sweep.
QueueDrains ==
  <>[](rows = delivered /\ \A id \in exhausted : requeues[id] = MaxRequeues)
===============================================================================
