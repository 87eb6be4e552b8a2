-------------------------- MODULE ConnectionsProofs --------------------------
(***************************************************************************)
(* Theorems about Connections, for any number of requests, connections,    *)
(* tenants, statements and faults.                                         *)
(***************************************************************************)
EXTENDS Connections, TLAPS

\* A connection is held by the one request whose binding it is in.
Owned ==
  \A r \in Requests :
    /\ mw[r] \in Holding => owner[conn[r]] = r
    /\ \A c \in Conns : owner[c] = r => conn[r] = c /\ mw[r] \in Holding

\* A handler starts after its connection was bound, and runs on a connection that
\* is still held, unless it was given back under the handler.
Started ==
  \A r \in Requests :
    /\ mw[r] \in {"idle", "reserve", "set"} => hd[r] = "idle"
    /\ mw[r] # "idle" => tenant[r] \in Tenants
    /\ hd[r] # "idle" => conn[r] \in Conns /\ tenant[r] \in Tenants
    /\ r \in misran => hd[r] # "idle"
    /\ hd[r] \in Running => mw[r] \in {"bound", "reset"} \/ conn[r] \in tainted

\* While its handler runs a connection is pinned to the tenant.
Pinned ==
  \A r \in Requests :
    hd[r] \in Running /\ conn[r] \notin tainted => setting[conn[r]] = tenant[r]

\* An open transaction is the holder's, and a ROLLBACK would keep the setting.
HoldersTransaction ==
  \A c \in Conns \ tainted : txn[c] # NoRequest =>
    txn[c] = owner[c] /\ hd[txn[c]] \in {"inTx", "failing"} /\ before[c] = tenant[txn[c]]

\* What is in the pool, or about to be, has no tenant.
Unset ==
  /\ \A c \in Conns \ tainted : owner[c] = NoRequest => setting[c] = NoTenant
  /\ \A r \in Requests :
       mw[r] = "release" /\ conn[r] \notin tainted => setting[conn[r]] = NoTenant

IInv ==
  /\ TypeOK
  /\ Owned
  /\ Started
  /\ Pinned
  /\ HoldersTransaction
  /\ Unset
  /\ UnderOwnTenant

-------------------------------------------------------------------------------
(* The initial state *)

LEMMA InitIInv == Init => IInv
BY ConnectionsAssumption DEF Init, IInv, TypeOK, Owned, Started, Pinned, HoldersTransaction,
   Unset, UnderOwnTenant, Holding, Running

-------------------------------------------------------------------------------
(* The steps, one lemma for each part of the invariant *)

Step(r) ==
  \/ \E t \in Tenants : Arrive(r, t)
  \/ GoAway(r)
  \/ Middleware(r) \/ ReserveFails(r) \/ SetFails(r) \/ ResetFails(r)
  \/ Handler(r)

\* Every action keeps the types.
LEMMA TypeOKStep == ASSUME IInv, NEW r \in Requests, Step(r) PROVE TypeOK'
<1> USE ConnectionsAssumption DEF IInv, TypeOK, Started, Holding, Running,
      session, history
<1>1. CASE (\E t \in Tenants : Arrive(r, t)) \/ GoAway(r)
  BY <1>1 DEF Arrive, GoAway, Mw
<1>2. CASE \E c \in Conns : Reserve(r, c)
  BY <1>2 DEF Reserve, Mw
<1>3. CASE SetTenant(r)
  BY <1>3 DEF SetTenant, Mw, Hd
<1>4. CASE ReserveFails(r) \/ SetFails(r) \/ ResetFails(r)
  BY <1>4 DEF ReserveFails, SetFails, ResetFails, Mw, Fault
<1>5. CASE Close(r) \/ Reset(r) \/ Release(r)
  BY <1>5 DEF Close, Reset, Release, Mw
<1>6. CASE Statement(r) \/ TxStatement(r)
  BY <1>6 DEF Statement, TxStatement, Runs, Hd
<1>7. CASE Begin(r) \/ Commit(r) \/ Rollback(r)
  BY <1>7 DEF Begin, Commit, Rollback, Hd
<1>8. CASE Respond(r)
  BY <1>8 DEF Respond, Hd
<1>9. QED
  BY <1>1, <1>2, <1>3, <1>4, <1>5, <1>6, <1>7, <1>8 DEF Step, Middleware, Handler

\* Only Reserve and Release change who holds a connection.
LEMMA OwnedStep == ASSUME IInv, NEW r \in Requests, Step(r) PROVE Owned'
<1> USE ConnectionsAssumption DEF IInv, TypeOK, Owned, Holding, Running, session,
      history
<1>1. CASE \E c \in Conns : Reserve(r, c)
  BY <1>1 DEF Reserve, Mw
<1>2. CASE Release(r)
  BY <1>2 DEF Release, Mw
<1>3. CASE (\E t \in Tenants : Arrive(r, t)) \/ GoAway(r) \/ SetTenant(r)
       \/ ReserveFails(r) \/ SetFails(r) \/ Close(r) \/ Reset(r) \/ ResetFails(r)
  BY <1>3 DEF Arrive, GoAway, SetTenant, ReserveFails, SetFails, Close, Reset,
     ResetFails, Mw, Hd, Fault
<1>4. CASE Statement(r) \/ Begin(r) \/ TxStatement(r) \/ Commit(r) \/ Rollback(r)
       \/ Respond(r)
  BY <1>4 DEF Statement, Begin, TxStatement, Commit, Rollback, Respond, Runs, Hd
<1>5. QED
  BY <1>1, <1>2, <1>3, <1>4 DEF Step, Middleware, Handler

\* A handler starts when the connection is set; a connection given back under it is
\* tainted.
LEMMA StartedStep == ASSUME IInv, NEW r \in Requests, Step(r) PROVE Started'
<1> USE ConnectionsAssumption DEF IInv, TypeOK, Started, Holding, Running,
      session, history
<1>1. CASE (\E t \in Tenants : Arrive(r, t)) \/ GoAway(r)
  BY <1>1 DEF Arrive, GoAway, Mw
<1>2. CASE \E c \in Conns : Reserve(r, c)
  BY <1>2 DEF Reserve, Mw
<1>3. CASE SetTenant(r)
  BY <1>3 DEF SetTenant, Mw, Hd
<1>4. CASE ReserveFails(r) \/ SetFails(r)
  BY <1>4 DEF ReserveFails, SetFails, Mw, Fault
<1>5. CASE Close(r)
  BY <1>5 DEF Close, Mw
<1>6. CASE Reset(r) \/ ResetFails(r)
  BY <1>6 DEF Reset, ResetFails, Mw, Fault
<1>7. CASE Release(r)
  BY <1>7 DEF Release, Mw
<1>8. CASE Statement(r) \/ Begin(r) \/ TxStatement(r) \/ Commit(r) \/ Rollback(r)
       \/ Respond(r)
  BY <1>8 DEF Statement, Begin, TxStatement, Commit, Rollback, Respond, Runs, Hd
<1>9. QED
  BY <1>1, <1>2, <1>3, <1>4, <1>5, <1>6, <1>7, <1>8 DEF Step, Middleware, Handler

\* The setting under a running handler changes with a ROLLBACK, to what it is.
LEMMA PinnedStep == ASSUME IInv, NEW r \in Requests, Step(r) PROVE Pinned'
<1> USE ConnectionsAssumption DEF IInv, TypeOK, Owned, Started, Pinned,
      HoldersTransaction, Holding, Running, session, history
<1>1. CASE (\E t \in Tenants : Arrive(r, t)) \/ GoAway(r) \/ ReserveFails(r)
       \/ SetFails(r) \/ Close(r)
  BY <1>1 DEF Arrive, GoAway, ReserveFails, SetFails, Close, Mw, Fault
<1>2. CASE \E c \in Conns : Reserve(r, c)
  BY <1>2 DEF Reserve, Mw
<1>3. CASE SetTenant(r)
  BY <1>3 DEF SetTenant, Mw, Hd
<1>4. CASE Reset(r) \/ ResetFails(r)
  BY <1>4 DEF Reset, ResetFails, Mw, Fault
<1>5. CASE Release(r)
  BY <1>5 DEF Release, Mw
<1>6. CASE Statement(r) \/ TxStatement(r)
  BY <1>6 DEF Statement, TxStatement, Runs, Hd
<1>7. CASE Begin(r) \/ Commit(r) \/ Respond(r)
  BY <1>7 DEF Begin, Commit, Respond, Hd
<1>8. CASE Rollback(r)
  BY <1>8 DEF Rollback, Hd
<1>9. QED
  BY <1>1, <1>2, <1>3, <1>4, <1>5, <1>6, <1>7, <1>8 DEF Step, Middleware, Handler

\* A transaction is opened by the holder of its connection, and is over before the
\* connection is given back.
LEMMA HoldersTransactionStep ==
  ASSUME IInv, NEW r \in Requests, Step(r) PROVE HoldersTransaction'
<1> USE ConnectionsAssumption DEF IInv, TypeOK, Owned, Started, Pinned,
      HoldersTransaction, Holding, Running, session, history
<1>1. CASE (\E t \in Tenants : Arrive(r, t)) \/ GoAway(r) \/ ReserveFails(r)
       \/ SetFails(r) \/ Close(r)
  BY <1>1 DEF Arrive, GoAway, ReserveFails, SetFails, Close, Mw, Fault
<1>2. CASE \E c \in Conns : Reserve(r, c)
  BY <1>2 DEF Reserve, Mw
<1>3. CASE SetTenant(r)
  BY <1>3 DEF SetTenant, Mw, Hd
<1>4. CASE Reset(r) \/ ResetFails(r)
  BY <1>4 DEF Reset, ResetFails, Mw, Fault
<1>5. CASE Release(r)
  BY <1>5 DEF Release, Mw
<1>6. CASE Statement(r) \/ TxStatement(r)
  BY <1>6 DEF Statement, TxStatement, Runs, Hd
<1>7. CASE Begin(r)
  BY <1>7 DEF Begin, Hd
<1>8. CASE Commit(r) \/ Rollback(r)
  BY <1>8 DEF Commit, Rollback, Hd
<1>9. CASE Respond(r)
  BY <1>9 DEF Respond, Hd
<1>10. QED
  BY <1>1, <1>2, <1>3, <1>4, <1>5, <1>6, <1>7, <1>8, <1>9 DEF Step, Middleware, Handler

\* RESET comes before release, and nobody sets the tenant of what is in the pool.
LEMMA UnsetStep == ASSUME IInv, NEW r \in Requests, Step(r) PROVE Unset'
<1> USE ConnectionsAssumption DEF IInv, TypeOK, Owned, Started, Unset, Holding,
      Running, session, history
<1>1. CASE (\E t \in Tenants : Arrive(r, t)) \/ GoAway(r) \/ ReserveFails(r)
       \/ SetFails(r) \/ Close(r)
  BY <1>1 DEF Arrive, GoAway, ReserveFails, SetFails, Close, Mw, Fault
<1>2. CASE \E c \in Conns : Reserve(r, c)
  BY <1>2 DEF Reserve, Mw
<1>3. CASE SetTenant(r)
  BY <1>3 DEF SetTenant, Mw, Hd
<1>4. CASE Reset(r)
  BY <1>4 DEF Reset, Mw
<1>5. CASE ResetFails(r)
  BY <1>5 DEF ResetFails, Mw, Fault
<1>6. CASE Release(r)
  BY <1>6 DEF Release, Mw
<1>7. CASE Statement(r) \/ Begin(r) \/ TxStatement(r) \/ Commit(r) \/ Respond(r)
  BY <1>7 DEF Statement, Begin, TxStatement, Commit, Respond, Runs, Hd
<1>8. CASE Rollback(r)
  BY <1>8 DEF Rollback, Hd
<1>9. QED
  BY <1>1, <1>2, <1>3, <1>4, <1>5, <1>6, <1>7, <1>8 DEF Step, Middleware, Handler

\* A statement runs under the setting that is pinned.
LEMMA UnderOwnTenantStep == ASSUME IInv, NEW r \in Requests, Step(r) PROVE UnderOwnTenant'
<1> USE ConnectionsAssumption DEF IInv, TypeOK, Started, Pinned, UnderOwnTenant,
      Holding, Running, session, history
<1>1. CASE (\E t \in Tenants : Arrive(r, t)) \/ GoAway(r) \/ SetTenant(r)
       \/ ReserveFails(r) \/ SetFails(r) \/ Close(r)
  BY <1>1 DEF Arrive, GoAway, SetTenant, ReserveFails, SetFails, Close, Mw, Hd,
     Fault
<1>2. CASE \E c \in Conns : Reserve(r, c)
  BY <1>2 DEF Reserve, Mw
<1>3. CASE Reset(r) \/ ResetFails(r) \/ Release(r)
  BY <1>3 DEF Reset, ResetFails, Release, Mw, Fault
<1>4. CASE Statement(r) \/ TxStatement(r)
  BY <1>4 DEF Statement, TxStatement, Runs, Hd
<1>5. CASE Begin(r) \/ Commit(r) \/ Rollback(r) \/ Respond(r)
  BY <1>5 DEF Begin, Commit, Rollback, Respond, Hd
<1>6. QED
  BY <1>1, <1>2, <1>3, <1>4, <1>5 DEF Step, Middleware, Handler

LEMMA NextIInv == IInv /\ [Next]_vars => IInv'
<1> SUFFICES ASSUME IInv, [Next]_vars PROVE IInv'
  OBVIOUS
<1>1. CASE Next
  <2>1. PICK r \in Requests : Step(r)
    BY <1>1 DEF Next, Step
  <2>2. QED
    BY <2>1, TypeOKStep, OwnedStep, StartedStep, PinnedStep, HoldersTransactionStep,
       UnsetStep, UnderOwnTenantStep DEF IInv
<1>2. CASE UNCHANGED vars
  BY <1>2 DEF vars, IInv, TypeOK, Owned, Started, Pinned, HoldersTransaction, Unset,
              UnderOwnTenant
<1>3. QED
  BY <1>1, <1>2

LEMMA Invariant == Spec => []IInv
BY InitIInv, NextIInv, PTL DEF Spec

-------------------------------------------------------------------------------
(* Theorems *)

\* Every variable keeps its type.
THEOREM TypeCorrect == Spec => []TypeOK
<1>1. IInv => TypeOK
  BY DEF IInv
<1>2. QED
  BY <1>1, Invariant, PTL

\* What a handler runs, it runs under the tenant of its request, unless its
\* connection was once given back under a handler or without a RESET.
THEOREM TenantCorrect == Spec => []UnderOwnTenant
<1>1. IInv => UnderOwnTenant
  BY DEF IInv
<1>2. QED
  BY <1>1, Invariant, PTL

\* A connection changes hands without a tenant and without a transaction.
THEOREM HandoverCorrect == Spec => []CleanHandover
<1>1. IInv => CleanHandover
  BY DEF IInv, HoldersTransaction, Unset, CleanHandover
<1>2. QED
  BY <1>1, Invariant, PTL
===============================================================================
