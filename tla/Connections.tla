------------------------------ MODULE Connections ------------------------------
(***************************************************************************)
(* A connection per request: TenantBindingMiddleware reserves one from the *)
(* pool, pins app.tenant_id on it (packages/shared/database/src/           *)
(* tenant-binding.ts), lets the handler run and gives the connection back  *)
(* when the response closes.                                               *)
(*                                                                         *)
(* Middleware and handler are two strands of one request: mw[r] and hd[r]. *)
(* A response closes when it was sent, and as well when the client goes    *)
(* away, which does not stop the handler; and since the handler reaches    *)
(* its connection through the binding, it goes on using it.  A client that *)
(* goes away before the middleware listens is not noticed: an event that   *)
(* was emitted is not emitted again.                                       *)
(*                                                                         *)
(* Statements on one connection run in the order in which they are sent.   *)
(* setting[c] is app.tenant_id of the session; a ROLLBACK takes back what  *)
(* was set since BEGIN.                                                    *)
(***************************************************************************)
EXTENDS Naturals, FiniteSets

CONSTANTS Requests, NoRequest,
          Conns, NoConn,   \* the pool (max)
          Tenants, NoTenant,
          MaxStatements,   \* bound: statements of a handler
          MaxFaults        \* bound: statements of the middleware that fail

ASSUME ConnectionsAssumption ==
  /\ NoRequest \notin Requests /\ NoConn \notin Conns /\ NoTenant \notin Tenants
  /\ MaxStatements \in Nat /\ MaxFaults \in Nat

VARIABLES
  mw,       \* mw[r]: what the middleware of r does next
  hd,       \* hd[r]: what the handler of r does next
  response, \* response[r]: "open", or how it closed
  tenant,   \* tenant[r]: the tenant in the header of r
  conn,     \* conn[r]: the connection in the binding of r
  left,     \* left[r]: statements its handler has left
  owner,    \* owner[c]: the request that has reserved c, or NoRequest
  setting,  \* setting[c]: app.tenant_id, or NoTenant
  txn,      \* txn[c]: whose transaction is open on c, or NoRequest
  before,   \* before[c]: the setting when that transaction began
  faults,   \* faults so far
  deaf,     \* history: requests that closed before the middleware listened
  tainted,  \* history: connections given back under a handler, or not reset
  misran    \* history: requests with a statement under another tenant's setting

requests == <<mw, hd, response, tenant, conn, left>>
session  == <<setting, txn, before>>
history  == <<deaf, tainted, misran>>
vars == <<mw, hd, response, tenant, conn, left, owner, setting, txn, before,
          faults, deaf, tainted, misran>>

Holding == {"set", "bound", "reset", "release"}
Running == {"running", "inTx", "failing"}

Init ==
  /\ mw = [r \in Requests |-> "idle"]
  /\ hd = [r \in Requests |-> "idle"]
  /\ response = [r \in Requests |-> "none"]
  /\ tenant = [r \in Requests |-> NoTenant]
  /\ conn = [r \in Requests |-> NoConn]
  /\ left = [r \in Requests |-> MaxStatements]
  /\ owner = [c \in Conns |-> NoRequest]
  /\ setting = [c \in Conns |-> NoTenant]
  /\ txn = [c \in Conns |-> NoRequest]
  /\ before = [c \in Conns |-> NoTenant]
  /\ faults = 0
  /\ deaf = {} /\ tainted = {} /\ misran = {}

Mw(r, label) == mw' = [mw EXCEPT ![r] = label]
Hd(r, label) == hd' = [hd EXCEPT ![r] = label]

Fault == faults < MaxFaults /\ faults' = faults + 1

-------------------------------------------------------------------------------
(* The client *)

Arrive(r, t) ==
  /\ mw[r] = "idle"
  /\ Mw(r, "reserve")
  /\ response' = [response EXCEPT ![r] = "open"]
  /\ tenant' = [tenant EXCEPT ![r] = t]
  /\ UNCHANGED <<hd, conn, left, owner, session, faults, history>>

GoAway(r) ==
  /\ response[r] = "open"
  /\ response' = [response EXCEPT ![r] = "gone"]
  /\ UNCHANGED <<mw, hd, tenant, conn, left, owner, session, faults, history>>

-------------------------------------------------------------------------------
(* withTenantConnection and the middleware *)

\* Mutant of Reserve: the binding is not given the connection.
ReserveUnbound(r, c) ==
  /\ mw[r] = "reserve"
  /\ owner[c] = NoRequest
  /\ owner' = [owner EXCEPT ![c] = r]
  /\ Mw(r, "set")
  /\ UNCHANGED <<hd, response, tenant, conn, left, session, faults, history>>

\* sql.reserve(), which waits for a free connection
Reserve(r, c) ==
  /\ mw[r] = "reserve"
  /\ owner[c] = NoRequest
  /\ owner' = [owner EXCEPT ![c] = r]
  /\ conn' = [conn EXCEPT ![r] = c]
  /\ Mw(r, "set")
  /\ UNCHANGED <<hd, response, tenant, left, session, faults, history>>

\* Mutant of SetTenant: set_config with is_local.
SetTenantLocally(r) ==
  /\ mw[r] = "set"
  /\ Mw(r, "bound") /\ Hd(r, "running")
  /\ deaf' = IF response[r] = "open" THEN deaf ELSE deaf \union {r}
  /\ UNCHANGED <<response, tenant, conn, left, owner, session, faults, tainted, misran>>

\* set_config, the listeners on the response, next()
SetTenant(r) ==
  /\ mw[r] = "set"
  /\ setting' = [setting EXCEPT ![conn[r]] = tenant[r]]
  /\ Mw(r, "bound") /\ Hd(r, "running")
  /\ deaf' = IF response[r] = "open" THEN deaf ELSE deaf \union {r}
  /\ UNCHANGED <<response, tenant, conn, left, owner, txn, before, faults, tainted,
                 misran>>

\* The error is swallowed by the middleware: next() is not called.
ReserveFails(r) ==
  /\ Fault
  /\ mw[r] = "reserve"
  /\ Mw(r, "over")
  /\ UNCHANGED <<hd, response, tenant, conn, left, owner, session, history>>

SetFails(r) ==
  /\ Fault
  /\ mw[r] = "set"
  /\ Mw(r, "reset")
  /\ UNCHANGED <<hd, response, tenant, conn, left, owner, session, history>>

\* Mutant of Close: no finally around RESET.
CloseWithoutReset(r) ==
  /\ mw[r] = "bound"
  /\ response[r] # "open" /\ r \notin deaf
  /\ Mw(r, "release")
  /\ UNCHANGED <<hd, response, tenant, conn, left, owner, session, faults, history>>

\* 'close' or 'error' reaches the listener.
Close(r) ==
  /\ mw[r] = "bound"
  /\ response[r] # "open" /\ r \notin deaf
  /\ Mw(r, "reset")
  /\ UNCHANGED <<hd, response, tenant, conn, left, owner, session, faults, history>>

\* RESET "app.tenant_id"
Reset(r) ==
  /\ mw[r] = "reset"
  /\ setting' = [setting EXCEPT ![conn[r]] = NoTenant]
  /\ tainted' = IF hd[r] \in Running THEN tainted \union {conn[r]} ELSE tainted
  /\ Mw(r, "release")
  /\ UNCHANGED <<hd, response, tenant, conn, left, owner, txn, before, faults, deaf,
                 misran>>

\* A RESET that fails is swallowed.
ResetFails(r) ==
  /\ Fault
  /\ mw[r] = "reset"
  /\ tainted' = tainted \union {conn[r]}
  /\ Mw(r, "release")
  /\ UNCHANGED <<hd, response, tenant, conn, left, owner, session, deaf, misran>>

\* Mutant of Release: left out.
ReleaseNothing(r) ==
  /\ mw[r] = "release"
  /\ Mw(r, "over")
  /\ UNCHANGED <<hd, response, tenant, conn, left, owner, session, faults, history>>

\* reserved.release()
Release(r) ==
  /\ mw[r] = "release"
  /\ owner' = [owner EXCEPT ![conn[r]] = NoRequest]
  /\ Mw(r, "over")
  /\ UNCHANGED <<hd, response, tenant, conn, left, session, faults, history>>

-------------------------------------------------------------------------------
(* The handler, through the binding *)

\* A statement runs under the setting of its session.
Runs(r) ==
  /\ left[r] > 0
  /\ left' = [left EXCEPT ![r] = @ - 1]
  /\ misran' = IF setting[conn[r]] = tenant[r] THEN misran ELSE misran \union {r}

Statement(r) ==
  /\ hd[r] = "running"
  /\ Runs(r)
  /\ UNCHANGED <<mw, hd, response, tenant, conn, owner, session, faults, deaf, tainted>>

\* BEGIN; inside a transaction of another request it does nothing.
Begin(r) ==
  LET c == conn[r]
  IN  /\ hd[r] = "running" /\ left[r] > 0
      /\ Hd(r, "inTx")
      /\ left' = [left EXCEPT ![r] = @ - 1]
      /\ IF txn[c] = NoRequest
         THEN /\ txn' = [txn EXCEPT ![c] = r]
              /\ before' = [before EXCEPT ![c] = setting[c]]
         ELSE UNCHANGED <<txn, before>>
      /\ UNCHANGED <<mw, response, tenant, conn, owner, setting, faults, history>>

\* Row level security refuses what is written under another tenant's setting;
\* statements fail for reasons of their own too.
TxStatement(r) ==
  /\ hd[r] = "inTx"
  /\ Runs(r)
  /\ \/ setting[conn[r]] = tenant[r] /\ UNCHANGED hd
     \/ Hd(r, "failing")
  /\ UNCHANGED <<mw, response, tenant, conn, owner, session, faults, deaf, tainted>>

Commit(r) ==
  /\ hd[r] = "inTx"
  /\ Hd(r, "running")
  /\ txn' = [txn EXCEPT ![conn[r]] = NoRequest]
  /\ UNCHANGED <<mw, response, tenant, conn, left, owner, setting, before, faults,
                 history>>

\* ROLLBACK, or nothing when no transaction is open any more.
Rollback(r) ==
  LET c == conn[r]
  IN  /\ hd[r] = "failing"
      /\ Hd(r, "running")
      /\ IF txn[c] # NoRequest
         THEN /\ setting' = [setting EXCEPT ![c] = before[c]]
              /\ txn' = [txn EXCEPT ![c] = NoRequest]
         ELSE UNCHANGED <<setting, txn>>
      /\ UNCHANGED <<mw, response, tenant, conn, left, owner, before, faults, history>>

\* The handler returns or throws, and the response is sent if anyone waits for it.
Respond(r) ==
  /\ hd[r] = "running"
  /\ Hd(r, "done")
  /\ response' = [response EXCEPT ![r] = IF @ = "open" THEN "sent" ELSE @]
  /\ UNCHANGED <<mw, tenant, conn, left, owner, session, faults, history>>

-------------------------------------------------------------------------------

Middleware(r) ==
  \/ \E c \in Conns : Reserve(r, c)
  \/ SetTenant(r) \/ Close(r) \/ Reset(r) \/ Release(r)

Handler(r) ==
  \/ Statement(r) \/ Begin(r) \/ TxStatement(r) \/ Commit(r) \/ Rollback(r) \/ Respond(r)

Next ==
  \E r \in Requests :
    \/ \E t \in Tenants : Arrive(r, t)
    \/ GoAway(r)
    \/ Middleware(r) \/ ReserveFails(r) \/ SetFails(r) \/ ResetFails(r)
    \/ Handler(r)

Spec == Init /\ [][Next]_vars

\* Statements end, handlers come to an end, events reach their listeners.
FairSpec ==
  Spec /\ \A r \in Requests : WF_vars(Middleware(r)) /\ WF_vars(Handler(r))

-------------------------------------------------------------------------------
(* Properties *)

TypeOK ==
  /\ mw \in [Requests -> Holding \union {"idle", "reserve", "over"}]
  /\ hd \in [Requests -> Running \union {"idle", "done"}]
  /\ response \in [Requests -> {"none", "open", "sent", "gone"}]
  /\ tenant \in [Requests -> Tenants \union {NoTenant}]
  /\ conn \in [Requests -> Conns \union {NoConn}]
  /\ left \in [Requests -> Nat]
  /\ owner \in [Conns -> Requests \union {NoRequest}]
  /\ setting \in [Conns -> Tenants \union {NoTenant}]
  /\ txn \in [Conns -> Requests \union {NoRequest}]
  /\ before \in [Conns -> Tenants \union {NoTenant}]
  /\ faults \in 0 .. MaxFaults
  /\ deaf \subseteq Requests /\ tainted \subseteq Conns /\ misran \subseteq Requests
  /\ \A r \in Requests : mw[r] \in Holding => conn[r] \in Conns /\ tenant[r] \in Tenants

\* "every query on this connection inherits the tenant": what a handler runs, in a
\* transaction or not, runs under the tenant of its request, unless its connection
\* was once given back under a running handler or without a RESET.
UnderOwnTenant == \A r \in misran : conn[r] \in tainted

\* A connection changes hands without a trace: in the pool it has no tenant and no
\* open transaction, and a transaction is that of the request that holds it.
CleanHandover ==
  \A c \in Conns \ tainted :
    /\ txn[c] \in {NoRequest, owner[c]}
    /\ owner[c] = NoRequest => setting[c] = NoTenant

\* Who waits is served although there are more requests than connections, unless
\* a connection was lost or the database failed the middleware.
Served ==
  \A r \in Requests :
    response[r] = "open" ~> response[r] # "open" \/ deaf # {} \/ faults > 0

===============================================================================
