---------------------------- MODULE MCConnections ----------------------------
(* Small instances of Connections: fewer connections than requests. *)
EXTENDS Connections

CONSTANTS q1, q2, q3, k1, k2, t1, t2

TwoRequests   == {q1, q2}
ThreeRequests == {q1, q2, q3}
OneConn       == {k1}
TwoConns      == {k1, k2}
TwoTenants    == {t1, t2}
==============================================================================
