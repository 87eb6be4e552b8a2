SPECIFICATION FairSpec
CONSTANTS
  q1 = q1  q2 = q2  q3 = q3  k1 = k1  k2 = k2  t1 = t1  t2 = t2
  NoRequest = NoRequest  NoConn = NoConn  NoTenant = NoTenant
  Requests <- TwoRequests
  Conns <- OneConn
  Tenants <- TwoTenants
  MaxStatements = 2
  MaxFaults = 1
INVARIANTS
  TypeOK
  UnderOwnTenant
  CleanHandover
PROPERTIES
  Served
CHECK_DEADLOCK FALSE
