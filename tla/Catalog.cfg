CONSTANTS
  t1 = t1
  t2 = t2
  bulk = bulk
  viaApi = viaApi
  other = other
  c1 = c1
  Tenants = {t1, t2}
  Skus = {bulk, viaApi, other}
  Codes = {c1}
  Ids <- MCIds
  Drawn <- MCDrawn
  Requests = {r1, r2}
  Cap = 1
  Unsaid = Unsaid
  NoRow = NoRow
  Starts <- MCStarts
  MaxActs = 2
  Fixtures <- MCFixtures
  Bulk = bulk
  ViaApi = viaApi
  Uuid <- MCUuid
  Attributes <- MCAttributes
  AdminOps <- MCAdminOps
  Nobody = Nobody
SYMMETRY MCSymmetry
SPECIFICATION Spec
INVARIANTS
  TypeOK
  OneProductPerSku
  ListingComplete
  SeedAgrees
CHECK_DEADLOCK FALSE
