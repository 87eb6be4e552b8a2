SPECIFICATION FairSpec
CONSTANTS
  r1 = r1  r2 = r2  r3 = r3  NoReplica = NoReplica
  pricing = pricing  branding = branding
  createPricing = createPricing  addTheme = addTheme  dropTheme = dropTheme
  createBranding = createBranding  enableRls = enableRls
  Replicas <- ThreeReplicas
  Schemas <- TwoSchemas
  FilesOf <- TwoModules
  Orders <- AnyOrder
  Befores <- Deployed
  MaxFaults = 1
INVARIANTS
  TypeOK
  LedgerFaithful
  ServesMigrated
  QueueNotCollide
PROPERTY
  ReplicasServe
CHECK_DEADLOCK FALSE
