SPECIFICATION TotalsSpec
CONSTANTS
  LineSeqs <- MCLines
  CandidateSeqs <- MCCandidates
  Coupons = {"save", "other"}
  TaxRates = {0, 50, 875, 5000, 10000}
  NoCode = NoCode
  NoCap = NoCap
INVARIANTS
  BestSingle
  ReceiptAddsUp
CHECK_DEADLOCK FALSE
