\* Retries and shared keys, with the mock provider.
CONSTANTS
  r1 = r1
  r2 = r2
  r3 = r3
  f1 = f1
  f2 = f2
  u1 = u1
  u2 = u2
  k1 = k1
  o1 = o1
  o2 = o2
  None = None
  EmptyKey = EmptyKey
  Requests = {r1, r2, r3}
  Refunds = {}
  Inputs <- TwoUsers
  RefundInputs <- NoRefunds
  UseMock = TRUE
  LookupAttempts = 2
  Verdicts <- FraudAnswers
SPECIFICATION Spec
SYMMETRY RequestSymmetry
INVARIANTS
  TypeOK
  SafeFraudFallback
  AnnouncedAfterCommit
  SameKeySamePayment
  RaceLoserIsAnswered
