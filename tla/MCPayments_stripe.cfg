\* Two payments, under one key or under odd ones, and two refunds, with Stripe and its lost answers.
CONSTANTS
  r1 = r1
  r2 = r2
  r3 = r3
  f1 = f1
  f2 = f2
  u1 = u1
  u2 = u2
  k1 = k1
  o1 = o1
  o2 = o2
  None = None
  EmptyKey = EmptyKey
  Requests = {r1, r2}
  Refunds = {f1, f2}
  Inputs <- Retries
  RefundInputs <- RefundsOfR1
  UseMock = FALSE
  LookupAttempts = 2
  Verdicts <- Words
SPECIFICATION FairSpec
INVARIANTS
  RowsAndEventsAgree
  AnswersAreDurable
  SucceededIsBacked
  AtMostOneChargePerKey
PROPERTIES
  StatusOnlyForward
  EveryTaskEnds
