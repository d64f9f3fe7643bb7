SPECIFICATION Spec
CONSTANTS
  Requests = {r1, r2, r3}
  Accounts <- TwoAccounts
  FirstRow <- TheirRows
  Emails <- Mails
  Jobs <- ChosenJobs
  Lifetime = 3
  Window = 1
  Patience = 1
  Horizon = 4
  None = None
  Keep = Keep
  admin = admin
  customer = customer
  adminMail = adminMail
  customerMail = customerMail
  newMail = newMail
SYMMETRY Alike
INVARIANT TypeOK
PROPERTIES ColumnsAsAsked AuthorityExpires
\* Nothing happens once every request is answered and the clock is at its bound.
CHECK_DEADLOCK FALSE
