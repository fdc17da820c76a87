SPECIFICATION FairSpec
CONSTANTS
  Proposals = {p1, p2}
  Creates = {p2}
  Execs = {e1, e2}
  MaxRev = 2
  MaxFaults = 2
  MaxRestarts = 2
  None = None
INVARIANTS TypeOK RecoveryNeverWedges AuditIsOrdered AtMostOneWrite CancelIsHonest ReceiptIsHonest
PROPERTIES SettledIsFinal ApprovedIsReported RefinesPromise
CHECK_DEADLOCK FALSE
