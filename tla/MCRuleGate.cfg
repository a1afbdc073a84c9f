CONSTANTS
  Proc = {p1, p2}
  Rule = {old, new}
  Unsafe = {old}
  Blocking = {new}
  Imported = {old}
  Entity = {e1}
  NoEntity = NoEntity
  MaxActiveRules = 1
  MaxReceipts = 2
  MaxFaults = 1
SPECIFICATION FairSpec
INVARIANTS OneReceiptPerChange
PROPERTIES NothingHeldIsAllowed ReceiptsReachAudit
CHECK_DEADLOCK FALSE
