SPECIFICATION WfSpec
CONSTANTS
  Requests = {r1, r2}
  MaxPlans = 3
CHECK_DEADLOCK FALSE
INVARIANTS
  WfTypeOK
  ContactIsAudited
  RefusalIsAudited
  AuditStopsAtFailure
  StoredAfterAudit
  PublishedAgrees
