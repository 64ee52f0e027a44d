SPECIFICATION MCSpec
CONSTANTS
  Span = 7
  MsecPerSec = 2
  MaxKeys = 18
  MaxTicks = 7
  TreeEmpty <- Nil
  TreeInsert <- Inserted
  TreeDelete <- Deleted
  TreeIndex <- Index
  TreeLt <- Lt
  TreeKeys <- Keys
  Roles = {r1}
  NoRole = NoRole
  MsgTypes = {"close", "handle_error", "__index", "name"}
  MaxWait = 2
  Afters = {0, 1, 2}
  Pauses = {1, 5}
  Loads <- MCLoads
  MaxBacklog = 2
PROPERTY ImplementsAgenda
INVARIANTS TreeSound TicksMatch TableExact OneSessionPerRole OneAttempt NothingOverdue
CHECK_DEADLOCK FALSE
