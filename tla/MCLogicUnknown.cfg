SPECIFICATION MCSpec
CONSTANTS
  Span = 7
  MsecPerSec = 2
  MaxKeys = 0
  MaxTicks = 7
  TreeEmpty <- Nil
  TreeInsert <- Inserted
  TreeDelete <- Deleted
  TreeIndex <- Index
  TreeLt <- Lt
  TreeKeys <- Keys
  Roles = {r1}
  NoRole = NoRole
  MsgTypes = {"handle_accept"}
  MaxWait = 2
  Afters = {0, 1, 2}
  Pauses = {1, 5}
  Loads <- MCUnknown
  MaxBacklog = 2
PROPERTY UnknownRefused
CHECK_DEADLOCK FALSE
