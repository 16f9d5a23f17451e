SPECIFICATION Spec
SYMMETRY SymCallers

CONSTANTS
  c1 = c1
  c2 = c2
  Callers = {c1, c2}
  Keys = {1, 2}
  Shards = {1, 2}
  ShardOf <- OwnShard
  AliasesOf <- LegacyKey
  OpsOf <- LegacyAppended
  Keeps = {1, 2}
  MsgMax = 2
  FaultMax = 2
  CrashMax = 1
  Corrupt = Corrupt
  None = None

INVARIANTS
  SessionsExclusive
  NothingLost
  NothingReturns
  NoLockLeaked

PROPERTIES
  TruncateExact

