SPECIFICATION Spec

CONSTANTS
  m1 = m1
  m2 = m2
  m3 = m3
  m4 = m4
  s1 = s1
  s2 = s2
  None = None
  Msgs = {m1, m2, m3, m4}
  Sessions = {s1, s2}
  SessionOf <- TwoSessions
  ChannelOf <- WithSystem
  ContentOf <- CommandAndStop
  QueueMax = 1
  WorkerMax = 2
  SteeringAll = TRUE
  MayShutdown = FALSE

INVARIANTS
  HandledOnce
