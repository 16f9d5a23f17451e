SPECIFICATION Spec

CONSTANTS
  m1 = m1
  m2 = m2
  m3 = m3
  m4 = m4
  s1 = s1
  s2 = s2
  None = None
  Msgs = {m1, m2, m3}
  Sessions = {s1}
  SessionOf <- OneSession
  ChannelOf <- AllOther
  ContentOf <- AllChat
  QueueMax = 2
  WorkerMax = 2
  SteeringAll = FALSE
  MayShutdown = FALSE

INVARIANTS
  OneTurnPerSession
