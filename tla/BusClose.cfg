SPECIFICATION FairSpec

CONSTANTS
  m1 = m1
  m2 = m2
  m3 = m3
  a1 = a1
  a2 = a2
  inbound = inbound
  audio = audio
  gateway = gateway
  deferred = deferred
  Messages <- AllMessages
  Streams <- AllStreams
  StreamOf <- StreamOfAll
  Lossy <- LossyStreams
  Closers <- AllClosers
  Cap = 1

INVARIANTS
  NoSendOnClosed
  CloseIsComplete

PROPERTIES
  CloseReturns
  ImplementsStreams

\* The run ends when every call has returned.
CHECK_DEADLOCK FALSE
