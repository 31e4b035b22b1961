\* Room for two peers, and two descriptors that are used again; one frame fits an
\* outbox, so a second unread answer drops the connection, and one request fills the
\* queue.  stop() closes the table under a thread that still accepts.
CONSTANTS
  Conns = {c1, c2}
  Fds = {1, 2}
  None = None
  MaxConns = 2
  MaxOutbox = 1
  MaxTotal = 1
  Capacity = 1
  MaxRequests = 2
  MaxFaults = 2
SPECIFICATION MCSpec
INVARIANTS
  LimitsHold
  FramesWhole
  Handover
  NoSocketLost
PROPERTIES
  TransportSettles
