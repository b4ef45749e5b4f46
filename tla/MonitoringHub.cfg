SPECIFICATION FairHubSpec
CONSTANTS
  Publishers = {p1, p2}
  Streams = {s1, s2}
  MaxPublishes = 3
CHECK_DEADLOCK FALSE
INVARIANTS
  HubTypeOK
  NothingMissed
  NothingTwice
PROPERTIES
  EachPayloadArrives
  ClosedStreamsLeave
