SPECIFICATION HubSpec
CONSTANTS
  Publishers = {p1, p2}
  Streams = {s1}
  MaxPublishes = 2
CHECK_DEADLOCK FALSE
INVARIANT StreamShowsLatest
