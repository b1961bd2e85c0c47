SPECIFICATION EndsSpec
CONSTANTS
  Peer = {p1, p2}
  Endpoint = {x1}
  ConnId = {c1}
  Channel = {}
  None = None
  Slots = 1
  MaxCommands = 1
  Tokens = 3
  MaxMembers = 2
  Host = h
  Clients = {c1, c2}
  PlayerSlots = {s1, s2}
  NoSlot = NoSlot
  MaxPlays = 1
  MaxTarget = 2
  MaxLoop = 1
PROPERTIES
  JoiningEnds
  EntriesEnd
  PlaybacksEnd
CHECK_DEADLOCK FALSE
