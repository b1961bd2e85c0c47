SPECIFICATION Spec
CONSTANTS
  Peer = {p1}
  Endpoint = {x1}
  ConnId = {c1}
  Channel = {}
  None = None
  Slots = 1
  MaxCommands = 2
  Tokens = 3
  MaxMembers = 2
PROPERTIES
  ServedPeersKeepTheirEntry
