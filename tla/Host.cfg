\* Two clients who join and leave, one or two places; two peers at two addresses of a relay, or with
\* two channels for one slot.
SPECIFICATION HostSpec
CONSTANTS
  Host = h
  Clients = {c1, c2}
  Slots = {s1, s2}
  NoSlot = NoSlot
  Limits = {2, 3}
  MaxJoins = 2
  MaxChanges = 1
  Peer = {p1, p2}
  Endpoint = {x1, x2}
  ConnId = {n1}
  k1 = k1
  k2 = k2
  None = None
SYMMETRY Symmetry
INVARIANTS
  SlotsAreOwned
  PlayersAreIntroduced
  PeersAreServed
PROPERTIES
  PartyFitsLimit
