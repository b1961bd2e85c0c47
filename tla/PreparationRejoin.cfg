\* A client that leaves while the mission loads and joins again.
CONSTANTS
  Host = h
  Clients = {c1}
  Missions = {m1, m2}
  BypassMissions = {}
  NoMission = NoMission
  InitialAllow = {FALSE}
  MaxRevision = 8
  MaxMissions = 2
  MaxHostSequence = 0
  MaxSequence = 1
  MaxQueue = 1
  MaxToggles = 0
  MaxJoins = 2
SPECIFICATION Spec
INVARIANTS
  HostKnowsOnlyIssuedNumbers
