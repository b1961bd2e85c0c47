\* Two clients, two missions, no loadout changes: readiness, snapshots, rejoining; two clients, one with
\* its mods loaded early, whose mods call each other.
CONSTANTS
  Host = h
  Clients = {c1, c2}
  Missions = {m1, m2}
  BypassMissions = {}
  NoMission = NoMission
  InitialAllow = {FALSE}
  MaxRevision = 4
  MaxMissions = 6
  MaxHostSequence = 0
  MaxSequence = 0
  MaxQueue = 1
  MaxToggles = 0
  MaxJoins = 2
  Early = {{}, {c1}, {c2}}
  MaxHellos = 2
  MaxCalls = 1
SYMMETRY Symmetry
SPECIFICATION SessionSpec
INVARIANTS
  
  ClientsSeeTheHost
  
PROPERTIES
  IsReadyBarrier
