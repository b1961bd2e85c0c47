\* One client and its loadout changes, one mission: what holds a mission back.
CONSTANTS
  Host = h
  Clients = {c1}
  Missions = {m1}
  BypassMissions = {}
  NoMission = NoMission
  InitialAllow = {TRUE}
  MaxRevision = 3
  MaxMissions = 3
  MaxHostSequence = 1
  MaxSequence = 2
  MaxQueue = 1
  MaxToggles = 1
  MaxJoins = 2
SPECIFICATION FairSpec
PROPERTIES
  AnnouncedChangesHoldTheStart
  MissionsStart
