SPECIFICATION Spec
CONSTANTS
  MaxChannels = 2
  Sizes = {0, 2}
  MaxBytes = 4
  MaxChannelBytes = 2
  ReserveBytes = 2
  MaxMessages = 2
  MaxQueued = 2
  ReserveMessages = 1
  MaxContext = 2
  MaxTraffic = 3
  Speaker = {s1, s2}
  MaxSpeakers = 2
  Chunks = 2
  Captured = 2
  PacketCapacity = 2
  Streams = 3
  MaxRemovals = 2
  MaxEvents = 2
  MaxPushes = 5
INVARIANTS
  TransportKeepsItsBooks
  WakeUpsFindTheirPayload
  OnlyTheRunningTransmission
  SpeakersAreHeard
  EventsAccountedFor
PROPERTIES
  LanesShareTheWire
CHECK_DEADLOCK FALSE
