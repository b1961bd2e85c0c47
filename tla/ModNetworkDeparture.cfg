\* Two clients leave in the same moment while a third stays.
CONSTANTS
  Host = h
  Clients = {c1, c2, c3}
  Early = {{}}
  MaxJoins = 1
  MaxHellos = 1
  MaxCalls = 0
SPECIFICATION Spec
INVARIANTS
  DirectoriesAgree
