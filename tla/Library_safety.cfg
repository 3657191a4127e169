SPECIFICATION Spec
CONSTANTS
  c1 = c1
  c2 = c2
  alice = alice
  bob = bob
  p1 = p1
  p2 = p2
  p3 = p3
  sc1 = sc1
  sc2 = sc2
  None = None
  Operator = Operator
  Clients <- MCClients
  Users <- MCUsers
  Partsets <- MCPartsets
  Existing <- MCExisting
  Scores <- MCScores
  BatchSize = 1
  MaxRequests = 3
  MaxFaults = 1
SYMMETRY Symmetry
INVARIANTS ScoreKept NothingLeft AdminHadKey Counted
CHECK_DEADLOCK FALSE
