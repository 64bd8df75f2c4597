SPECIFICATION FairSpec
CONSTANTS
  p1 = p1
  p2 = p2
  p3 = p3
  a = a
  b = b
  Peers = {p1, p2}
  Players = {p1, p2}
  Owner <- TwoPlayers
  Inputs = {a}
  MaxChanges = 4
  PressAgain = FALSE
  MaxFrame = 4
  MaxPerFrame = 2
  MaxCommands <- TwoAndOne
INVARIANTS
  NoFailure
  SimulationIsCommitted
  NothingLost
  EnoughHistory
  PeersStayTogether
PROPERTIES
  ImplementsLockstep
  FramesGoOn
