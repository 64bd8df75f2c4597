SPECIFICATION Spec
CONSTANTS
  p1 = p1
  p2 = p2
  p3 = p3
  a = a
  b = b
  Peers = {p1, p2}
  Players = {p1, p2}
  Owner <- TwoPlayers
  Inputs = {a}
  MaxChanges = 4
  PressAgain = TRUE
  MaxFrame = 4
  MaxPerFrame = 2
  MaxCommands <- TwoCommandsEach
SYMMETRY Symmetry
INVARIANTS
  NoFailure
