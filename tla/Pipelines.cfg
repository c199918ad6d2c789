SPECIFICATION Spec
CONSTANTS
  d1 = d1
  d2 = d2
  main = main
  face = face
  Order <- MCOrder
  Pipes <- MCPipes
  File = {d2}
  Shaped = {d2}
  Main = main
  r1 = r1
  r2 = r2
  Run <- MCRun
  None = None
  MaxChanges = 3
INVARIANTS EventsAttributed ShapesOnTheirStream
SYMMETRY Runs
CHECK_DEADLOCK FALSE
