CONSTANTS
  x1 = x1  x2 = x2
  Loops = {x1, x2}
  Gated = {x1}
  BatchSize = 2
  MaxFailures = 2
  MaxRows = 2
  MaxFaults = 2
  MaxCommands = 1
  MaxExits = 1
SPECIFICATION TameSpec
INVARIANTS TypeOK LoopAlive ClosedIsQuiet
PROPERTIES Shipping RowsShip GateReopens
