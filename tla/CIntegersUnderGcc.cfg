SPECIFICATION Spec
CONSTANTS
  Base = 4
  MaxElements = 2
  MaxDecodeDepth = 2
  Messages <- MCMessages
  SwapsBytes = TRUE
  Routes = {{"c"}}
  Roots = {"Leaf", "Runs"}
  Values <- MCValues
  MaxHops = 1
  DamagedHops = 1
INVARIANTS IntegersAreLittleEndian
CHECK_DEADLOCK FALSE
