SPECIFICATION Spec
CONSTANTS
  Base = 4
  MaxElements = 2
  MaxDecodeDepth = 2
  Messages <- MCMessages
  SwapsBytes = FALSE
  Routes = {{"go", "c"}}
  Roots = {"Blobs", "Tags"}
  Values <- MCValues
  MaxHops = 1
  DamagedHops = 1
INVARIANTS MapsRoundTrip
CHECK_DEADLOCK FALSE
