SPECIFICATION Spec
CONSTANTS
  Base = 4
  MaxElements = 2
  MaxDecodeDepth = 2
  Messages <- MCMessages
  SwapsBytes = FALSE
  Routes = {{"go", "ts", "c"}, {"go", "ts"}}
  Roots = {"Runs", "Wide", "Opts", "Lists", "Dict", "Node", "Chain"}
  Values <- MCValues
  MaxHops = 3
  DamagedHops = 1
INVARIANTS OneWire RelayKeepsMessage OneVerdict ReuseKeepsOnlyAbsent
PROPERTIES RefusedOnlyAtTheLimits CutRefused
CHECK_DEADLOCK FALSE
