\* Two goroutines, two messages each.  An encoder per call in progress and one
\* to spare, so that allocation never stops a goroutine.
CONSTANTS
  Goroutines = {g1, g2}
  Encoders = {e1, e2, e3, e4, e5, e6, e7}
  Arrays = {a1, a2, a3, a4, a5, a6, a7, a8, a9, a10, a11, a12}
  Types <- MCTypes
  Fields <- MCFields
  InitialCapacity = 1
  MaxCalls = 2
SPECIFICATION Spec
SYMMETRY Symmetry
INVARIANTS Exclusive ArraysApart ReturnedBytesStay MarshalToEncodes
CHECK_DEADLOCK FALSE
