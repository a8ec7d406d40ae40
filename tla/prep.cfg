CONSTANTS
  c1 = c1
  c2 = c2
  c3 = c3
  Calls <- MCCalls
  Categories = {"k"}
  MaxCases = 2
  Gates = {"volume", "dup"}
  MaxFaults = 1
  None = None
SPECIFICATION Spec
SYMMETRY CallSymmetry
INVARIANTS TypeOK SecondSuiteHasACause StampedSuite LateRowsOverlap FinalizeSeesRows AckIsInformed AloneIsKept TaskClosedOnce
PROPERTY ShrinkIsKnown
CHECK_DEADLOCK FALSE
