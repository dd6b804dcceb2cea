SPECIFICATION ReportsSpec
CONSTANTS
  MaxSaves = 2
  MaxFaults = 2
  MaxCrashes = 2
  FirstGroups <- AllGroups
  Captures = {"memory"}
  Crashes = {"kill"}
  Absent = Absent
  Torn = Torn
  None = None
INVARIANTS Recoverable FailureIsForGood
PROPERTIES AtomicSlotHolds MarkerGuardsDamage
