SPECIFICATION Spec
CONSTANTS
  MaxSaves = 2
  MaxFaults = 1
  MaxCrashes = 1
  FirstGroups <- AllGroups
  Captures = {"memory"}
  Crashes = {"kill", "power"}
  Absent = Absent
  Torn = Torn
  None = None
INVARIANT SuccessIsDurable
PROPERTIES AtomicSlotHolds RecoveryKeepsMain
