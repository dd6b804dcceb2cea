SPECIFICATION Spec
CONSTANTS
  MaxSaves = 2
  MaxFaults = 1
  MaxCrashes = 1
  FirstGroups <- AllGroups
  Captures = {"legacy"}
  Crashes = {"kill", "power"}
  Absent = Absent
  Torn = Torn
  None = None
INVARIANTS WholeWithoutCustom SuccessIsDurable
