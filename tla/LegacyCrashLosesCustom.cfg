SPECIFICATION Spec
CONSTANTS
  MaxSaves = 1
  MaxFaults = 0
  MaxCrashes = 1
  FirstGroups <- Full
  Captures = {"legacy"}
  Crashes = {"kill"}
  Absent = Absent
  Torn = Torn
  None = None
INVARIANT WholeOnDisk
