SPECIFICATION Spec
CONSTANTS
    Files <- MCFiles
    Exe = "exe"
    Updater = "updater"
    Mapped = {"exe"}
    Regenerated = {"unins"}
    Originals = {"library"}
    Last = 3
    Ships <- MCShips
    Patches = {2}
    MaxFaults = 1
INVARIANT RollbackRestores
CHECK_DEADLOCK FALSE
