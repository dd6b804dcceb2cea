SPECIFICATION FairSpec
CONSTANTS
    Files <- MCFiles
    Exe = "exe"
    Updater = "updater"
    Mapped = {"exe"}
    Regenerated = {"unins"}
    Originals = {"library"}
    Last = 3
    Ships <- MCShips
    Patches = {2}
    MaxFaults = 2
INVARIANTS UpdatedIsRelease FailedIsPrevious PreviousKept
PROPERTY Converges
CHECK_DEADLOCK FALSE
