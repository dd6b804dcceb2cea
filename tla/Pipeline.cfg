SPECIFICATION FairSpec
CONSTANTS
  MaxSaves = 3
  Captures = {"memory", "legacy"}
INVARIANTS DiskIsQuiet HandshakeHolds BorrowedBuffersLive NoConcurrentCapture MovedOnDisk
PROPERTIES SavesInOrder EverySaveSettles WorldResumes ExitCompletes
