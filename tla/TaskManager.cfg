SPECIFICATION FairSpec
CONSTANTS
    Main = main
    Workers = {w1, w2}
    Tasks <- MCTasks
    Program = "program"
    Body <- MCBody
    Parent <- MCParent
INVARIANTS FinishedIsOver ListIsQuiet
PROPERTY ProgramEnds
CHECK_DEADLOCK FALSE
