SPECIFICATION FairSpec
CONSTANTS
    game = game
    ui = ui
    Callers = {game, ui}
    Asks <- MCAsks
    Names = {"quick", "QUICK"}
    PathOf <- MCPathOf
    Damaged <- MCDamaged
    Volatile <- MCVolatile
    MaxWrites = 1
    MaxFaults = 1
    MaxCalls = 3
INVARIANTS AnswersAreFresh LegacyOnlyWithoutMain LeaseHolds QuietCallsSucceed
PROPERTY CallsReturn
CHECK_DEADLOCK FALSE
