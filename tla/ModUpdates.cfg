SPECIFICATION FairSpec
CONSTANTS
    Modules = {"old", "new"}
    Listed = {"old", "new"}
    Installed = {"old"}
    Files = {"mod.ltx", "data"}
    Manifest = "mod.ltx"
    Last = 2
    MaxActs = 2
    MaxKills = 1
    MaxFaults = 1
INVARIANT NeverNeither
PROPERTIES RequestsAnswered QueueSettles
