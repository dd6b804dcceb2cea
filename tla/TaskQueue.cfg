SPECIFICATION FairSpec
CONSTANTS
    Poppers = {p1, p2, p3}
    Size = 4
    MaxPushes = 6
PROPERTIES ImplementsFifo EveryTaskLeaves
