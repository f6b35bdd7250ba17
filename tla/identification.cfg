SPECIFICATION FairSpec
CONSTANTS
    Albums = {a1}
    Files = 2
    Effective <- AutomaticAgain
    MaxDeferrals = 2
    MaxEvents = 3
    Admits = {}
INVARIANTS TypeOK DecisionStands NothingForgotten
PROPERTIES WorkEnds
CHECK_DEADLOCK FALSE
