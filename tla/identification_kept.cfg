SPECIFICATION Spec
CONSTANTS
    Albums = {a1}
    Files = 1
    Effective <- AutomaticAgain
    MaxDeferrals = 2
    MaxEvents = 4
    Admits = {"otherReview"}
INVARIANTS DecisionStands
CHECK_DEADLOCK FALSE
