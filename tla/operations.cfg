SPECIFICATION FairSpec
CONSTANTS
    bulk = bulk
    reidentification = reidentification
    management = management
    Jobs <- AllJobs
    Kind <- KindOf
    Size <- SizeOf
    BatchSize = 1
    Automatic = {management}
    JobCost = 3
    MaxEvents = 7
    Admits = {}
INVARIANTS TypeOK CountersAgree FinishedIsWhole StopIsHonoured WakeupKept
PROPERTIES JobsSettle
