\* the heartbeat after a claim fails
SPECIFICATION FairSpec
CONSTANTS
    MaxJobs = 1
    Workers = {w1}
    Lanes = {"maintenance"}
    Kinds = {hard_delete}
    Interactive = {}
    Concurrent = {}
    Admins = {alice}
    Forces = {TRUE, FALSE}
    MaxAttempts = 2
    Faults = {"db"}
    MaxFaults = 1
    NoJob = NoJob
    NoWorker = NoWorker
    NoKind = NoKind
PROPERTIES EventuallyFinished
