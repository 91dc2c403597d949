\* workers that go silent while they run: others take their jobs over
SPECIFICATION FairSpec
CONSTANTS
    MaxJobs = 1
    Workers = {w1, w2}
    Lanes = {"maintenance"}
    Kinds = {hard_delete}
    Interactive = {}
    Concurrent = {}
    Admins = {alice}
    Forces = {TRUE, FALSE}
    MaxAttempts = 2
    Faults = {"silence", "slow", "term", "kill"}
    MaxFaults = 2
    NoJob = NoJob
    NoWorker = NoWorker
    NoKind = NoKind
INVARIANTS DoneMeansWorked
PROPERTIES EventuallyFinished
