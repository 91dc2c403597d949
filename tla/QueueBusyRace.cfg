\* two requests for the same kind of job
SPECIFICATION Spec
CONSTANTS
    MaxJobs = 2
    Workers = {w1}
    Lanes = {"maintenance"}
    Kinds = {hard_delete}
    Interactive = {}
    Concurrent = {}
    Admins = {alice, bob}
    Forces = {TRUE, FALSE}
    MaxAttempts = 2
    Faults = {}
    MaxFaults = 0
    NoJob = NoJob
    NoWorker = NoWorker
    NoKind = NoKind
INVARIANTS OneActivePerKind
