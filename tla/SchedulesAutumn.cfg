\* one schedule at 02:30, in the hour that autumn repeats
SPECIFICATION Spec
CONSTANTS
    Never = Never
    nightly = nightly
    weekly = weekly
    storage_usage = storage_usage
    Schedules = {nightly}
    Kinds = {storage_usage}
    KindOf <- MCKindOf
    Crons <- AutumnCrons
    Zones <- AutumnZones
    Times <- AutumnTimes
    Workers = {w1}
    Admins = {alice}
    MaxFailures = 0
INVARIANTS AnsweredIsNotDue
