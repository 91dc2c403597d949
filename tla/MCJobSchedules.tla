--------------------------- MODULE MCJobSchedules ---------------------------
(* Small instances of JobSchedules, next to a change of clocks.              *)
EXTENDS JobSchedules

CONSTANTS nightly, weekly, storage_usage

MCKindOf == [s \in Schedules |-> storage_usage]

Field(h, m) == [minute |-> m, hour |-> h, day |-> {Star}, month |-> {Star}, weekday |-> {Star}]
Quarterly == Field({Star}, {Every(15)})   \* */15 * * * *
Nightly == Field({At(2)}, {At(30)})      \* 30 2 * * *

\* Europe/Paris around 2024-03-31 01:00 and 2024-10-27 01:00 UTC
Spring == [change |-> 28530780, before |-> 60, after |-> 120]
Autumn == [change |-> 28833180, before |-> 120, after |-> 60]

SpringCrons == {Quarterly}
SpringZones == {Spring}
SpringTimes == {28530760, 28530811, 28530870}    \* 00:40, 01:31, 02:30 UTC
AutumnCrons == {Nightly}
AutumnZones == {Autumn}
AutumnTimes == {28833105, 28833150, 28833185, 28833255}    \* 23:45, 00:30, 01:05, 02:15
=============================================================================
