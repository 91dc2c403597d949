----------------------------- MODULE MCNextRuns -----------------------------
(* Expressions, zones and dates where next_after() could go wrong.          *)
EXTENDS NextRuns

Daily(h, m) == [minute |-> {At(m)}, hour |-> {At(h)}, day |-> {Star}, month |-> {Star}, weekday |-> {Star}]

MCCrons == {
    [Daily(0, 0) EXCEPT !.minute = {Star}, !.hour = {Star}],                      \* * * * * *
    [Daily(0, 0) EXCEPT !.minute = {Every(25)}, !.hour = {Span(1, 4, 2), At(2)}],
    [Daily(0, 0) EXCEPT !.minute = {From(50, 7), At(3)}, !.hour = {Star}],
    Daily(2, 30), Daily(23, 59),
    [Daily(2, 30) EXCEPT !.hour = {At(2), At(3)}],
    [Daily(0, 0) EXCEPT !.weekday = {Span(5, 7, 1)}],                           \* 0 0 * * 5-7
    [Daily(0, 0) EXCEPT !.weekday = {Every(7)}, !.day = {At(13)}],              \* 13th or Sunday
    [Daily(4, 15) EXCEPT !.day = {At(31)}],                                     \* 15 4 31 * *
    [Daily(4, 15) EXCEPT !.day = {At(31)}, !.month = {Every(3)}],
    [Daily(0, 0) EXCEPT !.day = {At(29)}, !.month = {At(2)}],                   \* leap days
    [Daily(0, 0) EXCEPT !.day = {At(29)}, !.month = {At(2)}, !.weekday = {At(0)}],
    [Daily(0, 0) EXCEPT !.day = {At(30)}, !.month = {At(2)}] }                  \* never

Utc == [change |-> 0, before |-> 0, after |-> 0]
MCZones == {Utc, [change |-> 28530780, before |-> 60, after |-> 120]}   \* Paris, 2024-03-31 01:00 UTC

\* 2024-03-31 00:40 and 2024-12-31 23:59, 2096-03-01 00:00 (no leap day in 2100), 2024-02-28 12:00
MCStarts == {28530760, 28928159, 66356640, 28485360}
=============================================================================
