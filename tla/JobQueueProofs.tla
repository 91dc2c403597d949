--------------------------- MODULE JobQueueProofs ---------------------------
(***************************************************************************)
(* What JobQueue promises for any number of jobs, workers, lanes, kinds    *)
(* and requests: the types of its state; whatever goes wrong, that a job  *)
(* that is done was worked through; and, as long as heartbeats get         *)
(* through, that a job belongs to one thread.                              *)
(***************************************************************************)
EXTENDS JobQueue, TLAPS

LEMMA ConstantFacts ==
    /\ NoJob \notin Jobs /\ NoWorker \notin Workers /\ NoKind \notin Kinds
    /\ "maintenance" \in Lanes /\ MaxFaults \in Nat /\ Forces \subseteq BOOLEAN
    /\ Interactive # {} => "interactive" \in Lanes
  BY JobQueueAssumption DEF Jobs

LEMMA ThreadPair == \A w \in Workers, l \in Lanes : <<w, l>> \in Threads
  BY DEF Threads

-----------------------------------------------------------------------------
(***************************************************************************)
(* Types: TypeOK in four parts, and one lemma per way an action changes    *)
(* one of them.                                                            *)
(***************************************************************************)
RowTypes == job \in [Jobs -> Row] /\ worked \in [Jobs -> BOOLEAN]
ThreadTypes == thread \in [Threads -> ThreadState] /\ \A t \in Threads : Coherent(thread[t])
AdminTypes == admin \in [Admins -> AdminState] /\ \A a \in Admins : Meant(admin[a])
OtherTypes ==
    /\ proc \in [Workers -> {"down", "up", "stopping"}]
    /\ running \in [Threads -> Jobs \cup {NoJob}]
    /\ faults \in 0..MaxFaults

LEMMA TypeParts == TypeOK <=> RowTypes /\ ThreadTypes /\ AdminTypes /\ OtherTypes
  BY DEF TypeOK, RowTypes, ThreadTypes, AdminTypes, OtherTypes

LEMMA TypePartsNext == TypeOK' <=> RowTypes' /\ ThreadTypes' /\ AdminTypes' /\ OtherTypes'
  BY DEF TypeOK, RowTypes, ThreadTypes, AdminTypes, OtherTypes

LEMMA NoneTyped == NoRow \in Row /\ IdleThread \in ThreadState /\ Coherent(IdleThread)
                   /\ IdleAdmin \in AdminState /\ Meant(IdleAdmin)
  BY DEF NoRow, Row, IdleThread, ThreadState, Coherent, IdleAdmin, AdminState, Meant, Holding,
         Statuses, Active, Finished, Outcomes, Verdicts

LEMMA RowWritten ==
    ASSUME RowTypes, NEW j \in Jobs, NEW row \in Row, Writes(j, row), UNCHANGED worked
    PROVE  RowTypes'
  BY DEF RowTypes, Writes

LEMMA ThreadMoved ==
    ASSUME ThreadTypes, NEW t \in Threads, NEW state \in ThreadState, Coherent(state), Moves(t, state)
    PROVE  ThreadTypes'
  BY DEF ThreadTypes, Moves, Coherent

LEMMA FaultCounted == ASSUME faults \in 0..MaxFaults, NEW f, Fault(f) PROVE faults' \in 0..MaxFaults
  BY ConstantFacts DEF Fault

LEMMA Unmoved ==
    /\ RowTypes /\ UNCHANGED <<job, worked>> => RowTypes'
    /\ ThreadTypes /\ UNCHANGED thread => ThreadTypes'
    /\ AdminTypes /\ UNCHANGED admin => AdminTypes'
    /\ OtherTypes /\ UNCHANGED <<proc, running, faults>> => OtherTypes'
  BY DEF RowTypes, ThreadTypes, AdminTypes, OtherTypes

LEMMA TypeInit == Init => TypeOK
  BY NoneTyped, ConstantFacts DEF Init, TypeOK

LEMMA RequestTypes == ASSUME TypeOK, NEW a \in Admins, Request(a) PROVE TypeOK'
  <1>1. RowTypes /\ ThreadTypes /\ AdminTypes /\ OtherTypes
    BY TypeParts
  <1>2. ASSUME NEW k \in Kinds, AsksForJob(a, k) PROVE TypeOK'
    <2>1. AdminTypes'
      BY <1>1, <1>2, NoneTyped DEF AsksForJob, AdminTypes, AdminState, IdleAdmin, Meant
    <2> QED BY <1>1, <1>2, <2>1, Unmoved, TypePartsNext DEF AsksForJob
  <1>3. ASSUME InsertsJob(a) PROVE TypeOK'
    <2>1. PICK j \in NewIds : Writes(j, [NoRow EXCEPT !.kind = admin[a].kind, !.status = "queued"])
      BY <1>3 DEF InsertsJob
    <2>2. admin[a].kind \in Kinds
      BY <1>1, <1>3 DEF InsertsJob, AdminTypes, Meant
    <2>3. [NoRow EXCEPT !.kind = admin[a].kind, !.status = "queued"] \in Row
      BY <2>2, NoneTyped DEF Row, NoRow, Statuses, Active
    <2>4. RowTypes'
      BY <1>1, <1>3, <2>1, <2>3, RowWritten DEF InsertsJob, NewIds
    <2>5. AdminTypes'
      BY <1>1, <1>3, NoneTyped DEF InsertsJob, AdminTypes
    <2> QED BY <1>1, <1>3, <2>4, <2>5, Unmoved, TypePartsNext DEF InsertsJob
  <1>4. ASSUME NEW j \in Jobs, NEW force \in Forces, AsksToCancel(a, j, force) PROVE TypeOK'
    <2>1. AdminTypes'
      BY <1>1, <1>4, NoneTyped, ConstantFacts
      DEF AsksToCancel, AdminTypes, AdminState, IdleAdmin, Meant, Statuses, Active
    <2> QED BY <1>1, <1>4, <2>1, Unmoved, TypePartsNext DEF AsksToCancel
  <1>5. ASSUME Cancels(a) PROVE TypeOK'
    <2> DEFINE r == admin[a]
               row == [job[r.job] EXCEPT
                         !.status = IF r.seen = "queued" \/ r.force THEN "cancelled" ELSE @,
                         !.cancel = @ \/ r.seen = "running"]
    <2>1. r.job \in Jobs /\ Writes(r.job, row)
      BY <1>1, <1>5 DEF Cancels, AdminTypes, Meant
    <2>2. row \in Row
      <3>1. job[r.job] \in Row
        BY <1>1, <2>1 DEF RowTypes
      <3>2. (job[r.job].cancel \/ r.seen = "running") \in BOOLEAN
        OBVIOUS
      <3>3. (IF r.seen = "queued" \/ r.force THEN "cancelled" ELSE job[r.job].status) \in Statuses
        BY <3>1 DEF Row, Statuses, Finished
      <3> HIDE DEF r
      <3> QED BY <3>1, <3>2, <3>3 DEF Row
    <2>3. RowTypes'
      BY <1>1, <1>5, <2>1, <2>2, RowWritten DEF Cancels
    <2>4. AdminTypes'
      BY <1>1, <1>5, NoneTyped DEF Cancels, AdminTypes
    <2> QED BY <1>1, <1>5, <2>3, <2>4, Unmoved, TypePartsNext DEF Cancels
  <1> QED BY <1>2, <1>3, <1>4, <1>5 DEF Request

LEMMA StaleTypes == ASSUME TypeOK, NEW j \in Jobs, BecomesStale(j) PROVE TypeOK'
  <1>1. RowTypes /\ ThreadTypes /\ AdminTypes /\ OtherTypes
    BY TypeParts
  <1>2. [job[j] EXCEPT !.fresh = FALSE] \in Row
    BY <1>1 DEF RowTypes, Row
  <1>3. RowTypes'
    BY <1>1, <1>2, RowWritten DEF BecomesStale
  <1>4. faults' \in 0..MaxFaults
    BY <1>1, FaultCounted DEF BecomesStale, OtherTypes
  <1>5. OtherTypes'
    BY <1>1, <1>4 DEF BecomesStale, OtherTypes
  <1> QED BY <1>1, <1>3, <1>5, Unmoved, TypePartsNext DEF BecomesStale

LEMMA ProcessTypes ==
    ASSUME TypeOK, NEW w \in Workers, Heartbeat(w) \/ Boots(w) \/ IsTold(w) \/ IsKilled(w) \/ Exits(w)
    PROVE  TypeOK'
  <1>1. RowTypes /\ ThreadTypes /\ AdminTypes /\ OtherTypes
    BY TypeParts
  <1>2. CASE Heartbeat(w)
    <2>1. RowTypes'
      BY <1>1, <1>2 DEF RowTypes, Heartbeat, Row
    <2> QED BY <1>1, <1>2, <2>1, Unmoved, TypePartsNext DEF Heartbeat
  <1>3. CASE Boots(w)
    <2>1. OtherTypes'
      BY <1>1, <1>3 DEF Boots, OtherTypes
    <2> QED BY <1>1, <1>3, <2>1, Unmoved, TypePartsNext DEF Boots
  <1>4. CASE IsTold(w)
    <2>1. OtherTypes'
      BY <1>1, <1>4, FaultCounted DEF IsTold, OtherTypes
    <2> QED BY <1>1, <1>4, <2>1, Unmoved, TypePartsNext DEF IsTold
  <1>5. ASSUME Dies(w), faults' \in 0..MaxFaults PROVE TypeOK'
    <2>1. ThreadTypes'
      BY <1>1, <1>5, NoneTyped DEF Dies, ThreadTypes
    <2>2. OtherTypes'
      BY <1>1, <1>5 DEF Dies, OtherTypes
    <2> QED BY <1>1, <1>5, <2>1, <2>2, Unmoved, TypePartsNext DEF Dies
  <1>6. CASE IsKilled(w)
    BY <1>1, <1>5, <1>6, FaultCounted DEF IsKilled, OtherTypes
  <1>7. CASE Exits(w)
    BY <1>1, <1>5, <1>7 DEF Exits, OtherTypes
  <1> QED BY <1>2, <1>3, <1>4, <1>6, <1>7

LEMMA FlushTypes ==
    ASSUME TypeOK, NEW t \in Threads, thread[t].pc \in Holding, NEW pc \in {"work", "flushed"},
           Flush(t, pc), pc = "flushed" => thread[t].pc = "ended"
    PROVE  TypeOK'
  <1> DEFINE j == thread[t].job
             row == [job[j] EXCEPT !.fresh = TRUE]
             state == [thread[t] EXCEPT !.pc = pc, !.heard = job[j].cancel]
  <1>1. RowTypes /\ ThreadTypes /\ AdminTypes /\ OtherTypes
    BY TypeParts
  <1>2. j \in Jobs /\ thread[t] \in ThreadState /\ Coherent(thread[t]) /\ job[j] \in Row
    BY <1>1 DEF ThreadTypes, Coherent, RowTypes
  <1>3. row \in Row
    BY <1>2 DEF Row
  <1>4. state \in ThreadState /\ Coherent(state)
    BY <1>2 DEF Row, ThreadState, Coherent, Holding
  <1>5. Writes(j, row) /\ Moves(t, state)
    BY DEF Flush
  <1>6. RowTypes' /\ ThreadTypes'
    <2> HIDE DEF row, state
    <2> QED BY <1>1, <1>2, <1>3, <1>4, <1>5, RowWritten, ThreadMoved DEF Flush
  <1> QED BY <1>1, <1>6, Unmoved, TypePartsNext DEF Flush

LEMMA StepTypes ==
    ASSUME TypeOK, NEW w \in Workers, NEW l \in Lanes, Step(w, l)
    PROVE  TypeOK'
  <1> DEFINE t == <<w, l>>
  <1>1. RowTypes /\ ThreadTypes /\ AdminTypes /\ OtherTypes
    BY TypeParts
  <1>2. t \in Threads /\ thread[t] \in ThreadState /\ Coherent(thread[t])
    BY <1>1, ThreadPair DEF ThreadTypes
  <1>3. ASSUME Returns(t) PROVE ThreadTypes'
    BY <1>1, <1>2, <1>3, NoneTyped, ThreadMoved DEF Returns
  <1>4. ASSUME NEW pc \in {"idle", "housekeeping", "claiming"}, Goes(t, pc) PROVE ThreadTypes'
    <2>1. [thread[t] EXCEPT !.pc = pc] \in ThreadState /\ Coherent([thread[t] EXCEPT !.pc = pc])
      BY <1>2 DEF ThreadState, Coherent, Holding
    <2> QED BY <1>1, <1>2, <1>4, <2>1, ThreadMoved DEF Goes
  <1>5. ASSUME NEW x \in Jobs \cup {NoJob}, running' = [running EXCEPT ![t] = x], UNCHANGED <<proc, faults>>
        PROVE  OtherTypes'
    BY <1>1, <1>2, <1>5 DEF OtherTypes
  <1>6. CASE BeginsTick(w, l)
    <2>1. ThreadTypes'
      BY <1>4, <1>6 DEF BeginsTick
    <2> QED BY <1>1, <1>6, <2>1, Unmoved, TypePartsNext DEF BeginsTick
  <1>7. CASE l = "maintenance" /\ RequeuesStale(w)
    <2>1. ThreadTypes'
      BY <1>4, <1>7 DEF RequeuesStale
    <2>2. \A r \in Row : Requeued(r) \in Row
      BY DEF Requeued, Row, Statuses, Active, Finished
    <2>3. RowTypes'
      BY <1>1, <1>7, <2>2 DEF RequeuesStale, RowTypes
    <2> QED BY <1>1, <1>7, <2>1, <2>3, Unmoved, TypePartsNext DEF RequeuesStale
  <1>8. CASE Claims(w, l)
    <2> DEFINE row(j) == [job[j] EXCEPT !.status = "running", !.worker = w, !.fresh = TRUE, !.attempts = @ + 1]
               state(j) == [IdleThread EXCEPT !.pc = "claimed", !.job = j]
    <2>1. PICK j \in Jobs : Writes(j, row(j)) /\ Moves(t, state(j))
      BY <1>8 DEF Claims, Claimable
    <2>2. row(j) \in Row
      <3>1. job[j] \in Row /\ job[j].attempts + 1 \in Nat
        BY <1>1 DEF RowTypes, Row
      <3>2. "running" \in Statuses
        BY DEF Statuses, Active
      <3> QED BY <3>1, <3>2 DEF Row
    <2>3. state(j) \in ThreadState /\ Coherent(state(j))
      BY NoneTyped DEF IdleThread, ThreadState, Coherent, Holding, Statuses
    <2>4. RowTypes' /\ ThreadTypes'
      <3> HIDE DEF row, state, t
      <3> QED BY <1>1, <1>2, <1>8, <2>1, <2>2, <2>3, RowWritten, ThreadMoved DEF Claims
    <2> QED BY <1>1, <1>8, <2>4, Unmoved, TypePartsNext DEF Claims
  <1>9. CASE FindsNothing(w, l)
    BY <1>1, <1>3, <1>9, Unmoved, TypePartsNext DEF FindsNothing
  <1>10. CASE Registers(w, l)
    <2>1. thread[t].job \in Jobs
      BY <1>2, <1>10 DEF Registers, Coherent, Holding
    <2>2. RowTypes'
      BY <1>1, <1>10 DEF Registers, RowTypes, Row
    <2>3. OtherTypes'
      BY <1>5, <1>10, <2>1 DEF Registers
    <2>4. ThreadTypes'
      <3>1. [thread[t] EXCEPT !.pc = "registered"] \in ThreadState /\ Coherent([thread[t] EXCEPT !.pc = "registered"])
        BY <1>2, <2>1 DEF ThreadState, Coherent, Holding
      <3> QED BY <1>1, <1>2, <1>10, <3>1, ThreadMoved DEF Registers, Goes
    <2> QED BY <1>1, <1>10, <2>2, <2>3, <2>4, Unmoved, TypePartsNext DEF Registers
  <1>11. CASE Starts(w, l)
    BY <1>2, <1>11, FlushTypes DEF Starts, Holding
  <1>12. CASE StopsEarly(w, l)
    <2>1. ThreadTypes'
      <3>1. [thread[t] EXCEPT !.pc = "ended", !.outcome = "partial"] \in ThreadState
            /\ Coherent([thread[t] EXCEPT !.pc = "ended", !.outcome = "partial"])
        BY <1>2, <1>12 DEF StopsEarly, ThreadState, Coherent, Holding, Outcomes
      <3> QED BY <1>1, <1>2, <1>12, <3>1, ThreadMoved DEF StopsEarly, Ends
    <2> QED BY <1>1, <1>12, <2>1, Unmoved, TypePartsNext DEF StopsEarly
  <1>13. CASE FlushesLast(w, l)
    BY <1>2, <1>13, FlushTypes DEF FlushesLast, Holding
  <1>14. CASE FindsCancelled(w, l)
    BY <1>1, <1>3, <1>5, <1>14, Unmoved, TypePartsNext DEF FindsCancelled
  <1>15. CASE Decides(w, l)
    <2> DEFINE r == job[thread[t].job]
               state == [thread[t] EXCEPT !.pc = "decided", !.outcome = Verdict(w, l, r),
                                          !.status = r.status, !.worker = r.worker]
    <2>1. thread[t].job \in Jobs /\ r \in Row
      BY <1>1, <1>2, <1>15 DEF Decides, Coherent, Holding, RowTypes
    <2>2. Verdict(w, l, r) \in Verdicts
      BY DEF Verdict, Verdicts, Finished
    <2>3. state \in ThreadState /\ Coherent(state)
      BY <1>2, <2>1, <2>2 DEF ThreadState, Coherent, Holding, Row
    <2>4. Moves(t, state)
      BY <1>15 DEF Decides
    <2>5. ThreadTypes'
      <3> HIDE DEF state, t
      <3> QED BY <1>1, <1>2, <2>3, <2>4, ThreadMoved
    <2> QED BY <1>1, <1>15, <2>5, Unmoved, TypePartsNext DEF Decides
  <1>16. CASE Saves(w, l)
    <2> DEFINE s == thread[t]
               status == IF s.outcome # s.status THEN s.outcome ELSE job[s.job].status
               worker == IF s.outcome = "queued" /\ s.worker # NoWorker THEN NoWorker ELSE job[s.job].worker
               row == [job[s.job] EXCEPT !.status = status, !.worker = worker]
    <2>1. s.job \in Jobs /\ s.outcome \in Verdicts
      BY <1>2, <1>16 DEF Saves, Coherent, Holding
    <2>2. row \in Row
      <3>1. job[s.job] \in Row
        BY <1>1, <2>1 DEF RowTypes
      <3>2. status \in Statuses
        BY <2>1, <3>1 DEF Row, Verdicts, Statuses, Active
      <3>3. worker \in Workers \cup {NoWorker}
        BY <3>1 DEF Row
      <3> HIDE DEF s, status, worker
      <3> QED BY <3>1, <3>2, <3>3 DEF Row
    <2>3. Writes(s.job, row)
      BY <1>16 DEF Saves
    <2>4. RowTypes'
      <3> HIDE DEF row, s
      <3> QED BY <1>1, <1>16, <2>1, <2>2, <2>3, RowWritten DEF Saves
    <2> QED BY <1>1, <1>3, <1>5, <1>16, <2>4, Unmoved, TypePartsNext DEF Saves
  <1> QED BY <1>6, <1>7, <1>8, <1>9, <1>10, <1>11, <1>12, <1>13, <1>14, <1>15, <1>16 DEF Step

LEMMA WorkTypes ==
    ASSUME TypeOK, NEW w \in Workers, NEW l \in Lanes,
           Work(w, l) \/ Reports(w, l) \/ Fails(w, l)
    PROVE  TypeOK'
  <1> DEFINE t == <<w, l>>
  <1>1. RowTypes /\ ThreadTypes /\ AdminTypes /\ OtherTypes
    BY TypeParts
  <1>2. t \in Threads /\ thread[t] \in ThreadState /\ Coherent(thread[t])
    BY <1>1, ThreadPair DEF ThreadTypes
  <1>3. ASSUME NEW outcome \in Outcomes, thread[t].pc = "work", Ends(t, outcome) PROVE ThreadTypes'
    <2>1. [thread[t] EXCEPT !.pc = "ended", !.outcome = outcome] \in ThreadState
          /\ Coherent([thread[t] EXCEPT !.pc = "ended", !.outcome = outcome])
      BY <1>2, <1>3 DEF ThreadState, Coherent, Holding
    <2> QED BY <1>1, <1>2, <1>3, <2>1, ThreadMoved DEF Ends
  <1>4. ASSUME NEW x \in Jobs \cup {NoJob}, running' = [running EXCEPT ![t] = x], Fault("db"), UNCHANGED proc
        PROVE  OtherTypes'
    BY <1>1, <1>2, <1>4, FaultCounted DEF OtherTypes
  <1>5. CASE Completes(w, l)
    <2>1. RowTypes'
      BY <1>1, <1>2, <1>5 DEF Completes, RowTypes
    <2>2. ThreadTypes'
      BY <1>3, <1>5 DEF Completes, Outcomes
    <2> QED BY <1>1, <1>5, <2>1, <2>2, Unmoved, TypePartsNext DEF Completes
  <1>6. CASE Crashes(w, l)
    <2>1. ThreadTypes'
      BY <1>3, <1>6 DEF Crashes, Outcomes
    <2> QED BY <1>1, <1>6, <2>1, Unmoved, TypePartsNext DEF Crashes
  <1>7. CASE Reports(w, l)
    BY <1>2, <1>7, FlushTypes DEF Reports, Holding
  <1>8. CASE RegisterFails(w, l)
    <2>1. thread[t].job \in Jobs
      BY <1>2, <1>8 DEF RegisterFails, Coherent, Holding
    <2>2. ThreadTypes'
      BY <1>1, <1>2, <1>8, NoneTyped, ThreadMoved DEF RegisterFails, Returns
    <2> QED BY <1>1, <1>4, <1>8, <2>1, <2>2, Unmoved, TypePartsNext DEF RegisterFails
  <1>9. CASE RunFails(w, l)
    <2>1. ThreadTypes'
      BY <1>1, <1>2, <1>9, NoneTyped, ThreadMoved DEF RunFails, Returns
    <2> QED BY <1>1, <1>4, <1>9, <2>1, Unmoved, TypePartsNext DEF RunFails
  <1>10. CASE FlushFails(w, l)
    <2> DEFINE pc == IF thread[t].pc = "registered" THEN "work" ELSE "flushed"
               state == [thread[t] EXCEPT !.pc = pc]
    <2>1. thread[t].job \in Jobs /\ (pc = "flushed" => thread[t].outcome \in Outcomes)
      BY <1>2, <1>10 DEF FlushFails, Coherent, Holding
    <2>2. state \in ThreadState /\ Coherent(state)
      BY <1>2, <2>1 DEF ThreadState, Coherent, Holding
    <2>3. Moves(t, state)
      BY <1>10 DEF FlushFails, Goes
    <2>4. ThreadTypes'
      <3> HIDE DEF state, t
      <3> QED BY <1>1, <1>2, <2>2, <2>3, ThreadMoved
    <2>5. OtherTypes'
      BY <1>1, <1>10, FaultCounted DEF FlushFails, OtherTypes
    <2> QED BY <1>1, <1>10, <2>4, <2>5, Unmoved, TypePartsNext DEF FlushFails
  <1> QED BY <1>5, <1>6, <1>7, <1>8, <1>9, <1>10 DEF Work, Fails

LEMMA TypeNext == TypeOK /\ [Next]_vars => TypeOK'
  <1> SUFFICES ASSUME TypeOK, [Next]_vars PROVE TypeOK'
    OBVIOUS
  <1>1. CASE Next
    BY <1>1, RequestTypes, StaleTypes, ProcessTypes, StepTypes, WorkTypes DEF Next
  <1>2. CASE UNCHANGED vars
    BY <1>2, TypeParts, TypePartsNext, Unmoved DEF vars
  <1> QED BY <1>1, <1>2

\* Rows, threads and requests keep their shapes, and a thread or a request that acts on
\* a job names one.
THEOREM TypeCorrect == Spec => []TypeOK
  BY TypeInit, TypeNext, PTL DEF Spec

-----------------------------------------------------------------------------
(***************************************************************************)
(* How rows change, in any step: they stay, a cancel that was asked for    *)
(* stays asked for, work that was done stays done, and only a thread that  *)
(* decided so makes a job done.                                            *)
(***************************************************************************)
Ages(j) ==
    /\ job[j].status # "none" => job'[j].status # "none" /\ (job[j].cancel => job'[j].cancel)
    /\ worked[j] => worked'[j]
    /\ job'[j].status = "done" =>
        \/ job[j].status = "done"
        \/ \E t \in Threads : thread[t].pc = "decided" /\ thread[t].job = j /\ thread[t].outcome = "done"

LEMMA RowAges ==
    ASSUME TypeOK, NEW i \in Jobs, NEW row \in Row, Writes(i, row), UNCHANGED worked,
           job[i].status # "none" => row.status # "none" /\ (job[i].cancel => row.cancel),
           row.status = "done" =>
             \/ job[i].status = "done"
             \/ \E t \in Threads : thread[t].pc = "decided" /\ thread[t].job = i /\ thread[t].outcome = "done"
    PROVE  \A j \in Jobs : Ages(j)
  <1> SUFFICES ASSUME NEW j \in Jobs PROVE Ages(j)
    OBVIOUS
  <1>1. job'[j] = IF j = i THEN row ELSE job[j]
    BY DEF Writes, TypeOK
  <1> QED BY <1>1 DEF Ages

LEMMA FlushAges ==
    ASSUME TypeOK, NEW t \in Threads, thread[t].pc \in Holding, NEW pc, Flush(t, pc)
    PROVE  \A j \in Jobs : Ages(j)
  <1> DEFINE i == thread[t].job
             row == [job[i] EXCEPT !.fresh = TRUE]
  <1>1. i \in Jobs /\ job[i] \in Row
    BY DEF TypeOK, Coherent
  <1>2. row \in Row /\ row.status = job[i].status /\ row.cancel = job[i].cancel
    BY <1>1 DEF Row
  <1>3. Writes(i, row) /\ UNCHANGED worked
    BY DEF Flush
  <1> HIDE DEF row, i
  <1> QED BY <1>1, <1>2, <1>3, RowAges

LEMMA RowsOnlyStay == UNCHANGED <<job, worked>> => \A j \in Jobs : Ages(j)
  BY DEF Ages

LEMMA RequestAges == ASSUME TypeOK, NEW a \in Admins, Request(a) PROVE \A j \in Jobs : Ages(j)
  <1>1. ASSUME NEW k \in Kinds, AsksForJob(a, k) PROVE \A j \in Jobs : Ages(j)
    BY <1>1, RowsOnlyStay DEF AsksForJob
  <1>2. ASSUME InsertsJob(a) PROVE \A j \in Jobs : Ages(j)
    <2> DEFINE row == [NoRow EXCEPT !.kind = admin[a].kind, !.status = "queued"]
    <2>1. PICK i \in NewIds : Writes(i, row)
      BY <1>2 DEF InsertsJob
    <2>2. admin[a].kind \in Kinds
      BY <1>2 DEF InsertsJob, TypeOK, Meant
    <2>3. row \in Row /\ row.status = "queued"
      BY <2>2, NoneTyped DEF Row, NoRow, Statuses, Active
    <2>4. i \in Jobs /\ job[i].status = "none" /\ UNCHANGED worked
      BY <1>2 DEF NewIds, InsertsJob
    <2> HIDE DEF row
    <2> QED BY <2>1, <2>3, <2>4, RowAges
  <1>3. ASSUME NEW j \in Jobs, NEW force \in Forces, AsksToCancel(a, j, force) PROVE \A i \in Jobs : Ages(i)
    BY <1>3, RowsOnlyStay DEF AsksToCancel
  <1>4. ASSUME Cancels(a) PROVE \A j \in Jobs : Ages(j)
    <2> DEFINE r == admin[a]
               cancel == job[r.job].cancel \/ r.seen = "running"
               status == IF r.seen = "queued" \/ r.force THEN "cancelled" ELSE job[r.job].status
               row == [job[r.job] EXCEPT !.status = status, !.cancel = cancel]
    <2>1. r.job \in Jobs /\ Writes(r.job, row) /\ UNCHANGED worked
      BY <1>4 DEF Cancels, TypeOK, Meant
    <2>2. job[r.job] \in Row
      BY <2>1 DEF TypeOK
    <2>3. status \in Statuses /\ cancel \in BOOLEAN
      BY <2>2 DEF Row, Statuses, Finished
    <2>4. /\ status = "done" => job[r.job].status = "done"
          /\ job[r.job].status # "none" => status # "none"
          /\ job[r.job].cancel => cancel
      OBVIOUS
    <2>5. row \in Row /\ row.status = status /\ row.cancel = cancel
      <3> HIDE DEF r, status, cancel
      <3> QED BY <2>2, <2>3 DEF Row
    <2> HIDE DEF r, status, cancel, row
    <2> QED BY <2>1, <2>4, <2>5, RowAges
  <1> QED BY <1>1, <1>2, <1>3, <1>4 DEF Request

LEMMA ProcessAges ==
    ASSUME TypeOK, NEW w \in Workers, Heartbeat(w) \/ Boots(w) \/ IsTold(w) \/ IsKilled(w) \/ Exits(w)
    PROVE  \A j \in Jobs : Ages(j)
  <1>1. CASE Heartbeat(w)
    BY <1>1 DEF Heartbeat, Ages, TypeOK, Row
  <1>2. CASE Boots(w) \/ IsTold(w) \/ IsKilled(w) \/ Exits(w)
    BY <1>2, RowsOnlyStay DEF Boots, IsTold, IsKilled, Exits, Dies
  <1> QED BY <1>1, <1>2

LEMMA StaleAges == ASSUME TypeOK, NEW j \in Jobs, BecomesStale(j) PROVE \A i \in Jobs : Ages(i)
  <1>1. [job[j] EXCEPT !.fresh = FALSE] \in Row
    BY DEF TypeOK, Row
  <1>2. /\ [job[j] EXCEPT !.fresh = FALSE].status = job[j].status
        /\ [job[j] EXCEPT !.fresh = FALSE].cancel = job[j].cancel
    BY DEF TypeOK, Row
  <1> QED BY <1>1, <1>2, RowAges DEF BecomesStale

LEMMA StepAges ==
    ASSUME TypeOK, NEW w \in Workers, NEW l \in Lanes, Step(w, l)
    PROVE  \A j \in Jobs : Ages(j)
  <1> DEFINE t == <<w, l>>
  <1>1. t \in Threads /\ Coherent(thread[t])
    BY ThreadPair DEF TypeOK
  <1>2. CASE BeginsTick(w, l) \/ FindsNothing(w, l) \/ StopsEarly(w, l) \/ FindsCancelled(w, l) \/ Decides(w, l)
    BY <1>2, RowsOnlyStay DEF BeginsTick, FindsNothing, StopsEarly, FindsCancelled, Decides
  <1>3. CASE RequeuesStale(w)
    <2>1. \A r \in Row : Stale(r) => /\ Requeued(r).status \in {"cancelled", "failed", "queued"}
                                     /\ Requeued(r).cancel = r.cancel
      BY DEF Requeued, Row
    <2>2. ASSUME NEW j \in Jobs PROVE Ages(j)
      <3>1. job[j] \in Row /\ job'[j] = IF Stale(job[j]) THEN Requeued(job[j]) ELSE job[j]
        BY <1>3 DEF RequeuesStale, TypeOK
      <3> QED BY <1>3, <2>1, <3>1 DEF Ages, RequeuesStale
    <2> QED BY <2>2
  <1>4. CASE Claims(w, l)
    <2> DEFINE row(j) == [job[j] EXCEPT !.status = "running", !.worker = w, !.fresh = TRUE, !.attempts = @ + 1]
    <2>1. PICK j \in Jobs : Writes(j, row(j))
      BY <1>4 DEF Claims, Claimable
    <2>2. job[j] \in Row /\ job[j].attempts + 1 \in Nat /\ "running" \in Statuses
      BY DEF TypeOK, Row, Statuses, Active
    <2>3. row(j) \in Row /\ row(j).status = "running" /\ row(j).cancel = job[j].cancel
      BY <2>2 DEF Row
    <2> HIDE DEF row
    <2> QED BY <1>4, <2>1, <2>3, RowAges DEF Claims
  <1>5. CASE Registers(w, l)
    BY <1>5 DEF Registers, Ages, TypeOK, Row
  <1>6. CASE Starts(w, l) \/ FlushesLast(w, l)
    BY <1>1, <1>6, FlushAges DEF Starts, FlushesLast, Holding
  <1>7. CASE Saves(w, l)
    <2> DEFINE s == thread[t]
               status == IF s.outcome # s.status THEN s.outcome ELSE job[s.job].status
               worker == IF s.outcome = "queued" /\ s.worker # NoWorker THEN NoWorker ELSE job[s.job].worker
               row == [job[s.job] EXCEPT !.status = status, !.worker = worker]
    <2>1. s.job \in Jobs /\ s.outcome \in Verdicts /\ s.pc = "decided"
      BY <1>1, <1>7 DEF Saves, Coherent, Holding
    <2>2. job[s.job] \in Row
      BY <2>1 DEF TypeOK
    <2>3. status \in Statuses /\ worker \in Workers \cup {NoWorker}
      BY <2>1, <2>2 DEF Row, Verdicts, Statuses, Active
    <2>4. /\ status = "done" => job[s.job].status = "done" \/ s.outcome = "done"
          /\ job[s.job].status # "none" => status # "none"
      BY <2>1 DEF Verdicts, Finished
    <2>5. Writes(s.job, row) /\ UNCHANGED worked
      BY <1>7 DEF Saves
    <2>6. row \in Row /\ row.status = status /\ row.cancel = job[s.job].cancel
      <3> HIDE DEF s, status, worker
      <3> QED BY <2>2, <2>3 DEF Row
    <2>7. \A j \in Jobs : Ages(j)
      <3> HIDE DEF status, worker, row
      <3> QED BY <1>1, <2>1, <2>4, <2>5, <2>6, RowAges
    <2> QED BY <2>7
  <1> QED BY <1>2, <1>3, <1>4, <1>5, <1>6, <1>7 DEF Step

LEMMA WorkAges ==
    ASSUME TypeOK, NEW w \in Workers, NEW l \in Lanes,
           Work(w, l) \/ Reports(w, l) \/ Fails(w, l)
    PROVE  \A j \in Jobs : Ages(j)
  <1>1. CASE Completes(w, l)
    BY <1>1 DEF Completes, Ages, TypeOK
  <1>2. CASE Crashes(w, l) \/ Fails(w, l)
    BY <1>2, RowsOnlyStay DEF Crashes, Fails, RegisterFails, FlushFails, RunFails
  <1>3. CASE Reports(w, l)
    BY <1>3, ThreadPair, FlushAges DEF Reports, Holding
  <1> QED BY <1>1, <1>2, <1>3 DEF Work

LEMMA RowsAge == TypeOK /\ [Next]_vars => \A j \in Jobs : Ages(j)
  <1> SUFFICES ASSUME TypeOK, [Next]_vars PROVE \A j \in Jobs : Ages(j)
    OBVIOUS
  <1>1. CASE Next
    BY <1>1, RequestAges, StaleAges, ProcessAges, StepAges, WorkAges DEF Next
  <1>2. CASE UNCHANGED vars
    BY <1>2, RowsOnlyStay DEF vars
  <1> QED BY <1>1, <1>2

-----------------------------------------------------------------------------
(***************************************************************************)
(* A job that is done was worked through.  DoneMeansWorked alone is not    *)
(* inductive: a thread must not carry a "done" it has no right to.  It     *)
(* returned early only for a cancel that its row still asks for, or for a  *)
(* SIGTERM that its process still obeys, and run() looks at both.          *)
(***************************************************************************)
Honest(t) ==
    LET s == thread[t] IN
    /\ s.pc \in Holding => job[s.job].status # "none"
    /\ s.pc \in Holding /\ s.heard => job[s.job].cancel
    /\ s.pc \in {"ended", "flushed"} /\ s.outcome = "partial" =>
         job[s.job].cancel \/ proc[t[1]] = "stopping"
    /\ s.pc \in {"ended", "flushed"} /\ s.outcome = "complete" => worked[s.job]
    /\ s.pc = "decided" /\ s.outcome = "done" => worked[s.job]

Honesty == DoneMeansWorked /\ \A t \in Threads : Honest(t)

\* a thread that does not move stays honest, unless its process leaves "stopping"
LEMMA HonestStays ==
    ASSUME TypeOK, [Next]_vars, NEW t \in Threads, Honest(t), thread'[t] = thread[t],
           proc[t[1]] = "stopping" => proc'[t[1]] = "stopping"
    PROVE  Honest(t)'
  <1>1. thread[t].pc \in Holding => thread[t].job \in Jobs
    BY DEF TypeOK, Coherent
  <1>2. \A j \in Jobs : Ages(j)
    BY RowsAge
  <1> QED BY <1>1, <1>2 DEF Honest, Ages, Holding

\* a thread that holds nothing is honest
LEMMA HonestFree == ASSUME NEW t, thread'[t].pc \notin Holding PROVE Honest(t)'
  BY DEF Honest, Holding

\* of a lane's own steps, only the thread that takes it moves
LEMMA OthersHonest ==
    ASSUME TypeOK, Honesty, [Next]_vars, NEW t \in Threads, NEW state, Moves(t, state),
           UNCHANGED proc, Honest(t)'
    PROVE  \A u \in Threads : Honest(u)'
  <1> SUFFICES ASSUME NEW u \in Threads, u # t PROVE Honest(u)'
    OBVIOUS
  <1>1. thread'[u] = thread[u]
    BY DEF Moves, TypeOK
  <1> QED BY <1>1, HonestStays DEF Honesty

LEMMA FlushHonest ==
    ASSUME TypeOK, Honesty, [Next]_vars, NEW t \in Threads, thread[t].pc \in Holding,
           NEW pc \in {"work", "flushed"}, Flush(t, pc), pc = "flushed" => thread[t].pc = "ended"
    PROVE  \A u \in Threads : Honest(u)'
  <1> DEFINE j == thread[t].job
             state == [thread[t] EXCEPT !.pc = pc, !.heard = job[j].cancel]
  <1>1. /\ thread[t] \in ThreadState /\ j \in Jobs /\ Honest(t)
        /\ Moves(t, state) /\ UNCHANGED <<proc, worked>> /\ Ages(j)
    BY RowsAge DEF TypeOK, Coherent, Honesty, Flush
  <1>2. /\ state.pc = pc /\ state.job = j /\ state.heard = job[j].cancel
        /\ state.outcome = thread[t].outcome /\ thread'[t] = state
    BY <1>1 DEF ThreadState, Moves, TypeOK
  <1>3. Honest(t)'
    <2> HIDE DEF state
    <2> QED BY <1>1, <1>2 DEF Honest, Ages, Holding
  <1> QED BY <1>1, <1>3, OthersHonest

LEMMA HonestStep ==
    ASSUME TypeOK, Honesty, [Next]_vars, NEW w \in Workers, NEW l \in Lanes, Step(w, l)
    PROVE  \A u \in Threads : Honest(u)'
  <1> DEFINE t == <<w, l>>
  <1>1. /\ t \in Threads /\ thread[t] \in ThreadState /\ Coherent(thread[t]) /\ Honest(t)
        /\ t[1] = w
        /\ \A j \in Jobs : Ages(j)
    BY ThreadPair, RowsAge DEF TypeOK, Honesty
  <1>2. ASSUME NEW state \in ThreadState, Moves(t, state), UNCHANGED proc, state.pc \notin Holding
        PROVE  \A u \in Threads : Honest(u)'
    <2>1. thread'[t] = state
      BY <1>1, <1>2 DEF Moves, TypeOK
    <2>2. Honest(t)'
      BY <1>2, <2>1, HonestFree
    <2> QED BY <1>1, <1>2, <2>2, OthersHonest
  <1>3. IdleThread \in ThreadState /\ IdleThread.pc \notin Holding
    BY NoneTyped DEF IdleThread, Holding
  <1>4. ASSUME NEW pc \in {"idle", "housekeeping", "claiming"}, Goes(t, pc), UNCHANGED proc
        PROVE  \A u \in Threads : Honest(u)'
    <2>1. /\ [thread[t] EXCEPT !.pc = pc] \in ThreadState
          /\ [thread[t] EXCEPT !.pc = pc].pc \notin Holding
      BY <1>1 DEF ThreadState, Holding
    <2> QED BY <1>2, <1>4, <2>1 DEF Goes
  <1>5. CASE BeginsTick(w, l)
    BY <1>4, <1>5 DEF BeginsTick
  <1>6. CASE l = "maintenance" /\ RequeuesStale(w)
    BY <1>4, <1>6 DEF RequeuesStale
  <1>7. CASE FindsNothing(w, l) \/ FindsCancelled(w, l) \/ Saves(w, l)
    BY <1>2, <1>3, <1>7 DEF FindsNothing, FindsCancelled, Saves, Returns
  <1>8. CASE Claims(w, l)
    <2> DEFINE state(j) == [IdleThread EXCEPT !.pc = "claimed", !.job = j]
    <2>1. PICK j \in Jobs : job[j].status = "queued" /\ Moves(t, state(j))
      BY <1>8 DEF Claims, Claimable
    <2>2. thread'[t] = state(j)
      BY <1>1, <2>1 DEF Moves, TypeOK
    <2>3. state(j).pc = "claimed" /\ state(j).job = j /\ state(j).heard = FALSE
      BY DEF IdleThread
    <2>4. Honest(t)'
      BY <1>1, <2>1, <2>2, <2>3 DEF Honest, Ages
    <2> QED BY <1>1, <1>8, <2>1, <2>4, OthersHonest DEF Claims
  <1>9. CASE Registers(w, l)
    <2> DEFINE state == [thread[t] EXCEPT !.pc = "registered"]
    <2>1. thread'[t] = state /\ Moves(t, state)
      BY <1>1, <1>9 DEF Registers, Goes, Moves, TypeOK
    <2>2. state.pc = "registered" /\ state.job = thread[t].job /\ state.heard = thread[t].heard
      BY <1>1 DEF ThreadState
    <2>3. thread[t].pc = "claimed" /\ thread[t].job \in Jobs /\ UNCHANGED proc
      BY <1>1, <1>9 DEF Registers, Coherent, Holding
    <2>4. Honest(t)'
      <3> HIDE DEF state
      <3> QED BY <1>1, <2>1, <2>2, <2>3 DEF Honest, Ages, Holding
    <2> QED BY <1>1, <2>1, <2>3, <2>4, OthersHonest
  <1>10. CASE Starts(w, l) \/ FlushesLast(w, l)
    BY <1>1, <1>10, FlushHonest DEF Starts, FlushesLast, Holding
  <1>11. CASE StopsEarly(w, l)
    <2> DEFINE state == [thread[t] EXCEPT !.pc = "ended", !.outcome = "partial"]
    <2>1. thread'[t] = state /\ Moves(t, state)
      BY <1>1, <1>11 DEF StopsEarly, Ends, Moves, TypeOK
    <2>2. /\ state.pc = "ended" /\ state.job = thread[t].job /\ state.heard = thread[t].heard
          /\ state.outcome = "partial"
      BY <1>1 DEF ThreadState
    <2>3. /\ thread[t].pc = "work" /\ thread[t].job \in Jobs /\ UNCHANGED proc
          /\ thread[t].heard \/ proc[w] = "stopping"
      BY <1>1, <1>11 DEF StopsEarly, Coherent, Holding
    <2>4. Honest(t)'
      <3> HIDE DEF state
      <3> QED BY <1>1, <2>1, <2>2, <2>3 DEF Honest, Ages, Holding
    <2> QED BY <1>1, <2>1, <2>3, <2>4, OthersHonest
  <1>12. CASE Decides(w, l)
    <2> DEFINE s == thread[t]
               r == job[s.job]
               state == [s EXCEPT !.pc = "decided", !.outcome = Verdict(w, l, r),
                                  !.status = r.status, !.worker = r.worker]
    <2>1. thread'[t] = state /\ Moves(t, state) /\ s.pc = "flushed" /\ UNCHANGED <<job, proc, worked>>
      BY <1>1, <1>12 DEF Decides, Moves, TypeOK
    <2>2. /\ state.pc = "decided" /\ state.job = s.job /\ state.heard = s.heard
          /\ state.outcome = Verdict(w, l, r)
      BY <1>1 DEF ThreadState
    <2>3. s.job \in Jobs /\ s.outcome \in Outcomes
      BY <1>1, <2>1 DEF Coherent, Holding
    <2>4. Verdict(w, l, r) = "done" => worked[s.job]
      <3>1. ASSUME Verdict(w, l, r) = "done" PROVE s.outcome = "complete"
        BY <1>1, <2>1, <2>3, <3>1 DEF Verdict, Honest, Outcomes
      <3> QED BY <1>1, <2>1, <3>1 DEF Honest
    <2>5. Honest(t)'
      <3> HIDE DEF state
      <3> QED BY <1>1, <2>1, <2>2, <2>3, <2>4 DEF Honest, Ages, Holding
    <2> QED BY <1>1, <2>1, <2>5, OthersHonest
  <1> QED BY <1>5, <1>6, <1>7, <1>8, <1>9, <1>10, <1>11, <1>12 DEF Step

LEMMA HonestWork ==
    ASSUME TypeOK, Honesty, [Next]_vars, NEW w \in Workers, NEW l \in Lanes,
           Work(w, l) \/ Reports(w, l) \/ Fails(w, l)
    PROVE  \A u \in Threads : Honest(u)'
  <1> DEFINE t == <<w, l>>
  <1>1. /\ t \in Threads /\ thread[t] \in ThreadState /\ Coherent(thread[t]) /\ Honest(t)
        /\ \A j \in Jobs : Ages(j)
    BY ThreadPair, RowsAge DEF TypeOK, Honesty
  <1>2. ASSUME NEW outcome \in {"complete", "crash"}, Ends(t, outcome), thread[t].pc = "work", UNCHANGED proc,
               outcome = "complete" => worked'[thread[t].job]
        PROVE  \A u \in Threads : Honest(u)'
    <2> DEFINE state == [thread[t] EXCEPT !.pc = "ended", !.outcome = outcome]
    <2>1. thread'[t] = state /\ Moves(t, state)
      BY <1>1, <1>2 DEF Ends, Moves, TypeOK
    <2>2. /\ state.pc = "ended" /\ state.job = thread[t].job /\ state.heard = thread[t].heard
          /\ state.outcome = outcome
      BY <1>1 DEF ThreadState
    <2>3. Honest(t)'
      <3> HIDE DEF state
      <3> QED BY <1>1, <1>2, <2>1, <2>2 DEF Honest, Ages, Coherent, Holding
    <2> QED BY <1>1, <1>2, <2>1, <2>3, OthersHonest
  <1>3. CASE Completes(w, l)
    <2>1. worked'[thread[t].job]
      BY <1>1, <1>3 DEF Completes, TypeOK, Coherent, Holding
    <2> QED BY <1>2, <1>3, <2>1 DEF Completes
  <1>4. CASE Crashes(w, l)
    BY <1>2, <1>4 DEF Crashes
  <1>5. CASE Reports(w, l)
    BY <1>1, <1>5, FlushHonest DEF Reports, Holding
  <1>6. CASE RegisterFails(w, l) \/ RunFails(w, l)
    <2>1. Moves(t, IdleThread) /\ thread'[t] = IdleThread /\ UNCHANGED proc
      BY <1>1, <1>6 DEF RegisterFails, RunFails, Returns, Moves, TypeOK
    <2>2. Honest(t)'
      BY <2>1, HonestFree DEF IdleThread, Holding
    <2> QED BY <1>1, <2>1, <2>2, OthersHonest
  <1>7. CASE FlushFails(w, l)
    <2> DEFINE pc == IF thread[t].pc = "registered" THEN "work" ELSE "flushed"
               state == [thread[t] EXCEPT !.pc = pc]
    <2>1. thread'[t] = state /\ Moves(t, state) /\ UNCHANGED <<proc, job, worked>>
      BY <1>1, <1>7 DEF FlushFails, Goes, Moves, TypeOK
    <2>2. /\ thread[t].pc \in Holding
          /\ pc # "work" => thread[t].pc = "ended" /\ pc = "flushed"
      <3>1. thread[t].pc \in {"registered", "ended"}
        BY <1>7 DEF FlushFails
      <3> QED BY <3>1 DEF Holding
    <2>3. /\ state.pc = pc /\ state.job = thread[t].job /\ state.heard = thread[t].heard
          /\ state.outcome = thread[t].outcome
      <3> HIDE DEF pc
      <3> QED BY <1>1 DEF ThreadState
    <2>4. Honest(t)'
      <3> HIDE DEF state, pc
      <3> QED BY <1>1, <2>1, <2>2, <2>3 DEF Honest
    <2> QED BY <1>1, <2>1, <2>4, OthersHonest
  <1> QED BY <1>3, <1>4, <1>5, <1>6, <1>7 DEF Work, Fails

LEMMA HonestProcess ==
    ASSUME TypeOK, Honesty, [Next]_vars, NEW w \in Workers,
           Heartbeat(w) \/ Boots(w) \/ IsTold(w) \/ IsKilled(w) \/ Exits(w)
    PROVE  \A u \in Threads : Honest(u)'
  <1> SUFFICES ASSUME NEW u \in Threads PROVE Honest(u)'
    OBVIOUS
  <1>1. Honest(u) /\ u[1] \in Workers
    BY DEF Honesty, Threads
  <1>2. CASE Heartbeat(w)
    BY <1>1, <1>2, HonestStays DEF Heartbeat
  <1>3. CASE Boots(w) \/ IsTold(w)
    <2>1. thread'[u] = thread[u] /\ (proc[u[1]] = "stopping" => proc'[u[1]] = "stopping")
      BY <1>1, <1>3 DEF Boots, IsTold, TypeOK
    <2> QED BY <1>1, <2>1, HonestStays
  <1>4. CASE IsKilled(w) \/ Exits(w)
    <2>1. CASE u[1] = w
      <3>1. thread'[u] = IdleThread
        BY <1>4, <2>1 DEF IsKilled, Exits, Dies
      <3> QED BY <3>1, HonestFree DEF IdleThread, Holding
    <2>2. CASE u[1] # w
      <3>1. thread'[u] = thread[u] /\ proc'[u[1]] = proc[u[1]]
        BY <1>1, <1>4, <2>2 DEF IsKilled, Exits, Dies, TypeOK
      <3> QED BY <1>1, <3>1, HonestStays
    <2> QED BY <2>1, <2>2
  <1> QED BY <1>2, <1>3, <1>4

LEMMA HonestNext == TypeOK /\ Honesty /\ [Next]_vars => Honesty'
  <1> SUFFICES ASSUME TypeOK, Honesty, [Next]_vars PROVE Honesty'
    OBVIOUS
  <1>1. DoneMeansWorked'
    <2> SUFFICES ASSUME NEW j \in Jobs, job'[j].status = "done" PROVE worked'[j]
      BY DEF DoneMeansWorked
    <2>1. Ages(j)
      BY RowsAge
    <2>2. worked[j]
      BY <2>1 DEF Ages, Honesty, DoneMeansWorked, Honest
    <2> QED BY <2>1, <2>2 DEF Ages
  <1>2. ASSUME UNCHANGED <<thread, proc>> PROVE \A u \in Threads : Honest(u)'
    BY <1>2, HonestStays DEF Honesty
  <1>3. \A u \in Threads : Honest(u)'
    <2>1. ASSUME NEW a \in Admins, Request(a) PROVE UNCHANGED <<thread, proc>>
      BY <2>1 DEF Request, AsksForJob, InsertsJob, AsksToCancel, Cancels
    <2>2. ASSUME NEW j \in Jobs, BecomesStale(j) PROVE UNCHANGED <<thread, proc>>
      BY <2>2 DEF BecomesStale
    <2>3. CASE Next
      BY <1>2, <2>1, <2>2, <2>3, HonestProcess, HonestStep, HonestWork DEF Next
    <2>4. CASE UNCHANGED vars
      BY <1>2, <2>4 DEF vars
    <2> QED BY <2>3, <2>4
  <1> QED BY <1>1, <1>3 DEF Honesty

LEMMA HonestInit == Init => Honesty
  BY DEF Init, Honesty, DoneMeansWorked, Honest, NoRow, IdleThread, Holding

\* A job is only said to be done when some worker went through all of its work, in
\* whatever order workers, admins and housekeeping wrote its row, zombies included.
THEOREM DoneWasWorked == Spec => []DoneMeansWorked
  <1>1. Honesty => DoneMeansWorked
    BY DEF Honesty
  <1> QED BY <1>1, HonestInit, HonestNext, TypeCorrect, PTL DEF Spec

-----------------------------------------------------------------------------
(***************************************************************************)
(* One active job per kind, with one request at a time.  Rows only become  *)
(* active when they are inserted: no thread decided to queue its job again,*)
(* as no worker is told to stop.  (A SIGTERM brings back the row of a job  *)
(* that was cancelled meanwhile, next to the one that replaced it.)        *)
(***************************************************************************)
NoRequeue ==
    /\ \A w \in Workers : proc[w] # "stopping"
    /\ \A t \in Threads : thread[t].pc = "decided" => thread[t].outcome \in Finished

NotMore(j) == job'[j].status \in Active => job[j].status \in Active /\ job'[j].kind = job[j].kind

LEMMA RequeueMoves ==
    ASSUME TypeOK, NoRequeue, NEW t \in Threads, NEW state, Moves(t, state), UNCHANGED proc,
           state.pc = "decided" => state.outcome \in Finished
    PROVE  NoRequeue'
  BY DEF NoRequeue, Moves, TypeOK

LEMMA NoRequeueNext ==
    ASSUME "term" \notin Faults, TypeOK, NoRequeue, [Next]_vars
    PROVE  NoRequeue'
  <1>1. ASSUME UNCHANGED <<thread, proc>> PROVE NoRequeue'
    BY <1>1 DEF NoRequeue
  <1>2. ASSUME NEW a \in Admins, Request(a) PROVE NoRequeue'
    BY <1>1, <1>2 DEF Request, AsksForJob, InsertsJob, AsksToCancel, Cancels
  <1>3. ASSUME NEW j \in Jobs, BecomesStale(j) PROVE NoRequeue'
    BY <1>1, <1>3 DEF BecomesStale
  <1>4. ASSUME NEW w \in Workers, Heartbeat(w) PROVE NoRequeue'
    BY <1>1, <1>4 DEF Heartbeat
  <1>5. ASSUME NEW w \in Workers, Boots(w) \/ IsTold(w) \/ IsKilled(w) \/ Exits(w) PROVE NoRequeue'
    <2>1. CASE Boots(w)
      BY <2>1 DEF Boots, NoRequeue, TypeOK
    <2>2. ~IsTold(w)
      BY DEF IsTold, Fault
    <2>3. CASE IsKilled(w) \/ Exits(w)
      <3>1. proc' = [proc EXCEPT ![w] = "down"]
        BY <2>3 DEF IsKilled, Exits, Dies
      <3>2. \A v \in Workers : proc'[v] # "stopping"
        BY <3>1 DEF NoRequeue, TypeOK
      <3>3. \A t \in Threads : thread'[t] = thread[t] \/ thread'[t] = IdleThread
        BY <2>3 DEF IsKilled, Exits, Dies, TypeOK
      <3>4. IdleThread.pc = "idle"
        BY DEF IdleThread
      <3>5. \A t \in Threads : thread'[t].pc = "decided" => thread'[t].outcome \in Finished
        BY <3>3, <3>4 DEF NoRequeue
      <3> QED BY <3>2, <3>5 DEF NoRequeue
    <2> QED BY <1>5, <2>1, <2>2, <2>3
  <1>6. ASSUME NEW w \in Workers, NEW l \in Lanes, Step(w, l) \/ Work(w, l) \/ Reports(w, l) \/ Fails(w, l)
        PROVE  NoRequeue'
    <2>1. PICK t \in Threads : t = <<w, l>>
      BY ThreadPair
    <2>2. thread[t] \in ThreadState /\ proc[w] # "stopping"
      BY <1>6 DEF TypeOK, NoRequeue
    <2>3. ASSUME NEW pc, pc # "decided", Goes(t, pc), UNCHANGED proc PROVE NoRequeue'
      <3>1. [thread[t] EXCEPT !.pc = pc].pc = pc
        BY <2>2 DEF ThreadState
      <3> QED BY <2>3, <3>1, RequeueMoves DEF Goes
    <2>4. ASSUME Returns(t), UNCHANGED proc PROVE NoRequeue'
      <3>1. IdleThread.pc = "idle"
        BY DEF IdleThread
      <3> QED BY <2>4, <3>1, RequeueMoves DEF Returns
    <2>5. ASSUME NEW pc, pc # "decided", Flush(t, pc) PROVE NoRequeue'
      <3>1. PICK state : state = [thread[t] EXCEPT !.pc = pc, !.heard = job[thread[t].job].cancel]
        OBVIOUS
      <3>2. state.pc = pc
        BY <2>2, <3>1 DEF ThreadState
      <3> QED BY <2>5, <3>1, <3>2, RequeueMoves DEF Flush
    <2>6. ASSUME NEW outcome, Ends(t, outcome), UNCHANGED proc PROVE NoRequeue'
      <3>1. PICK state : state = [thread[t] EXCEPT !.pc = "ended", !.outcome = outcome]
        OBVIOUS
      <3>2. state.pc = "ended"
        BY <2>2, <3>1 DEF ThreadState
      <3> QED BY <2>6, <3>1, <3>2, RequeueMoves DEF Ends
    <2>7. CASE BeginsTick(w, l)
      <3>1. PICK pc : pc = IF l = "maintenance" THEN "housekeeping" ELSE "claiming"
        OBVIOUS
      <3>2. pc # "decided"
        BY <3>1
      <3> QED BY <2>1, <2>3, <2>7, <3>1, <3>2 DEF BeginsTick
    <2>8. CASE l = "maintenance" /\ RequeuesStale(w)
      BY <2>1, <2>3, <2>8 DEF RequeuesStale
    <2>9. CASE Claims(w, l)
      <3>1. PICK j \in Jobs : Moves(t, [IdleThread EXCEPT !.pc = "claimed", !.job = j])
        BY <2>1, <2>9 DEF Claims, Claimable
      <3>2. PICK state : state = [IdleThread EXCEPT !.pc = "claimed", !.job = j]
        OBVIOUS
      <3>3. state.pc = "claimed"
        BY <3>2 DEF IdleThread
      <3> QED BY <2>9, <3>1, <3>2, <3>3, RequeueMoves DEF Claims
    <2>10. CASE FindsNothing(w, l) \/ FindsCancelled(w, l) \/ Saves(w, l) \/ RegisterFails(w, l) \/ RunFails(w, l)
      BY <2>1, <2>4, <2>10 DEF FindsNothing, FindsCancelled, Saves, RegisterFails, RunFails
    <2>11. CASE Registers(w, l)
      BY <2>1, <2>3, <2>11 DEF Registers
    <2>12. CASE Starts(w, l) \/ FlushesLast(w, l) \/ Reports(w, l)
      BY <2>1, <2>5, <2>12 DEF Starts, FlushesLast, Reports
    <2>13. CASE StopsEarly(w, l) \/ Completes(w, l) \/ Crashes(w, l)
      BY <2>1, <2>6, <2>13 DEF StopsEarly, Completes, Crashes
    <2>14. CASE FlushFails(w, l)
      <3>1. PICK pc : pc = IF thread[w, l].pc = "registered" THEN "work" ELSE "flushed"
        OBVIOUS
      <3>2. pc # "decided"
        BY <3>1
      <3> QED BY <2>1, <2>3, <2>14, <3>1, <3>2 DEF FlushFails
    <2>15. CASE Decides(w, l)
      <3>1. PICK r : r = job[thread[t].job]
        OBVIOUS
      <3>2. PICK v : v = Verdict(w, l, r)
        OBVIOUS
      <3>3. v \in Finished
        BY <2>2, <3>2 DEF Verdict, Finished
      <3>4. PICK state : state = [thread[t] EXCEPT !.pc = "decided", !.outcome = v,
                                                   !.status = r.status, !.worker = r.worker]
        OBVIOUS
      <3>5. state.outcome = v
        BY <2>2, <3>4 DEF ThreadState
      <3> QED BY <2>1, <2>15, <3>1, <3>2, <3>3, <3>4, <3>5, RequeueMoves DEF Decides
    <2> QED BY <1>6, <2>7, <2>8, <2>9, <2>10, <2>11, <2>12, <2>13, <2>14, <2>15 DEF Step, Work, Fails
  <1>7. CASE UNCHANGED vars
    BY <1>1, <1>7 DEF vars
  <1> QED BY <1>2, <1>3, <1>4, <1>5, <1>6, <1>7 DEF Next

\* one row is written, and does not become active
LEMMA RowNotMore ==
    ASSUME TypeOK, NEW i \in Jobs, NEW row, Writes(i, row), row.kind = job[i].kind,
           row.status \in Active => job[i].status \in Active
    PROVE  \A j \in Jobs : NotMore(j)
  <1>1. \A j \in Jobs : job'[j] = IF j = i THEN row ELSE job[j]
    BY DEF Writes, TypeOK
  <1> QED BY <1>1 DEF NotMore

LEMMA FlushNotMore ==
    ASSUME TypeOK, NEW t \in Threads, thread[t].pc \in Holding, NEW pc, Flush(t, pc)
    PROVE  \A j \in Jobs : NotMore(j)
  <1>1. PICK i : i = thread[t].job
    OBVIOUS
  <1>2. i \in Jobs /\ job[i] \in Row
    BY <1>1 DEF TypeOK, Coherent
  <1>3. PICK row : row = [job[i] EXCEPT !.fresh = TRUE]
    OBVIOUS
  <1>4. row.status = job[i].status /\ row.kind = job[i].kind
    BY <1>2, <1>3 DEF Row
  <1>5. Writes(i, row)
    BY <1>1, <1>3 DEF Flush
  <1> QED BY <1>2, <1>4, <1>5, RowNotMore

LEMMA SameNotMore == UNCHANGED job => \A j \in Jobs : NotMore(j)
  BY DEF NotMore

\* Only requests add an active job.
LEMMA OnlyInsertsAdd ==
    ASSUME TypeOK, NoRequeue, [Next]_vars, ~ \E a \in Admins : InsertsJob(a)
    PROVE  \A j \in Jobs : NotMore(j)
  <1>1. ASSUME NEW a \in Admins, Request(a) PROVE \A j \in Jobs : NotMore(j)
    <2>1. CASE Cancels(a)
      <3>1. PICK r : r = admin[a]
        OBVIOUS
      <3>2. r.job \in Jobs /\ job[r.job] \in Row
        BY <2>1, <3>1 DEF Cancels, TypeOK, Meant
      <3>3. PICK status : status = IF r.seen = "queued" \/ r.force THEN "cancelled" ELSE job[r.job].status
        OBVIOUS
      <3>4. PICK row : row = [job[r.job] EXCEPT !.status = status, !.cancel = job[r.job].cancel \/ r.seen = "running"]
        OBVIOUS
      <3>5. row.status = status /\ row.kind = job[r.job].kind
        BY <3>2, <3>4 DEF Row
      <3>6. status \in Active => job[r.job].status \in Active
        BY <3>3 DEF Active
      <3>7. Writes(r.job, row)
        BY <2>1, <3>1, <3>3, <3>4 DEF Cancels
      <3> QED BY <3>2, <3>5, <3>6, <3>7, RowNotMore
    <2>2. ASSUME NEW k \in Kinds, AsksForJob(a, k) PROVE UNCHANGED job
      BY <2>2 DEF AsksForJob
    <2>3. ASSUME NEW j \in Jobs, NEW force \in Forces, AsksToCancel(a, j, force) PROVE UNCHANGED job
      BY <2>3 DEF AsksToCancel
    <2> QED BY <1>1, <2>1, <2>2, <2>3, SameNotMore DEF Request
  <1>2. ASSUME NEW i \in Jobs, BecomesStale(i) PROVE \A j \in Jobs : NotMore(j)
    <2>1. PICK row : row = [job[i] EXCEPT !.fresh = FALSE]
      OBVIOUS
    <2>2. row.status = job[i].status /\ row.kind = job[i].kind
      BY <2>1 DEF TypeOK, Row
    <2> QED BY <1>2, <2>1, <2>2, RowNotMore DEF BecomesStale
  <1>3. ASSUME NEW w \in Workers, Heartbeat(w) \/ Boots(w) \/ IsTold(w) \/ IsKilled(w) \/ Exits(w)
        PROVE  \A j \in Jobs : NotMore(j)
    <2>1. CASE Heartbeat(w)
      BY <2>1 DEF Heartbeat, NotMore, TypeOK, Row
    <2> QED BY <1>3, <2>1, SameNotMore DEF Boots, IsTold, IsKilled, Exits, Dies
  <1>4. ASSUME NEW w \in Workers, NEW l \in Lanes, Step(w, l) PROVE \A j \in Jobs : NotMore(j)
    <2>1. PICK t \in Threads : t = <<w, l>>
      BY ThreadPair
    <2>2. CASE BeginsTick(w, l) \/ FindsNothing(w, l) \/ StopsEarly(w, l) \/ FindsCancelled(w, l) \/ Decides(w, l)
      BY <2>2, SameNotMore DEF BeginsTick, FindsNothing, StopsEarly, FindsCancelled, Decides
    <2>3. CASE l = "maintenance" /\ RequeuesStale(w)
      <3>1. \A r \in Row : Stale(r) => r.status \in Active /\ Requeued(r).kind = r.kind
        BY DEF Stale, Active, Requeued, Row
      <3>2. \A j \in Jobs : job[j] \in Row /\ job'[j] = IF Stale(job[j]) THEN Requeued(job[j]) ELSE job[j]
        BY <2>3 DEF RequeuesStale, TypeOK
      <3> QED BY <3>1, <3>2 DEF NotMore
    <2>4. CASE Claims(w, l)
      <3>1. PICK i \in Claimable(l) :
              Writes(i, [job[i] EXCEPT !.status = "running", !.worker = w, !.fresh = TRUE, !.attempts = @ + 1])
        BY <2>4 DEF Claims
      <3>2. i \in Jobs /\ job[i].status \in Active /\ job[i] \in Row
        BY DEF Claimable, Active, TypeOK
      <3>3. PICK row : row = [job[i] EXCEPT !.status = "running", !.worker = w, !.fresh = TRUE,
                                            !.attempts = job[i].attempts + 1]
        OBVIOUS
      <3>4. row.kind = job[i].kind
        BY <3>2, <3>3 DEF Row
      <3> QED BY <3>1, <3>2, <3>3, <3>4, RowNotMore
    <2>5. CASE Registers(w, l)
      BY <2>5 DEF Registers, NotMore, TypeOK, Row
    <2>6. CASE Starts(w, l) \/ FlushesLast(w, l)
      BY <2>1, <2>6, FlushNotMore DEF Starts, FlushesLast, Holding
    <2>7. CASE Saves(w, l)
      <3>1. PICK s : s = thread[t]
        OBVIOUS
      <3>2. s.job \in Jobs /\ job[s.job] \in Row /\ s.outcome \in Finished
        BY <2>1, <2>7, <3>1 DEF Saves, Coherent, Holding, TypeOK, NoRequeue
      <3>3. PICK status : status = IF s.outcome # s.status THEN s.outcome ELSE job[s.job].status
        OBVIOUS
      <3>4. PICK worker : worker = IF s.outcome = "queued" /\ s.worker # NoWorker THEN NoWorker ELSE job[s.job].worker
        OBVIOUS
      <3>5. PICK row : row = [job[s.job] EXCEPT !.status = status, !.worker = worker]
        OBVIOUS
      <3>6. row.status = status /\ row.kind = job[s.job].kind
        BY <3>2, <3>5 DEF Row
      <3>7. status \in Active => job[s.job].status \in Active
        BY <3>2, <3>3 DEF Finished, Active
      <3>8. Writes(s.job, row)
        BY <2>1, <2>7, <3>1, <3>3, <3>4, <3>5 DEF Saves
      <3> QED BY <3>2, <3>6, <3>7, <3>8, RowNotMore
    <2> QED BY <1>4, <2>2, <2>3, <2>4, <2>5, <2>6, <2>7 DEF Step
  <1>5. ASSUME NEW w \in Workers, NEW l \in Lanes, Work(w, l) \/ Reports(w, l) \/ Fails(w, l)
        PROVE  \A j \in Jobs : NotMore(j)
    <2>1. CASE Reports(w, l)
      BY <2>1, ThreadPair, FlushNotMore DEF Reports, Holding
    <2>2. CASE Work(w, l) \/ Fails(w, l)
      BY <2>2, SameNotMore DEF Work, Completes, Crashes, Fails, RegisterFails, FlushFails, RunFails
    <2> QED BY <1>5, <2>1, <2>2
  <1>6. CASE UNCHANGED vars
    BY <1>6, SameNotMore DEF vars
  <1> QED BY <1>1, <1>2, <1>3, <1>4, <1>5, <1>6 DEF Next

\* a request that found no active job of its kind: none came since
Checked ==
    \A a \in Admins : admin[a].pc = "creating" /\ admin[a].kind \notin Concurrent
                        => ActiveJobs(admin[a].kind) = {}

LEMMA OneActiveNext ==
    ASSUME \A a, b \in Admins : a = b,
           TypeOK, NoRequeue, OneActivePerKind, Checked, [Next]_vars
    PROVE  OneActivePerKind' /\ Checked'
  <1>1. ASSUME NEW a \in Admins, InsertsJob(a) PROVE OneActivePerKind' /\ Checked'
    <2>1. PICK i \in NewIds : Writes(i, [NoRow EXCEPT !.kind = admin[a].kind, !.status = "queued"])
      BY <1>1 DEF InsertsJob
    <2>2. i \in Jobs /\ job[i].status = "none" /\ admin[a].pc = "creating"
      BY <1>1 DEF NewIds, InsertsJob
    <2>3. PICK row : row = [NoRow EXCEPT !.kind = admin[a].kind, !.status = "queued"]
      OBVIOUS
    <2>4. row.kind = admin[a].kind
      BY <2>3 DEF NoRow
    <2>5. \A j \in Jobs : job'[j] = IF j = i THEN row ELSE job[j]
      BY <2>1, <2>3 DEF Writes, TypeOK
    <2>6. PICK kind : kind = admin[a].kind
      OBVIOUS
    <2>7. ASSUME NEW k PROVE {j \in Jobs : job'[j].kind = k /\ job'[j].status \in Active}
                             \subseteq ActiveJobs(k) \cup (IF k = kind THEN {i} ELSE {})
      BY <2>4, <2>5, <2>6 DEF ActiveJobs
    <2>8. kind \notin Concurrent => ActiveJobs(kind) = {}
      BY <2>2, <2>6 DEF Checked
    <2>9. ASSUME NEW k \in Kinds \ Concurrent,
                 NEW x \in {j \in Jobs : job'[j].kind = k /\ job'[j].status \in Active},
                 NEW y \in {j \in Jobs : job'[j].kind = k /\ job'[j].status \in Active}
          PROVE  x = y
      <3>1. CASE k = kind
        BY <2>7, <2>8, <3>1
      <3>2. CASE k # kind
        <4>1. x \in ActiveJobs(k) /\ y \in ActiveJobs(k)
          BY <2>7, <3>2
        <4> QED BY <4>1 DEF OneActivePerKind
      <3> QED BY <3>1, <3>2
    <2>10. OneActivePerKind'
      BY <2>9 DEF OneActivePerKind, ActiveJobs
    <2>11. \A b \in Admins : admin'[b].pc = "idle"
      BY <1>1 DEF InsertsJob, TypeOK, IdleAdmin
    <2> QED BY <2>10, <2>11 DEF Checked
  <1>2. CASE ~ \E a \in Admins : InsertsJob(a)
    <2>1. \A j \in Jobs : NotMore(j)
      BY <1>2, OnlyInsertsAdd
    <2>2. ASSUME NEW k PROVE {j \in Jobs : job'[j].kind = k /\ job'[j].status \in Active} \subseteq ActiveJobs(k)
      BY <2>1 DEF NotMore, ActiveJobs
    <2>3. OneActivePerKind'
      BY <2>2 DEF OneActivePerKind, ActiveJobs
    <2>4. ASSUME NEW a \in Admins, admin'[a].pc = "creating", admin'[a].kind \notin Concurrent
          PROVE  ActiveJobs(admin'[a].kind) = {}
      <3>1. ASSUME NEW b \in Admins, Request(b) PROVE ActiveJobs(admin'[a].kind) = {}
        <4>1. a = b
          OBVIOUS
        <4>2. CASE Cancels(b)
          BY <2>4, <4>1, <4>2 DEF Cancels, TypeOK, IdleAdmin
        <4>3. ASSUME NEW j \in Jobs, NEW force \in Forces, AsksToCancel(b, j, force) PROVE FALSE
          BY <2>4, <4>1, <4>3 DEF AsksToCancel, TypeOK, IdleAdmin
        <4>4. ASSUME NEW k \in Kinds, AsksForJob(b, k) PROVE ActiveJobs(admin'[a].kind) = {}
          <5>1. admin'[a] = [IdleAdmin EXCEPT !.pc = "creating", !.kind = k]
            BY <4>1, <4>4 DEF AsksForJob, TypeOK
          <5>2. admin'[a].kind = k
            BY <5>1 DEF IdleAdmin
          <5> QED BY <2>4, <4>4, <5>2 DEF AsksForJob
        <4> QED BY <1>2, <3>1, <4>2, <4>3, <4>4 DEF Request
      <3>2. ASSUME UNCHANGED admin PROVE ActiveJobs(admin'[a].kind) = {}
        BY <2>4, <3>2 DEF Checked
      <3>3. ASSUME NEW j \in Jobs, BecomesStale(j) PROVE UNCHANGED admin
        BY <3>3 DEF BecomesStale
      <3>4. ASSUME NEW w \in Workers, Heartbeat(w) \/ Boots(w) \/ IsTold(w) \/ IsKilled(w) \/ Exits(w)
            PROVE  UNCHANGED admin
        BY <3>4 DEF Heartbeat, Boots, IsTold, IsKilled, Exits, Dies
      <3>5. ASSUME NEW w \in Workers, NEW l \in Lanes, Step(w, l) PROVE UNCHANGED admin
        BY <3>5 DEF Step, BeginsTick, RequeuesStale, Claims, FindsNothing, Registers, Starts, StopsEarly,
                    FlushesLast, Flush, FindsCancelled, Decides, Saves
      <3>6. ASSUME NEW w \in Workers, NEW l \in Lanes, Work(w, l) \/ Reports(w, l) \/ Fails(w, l)
            PROVE  UNCHANGED admin
        BY <3>6 DEF Work, Completes, Crashes, Reports, Flush, Fails, RegisterFails, FlushFails, RunFails
      <3>7. CASE UNCHANGED vars
        BY <3>2, <3>7 DEF vars
      <3> QED BY <3>1, <3>2, <3>3, <3>4, <3>5, <3>6, <3>7 DEF Next
    <2>5. ASSUME NEW a \in Admins, admin'[a].pc = "creating", admin'[a].kind \notin Concurrent
          PROVE  ActiveJobs(admin[a].kind)' = {}
      <3>1. PICK k : k = admin'[a].kind
        OBVIOUS
      <3>2. {j \in Jobs : job'[j].kind = k /\ job'[j].status \in Active} = {}
        BY <2>2, <2>4, <2>5, <3>1
      <3> QED BY <3>1, <3>2 DEF ActiveJobs
    <2>6. Checked'
      BY <2>5 DEF Checked
    <2> QED BY <2>3, <2>6
  <1> QED BY <1>1, <1>2

\* "Jobs of the same kind would do the same work twice" (queue.create): while one request is
\* served at a time and no worker is told to stop, whatever workers, cancels, housekeeping and
\* other failures do, a kind has one active job, unless it may have several.
THEOREM OneAtATime ==
    ASSUME \A a, b \in Admins : a = b, "term" \notin Faults
    PROVE  Spec => []OneActivePerKind
  <1>1. Init => NoRequeue /\ OneActivePerKind /\ Checked
    BY DEF Init, NoRequeue, OneActivePerKind, ActiveJobs, Checked, NoRow, IdleThread, IdleAdmin, Active
  <1>2. TypeOK /\ NoRequeue /\ OneActivePerKind /\ Checked /\ [Next]_vars
        => (NoRequeue /\ OneActivePerKind /\ Checked)'
    BY NoRequeueNext, OneActiveNext
  <1> QED BY <1>1, <1>2, TypeCorrect, PTL DEF Spec

-----------------------------------------------------------------------------
(***************************************************************************)
(* As long as heartbeats get through, a job belongs to the one thread that *)
(* holds it: nobody runs it twice, it stays over once it ended, and rows,  *)
(* requests and workers together keep the promise of JobLifecycle.         *)
(***************************************************************************)

\* no live worker stays silent for STALE_AFTER, told to stop or not
HeartbeatsGetThrough == Faults \cap {"silence", "slow"} = {}

(***************************************************************************)
(* OneRunner is not inductive alone: what keeps a second worker away is    *)
(* that the row of a held job says it runs, with a fresh heartbeat, under  *)
(* the name of the worker whose thread holds it.  The thread of a job is   *)
(* then given by the row: the worker it names, the lane of its kind.       *)
(***************************************************************************)
Owned(t) ==
    LET s == thread[t] IN
    s.pc \in Holding =>
        /\ Alive(t[1])
        /\ job[s.job].worker = t[1]
        /\ LaneOf(job[s.job].kind) = t[2]
        /\ job[s.job].status \in {"running", "cancelled"}
        /\ job[s.job].status = "running" => job[s.job].fresh

Ownership == \A t \in Threads : Owned(t)

LEMMA OwnersAreAlone == Ownership => OneRunner
  BY DEF Ownership, Owned, OneRunner, Holds, Threads

\* what a step may do to the row of a job that somebody else holds
Spares(j) ==
    /\ job'[j].worker = job[j].worker
    /\ job'[j].kind = job[j].kind
    /\ job'[j].status \in {job[j].status, "cancelled"}
    /\ job[j].fresh => job'[j].fresh

LEMMA OwnedStays ==
    ASSUME NEW t \in Threads, Owned(t), thread'[t] = thread[t], Alive(t[1]) => Alive(t[1])',
           thread[t].pc \in Holding => Spares(thread[t].job)
    PROVE  Owned(t)'
  BY DEF Owned, Spares, Holding

LEMMA OwnedFree == ASSUME NEW t, thread'[t].pc \notin Holding PROVE Owned(t)'
  BY DEF Owned, Holding

LEMMA RowSpared ==
    ASSUME TypeOK, NEW i \in Jobs, NEW row, Writes(i, row),
           row.worker = job[i].worker, row.kind = job[i].kind,
           row.status \in {job[i].status, "cancelled"}, job[i].fresh => row.fresh
    PROVE  \A j \in Jobs : Spares(j)
  <1> SUFFICES ASSUME NEW j \in Jobs PROVE Spares(j)
    OBVIOUS
  <1>1. job'[j] = IF j = i THEN row ELSE job[j]
    BY DEF Writes, TypeOK
  <1> QED BY <1>1 DEF Spares

LEMMA RowsSpared == UNCHANGED job => \A j \in Jobs : Spares(j)
  BY DEF Spares

\* a step that leaves threads and processes alone, and spares the rows of held jobs
LEMMA OwnersStay ==
    ASSUME TypeOK, Ownership, UNCHANGED <<thread, proc>>,
           \A t \in Threads : thread[t].pc \in Holding => Spares(thread[t].job)
    PROVE  Ownership'
  <1> SUFFICES ASSUME NEW t \in Threads PROVE Owned(t)'
    BY DEF Ownership
  <1> QED BY OwnedStays DEF Ownership, Alive

LEMMA RequestOwners == ASSUME TypeOK, Ownership, NEW a \in Admins, Request(a) PROVE Ownership'
  <1>1. \A t \in Threads : thread[t].pc \in Holding => thread[t].job \in Jobs
    BY DEF TypeOK, Coherent
  <1>2. ASSUME NEW k \in Kinds, AsksForJob(a, k) PROVE Ownership'
    BY <1>1, <1>2, RowsSpared, OwnersStay DEF AsksForJob
  <1>3. ASSUME InsertsJob(a) PROVE Ownership'
    <2>1. PICK i \in Jobs : /\ job[i].status = "none"
                            /\ Writes(i, [NoRow EXCEPT !.kind = admin[a].kind, !.status = "queued"])
      BY <1>3 DEF InsertsJob, NewIds
    <2>2. \A t \in Threads : thread[t].pc \in Holding => thread[t].job # i
      BY <2>1 DEF Ownership, Owned
    <2>3. \A j \in Jobs : j # i => job'[j] = job[j]
      BY <2>1 DEF Writes, TypeOK
    <2> QED BY <1>1, <1>3, <2>2, <2>3, OwnersStay DEF InsertsJob, Spares
  <1>4. ASSUME NEW j \in Jobs, NEW force \in Forces, AsksToCancel(a, j, force) PROVE Ownership'
    BY <1>1, <1>4, RowsSpared, OwnersStay DEF AsksToCancel
  <1>5. ASSUME Cancels(a) PROVE Ownership'
    <2> DEFINE r == admin[a]
               cancel == job[r.job].cancel \/ r.seen = "running"
               status == IF r.seen = "queued" \/ r.force THEN "cancelled" ELSE job[r.job].status
               row == [job[r.job] EXCEPT !.status = status, !.cancel = cancel]
    <2>1. r.job \in Jobs /\ Writes(r.job, row) /\ UNCHANGED <<thread, proc>> /\ job[r.job] \in Row
      BY <1>5 DEF Cancels, TypeOK, Meant
    <2>2. status \in {job[r.job].status, "cancelled"}
      OBVIOUS
    <2>3. /\ row.worker = job[r.job].worker /\ row.kind = job[r.job].kind
          /\ row.status = status /\ row.fresh = job[r.job].fresh
      <3> HIDE DEF r, status, cancel
      <3> QED BY <2>1 DEF Row
    <2>4. \A j \in Jobs : Spares(j)
      <3> HIDE DEF r, status, cancel, row
      <3> QED BY <2>1, <2>2, <2>3, RowSpared
    <2> QED BY <1>1, <2>1, <2>4, OwnersStay
  <1> QED BY <1>2, <1>3, <1>4, <1>5 DEF Request

\* the row of a held job does not grow old: its worker's heartbeat thread renews it, or
\* after SIGTERM the reports of its run
LEMMA StaleOwners ==
    ASSUME HeartbeatsGetThrough, TypeOK, Ownership, NEW j \in Jobs, BecomesStale(j)
    PROVE  Ownership'
  <1>1. ASSUME NEW t \in Threads, thread[t].pc \in Holding PROVE thread[t].job \in Jobs \ {j}
    <2>1. thread[t].job \in Jobs
      BY <1>1 DEF TypeOK, Coherent
    <2>2. SUFFICES ASSUME thread[t].job = j PROVE FALSE
      BY <2>1
    <2>3. PICK w \in Workers, l \in Lanes : t = <<w, l>>
      BY DEF Threads
    <2>4. Kept(j)
      BY <1>1, <2>2, <2>3 DEF Ownership, Owned, Kept, Holds, HeartbeatsGetThrough
    <2> QED BY <2>4 DEF BecomesStale, Fault, HeartbeatsGetThrough
  <1>2. \A i \in Jobs \ {j} : job'[i] = job[i]
    BY DEF BecomesStale, Writes, TypeOK
  <1> QED BY <1>1, <1>2, OwnersStay DEF BecomesStale, Spares

LEMMA ProcessOwners ==
    ASSUME TypeOK, Ownership, NEW w \in Workers,
           Heartbeat(w) \/ Boots(w) \/ IsTold(w) \/ IsKilled(w) \/ Exits(w)
    PROVE  Ownership'
  <1>1. \A t \in Threads : thread[t].pc \in Holding => thread[t].job \in Jobs
    BY DEF TypeOK, Coherent
  <1>2. CASE Heartbeat(w)
    <2>1. \A j \in Jobs : Spares(j)
      BY <1>2 DEF Heartbeat, Spares, TypeOK, Row
    <2> QED BY <1>1, <1>2, <2>1, OwnersStay DEF Heartbeat
  <1>3. CASE Boots(w) \/ IsTold(w)
    <2> SUFFICES ASSUME NEW t \in Threads PROVE Owned(t)'
      BY DEF Ownership
    <2>1. t[1] \in Workers /\ Owned(t) /\ (thread[t].pc \in Holding => Spares(thread[t].job))
      BY <1>1, <1>3, RowsSpared DEF Ownership, Threads, Boots, IsTold
    <2>2. thread'[t] = thread[t] /\ (Alive(t[1]) => Alive(t[1])')
      BY <1>3, <2>1 DEF Boots, IsTold, Alive, TypeOK
    <2> QED BY <2>1, <2>2, OwnedStays
  <1>4. CASE IsKilled(w) \/ Exits(w)
    <2> SUFFICES ASSUME NEW t \in Threads PROVE Owned(t)'
      BY DEF Ownership
    <2>1. Dies(w)
      BY <1>4 DEF IsKilled, Exits
    <2>2. CASE t[1] = w
      <3>1. thread'[t] = IdleThread
        BY <2>1, <2>2 DEF Dies
      <3> QED BY <3>1, OwnedFree DEF IdleThread, Holding
    <2>3. CASE t[1] # w
      <3>1. /\ thread'[t] = thread[t] /\ proc'[t[1]] = proc[t[1]] /\ Owned(t)
            /\ thread[t].pc \in Holding => Spares(thread[t].job)
        BY <1>1, <2>1, <2>3, RowsSpared DEF Dies, Threads, TypeOK, Ownership
      <3> QED BY <3>1, OwnedStays DEF Alive
    <2> QED BY <2>2, <2>3
  <1> QED BY <1>2, <1>3, <1>4

\* a lane's own step: only its thread moves, and the rows of the others' jobs are spared
LEMMA OthersOwn ==
    ASSUME TypeOK, Ownership, NEW t \in Threads, NEW state, Moves(t, state), UNCHANGED proc, Owned(t)',
           \A u \in Threads \ {t} : thread[u].pc \in Holding => Spares(thread[u].job)
    PROVE  Ownership'
  <1> SUFFICES ASSUME NEW u \in Threads, u # t PROVE Owned(u)'
    BY DEF Ownership
  <1>1. thread'[u] = thread[u] /\ Owned(u)
    BY DEF Moves, TypeOK, Ownership
  <1> QED BY <1>1, OwnedStays DEF Alive

\* the thread that holds a job goes on with it
LEMMA OwnerGoesOn ==
    ASSUME TypeOK, Ownership, NEW t \in Threads, thread[t].pc \in Holding, UNCHANGED proc,
           NEW state, Moves(t, state), state.job = thread[t].job, \A j \in Jobs : Spares(j)
    PROVE  Ownership'
  <1>1. \A u \in Threads : thread[u].pc \in Holding => thread[u].job \in Jobs
    BY DEF TypeOK, Coherent
  <1>2. thread'[t] = state
    BY DEF Moves, TypeOK
  <1>3. Owned(t)'
    BY <1>1, <1>2 DEF Ownership, Owned, Spares, Alive
  <1> QED BY <1>1, <1>3, OthersOwn

LEMMA FlushOwners ==
    ASSUME TypeOK, Ownership, NEW t \in Threads, thread[t].pc \in Holding, NEW pc, Flush(t, pc)
    PROVE  Ownership'
  <1> DEFINE j == thread[t].job
             row == [job[j] EXCEPT !.fresh = TRUE]
             state == [thread[t] EXCEPT !.pc = pc, !.heard = job[j].cancel]
  <1>1. thread[t] \in ThreadState /\ j \in Jobs /\ job[j] \in Row
    BY DEF TypeOK, Coherent
  <1>2. /\ row.worker = job[j].worker /\ row.kind = job[j].kind /\ row.status = job[j].status /\ row.fresh
        /\ state.job = j
    BY <1>1 DEF Row, ThreadState
  <1>3. Writes(j, row) /\ Moves(t, state) /\ UNCHANGED proc
    BY DEF Flush
  <1>4. \A i \in Jobs : Spares(i)
    <2> HIDE DEF j, row, state
    <2> QED BY <1>1, <1>2, <1>3, RowSpared
  <1> HIDE DEF row, state
  <1> QED BY <1>2, <1>3, <1>4, OwnerGoesOn

LEMMA StepOwners ==
    ASSUME TypeOK, Ownership, NEW w \in Workers, NEW l \in Lanes, Step(w, l)
    PROVE  Ownership'
  <1> DEFINE t == <<w, l>>
  <1>1. /\ t \in Threads /\ thread[t] \in ThreadState /\ Coherent(thread[t]) /\ Owned(t)
        /\ \A u \in Threads : thread[u].pc \in Holding => thread[u].job \in Jobs /\ Owned(u)
        /\ t[1] = w /\ t[2] = l
    BY ThreadPair DEF TypeOK, Ownership, Coherent
  <1>2. ASSUME NEW state, Moves(t, state), state.pc \notin Holding, UNCHANGED proc,
               \A u \in Threads \ {t} : thread[u].pc \in Holding => Spares(thread[u].job)
        PROVE  Ownership'
    <2>1. Owned(t)'
      BY <1>1, <1>2, OwnedFree DEF Moves, TypeOK
    <2> QED BY <1>1, <1>2, <2>1, OthersOwn
  <1>3. ASSUME NEW pc \in {"idle", "housekeeping", "claiming"}, Goes(t, pc), UNCHANGED proc,
               \A j \in Jobs : (\E u \in Threads : Holds(u, j)) => Spares(j)
        PROVE  Ownership'
    <2>1. [thread[t] EXCEPT !.pc = pc].pc \notin Holding
      BY <1>1 DEF ThreadState, Holding
    <2> QED BY <1>1, <1>2, <1>3, <2>1 DEF Goes, Holds
  <1>4. CASE BeginsTick(w, l)
    BY <1>3, <1>4, RowsSpared DEF BeginsTick
  <1>5. CASE l = "maintenance" /\ RequeuesStale(w)
    <2>1. ASSUME NEW j \in Jobs, NEW u \in Threads, Holds(u, j) PROVE Spares(j)
      <3>1. ~Stale(job[j])
        BY <1>1, <2>1 DEF Holds, Owned, Stale
      <3>2. job'[j] = job[j]
        BY <1>5, <3>1 DEF RequeuesStale
      <3> QED BY <3>2 DEF Spares
    <2> QED BY <1>3, <1>5, <2>1 DEF RequeuesStale
  <1>6. CASE Claims(w, l)
    <2> DEFINE row(j) == [job[j] EXCEPT !.status = "running", !.worker = w, !.fresh = TRUE, !.attempts = @ + 1]
               state(j) == [IdleThread EXCEPT !.pc = "claimed", !.job = j]
    <2>1. PICK i \in Jobs : /\ job[i].status = "queued" /\ LaneOf(job[i].kind) = l
                            /\ Writes(i, row(i)) /\ Moves(t, state(i))
      BY <1>6 DEF Claims, Claimable
    <2>2. /\ job[i] \in Row /\ job' = [job EXCEPT ![i] = row(i)] /\ job \in [Jobs -> Row]
          /\ Alive(w) /\ UNCHANGED proc
      BY <1>6, <2>1 DEF TypeOK, Writes, Claims
    <2>3. /\ row(i).status = "running" /\ row(i).worker = w /\ row(i).fresh /\ row(i).kind = job[i].kind
      BY <2>2 DEF Row
    <2>4. state(i).pc = "claimed" /\ state(i).job = i
      BY DEF IdleThread
    <2>5. thread'[t] = state(i)
      BY <1>1, <2>1 DEF Moves, TypeOK
    <2>6. \A u \in Threads : thread[u].pc \in Holding => thread[u].job # i
      BY <1>1, <2>1 DEF Owned
    <2> HIDE DEF row, state, t
    <2>7. job'[i] = row(i) /\ \A j \in Jobs : j # i => job'[j] = job[j]
      BY <2>2
    <2>8. Owned(t)'
      BY <1>1, <2>1, <2>2, <2>3, <2>4, <2>5, <2>7 DEF Owned, Alive
    <2>9. \A u \in Threads : thread[u].pc \in Holding => Spares(thread[u].job)
      BY <1>1, <2>6, <2>7 DEF Spares
    <2> QED BY <1>1, <2>1, <2>2, <2>8, <2>9, OthersOwn
  <1>7. CASE FindsNothing(w, l) \/ FindsCancelled(w, l)
    <2>1. IdleThread.pc \notin Holding
      BY DEF IdleThread, Holding
    <2> QED BY <1>1, <1>2, <1>7, <2>1, RowsSpared DEF FindsNothing, FindsCancelled, Returns
  <1>8. CASE Registers(w, l)
    <2>1. \A j \in Jobs : Spares(j)
      BY <1>8 DEF Registers, Spares, TypeOK, Row
    <2>2. [thread[t] EXCEPT !.pc = "registered"].job = thread[t].job
      BY <1>1 DEF ThreadState
    <2> QED BY <1>1, <1>8, <2>1, <2>2, OwnerGoesOn DEF Registers, Goes, Holding
  <1>9. CASE Starts(w, l) \/ FlushesLast(w, l)
    BY <1>1, <1>9, FlushOwners DEF Starts, FlushesLast, Holding
  <1>10. CASE StopsEarly(w, l)
    <2>1. [thread[t] EXCEPT !.pc = "ended", !.outcome = "partial"].job = thread[t].job
      BY <1>1 DEF ThreadState
    <2> QED BY <1>1, <1>10, <2>1, RowsSpared, OwnerGoesOn DEF StopsEarly, Ends, Holding
  <1>11. CASE Decides(w, l)
    <2> DEFINE r == job[thread[t].job]
               state == [thread[t] EXCEPT !.pc = "decided", !.outcome = Verdict(w, l, r),
                                          !.status = r.status, !.worker = r.worker]
    <2>1. state.job = thread[t].job
      BY <1>1 DEF ThreadState
    <2>2. Moves(t, state) /\ UNCHANGED <<job, proc>> /\ thread[t].pc \in Holding
      BY <1>11 DEF Decides, Holding
    <2> HIDE DEF state
    <2> QED BY <1>1, <2>1, <2>2, RowsSpared, OwnerGoesOn
  <1>12. CASE Saves(w, l)
    <2>1. thread[t].pc \in Holding /\ UNCHANGED proc /\ Moves(t, IdleThread)
      BY <1>12 DEF Saves, Holding, Returns
    <2>2. \A j \in Jobs \ {thread[t].job} : job'[j] = job[j]
      BY <1>1, <1>12 DEF Saves, Writes, TypeOK
    <2>3. \A u \in Threads \ {t} : thread[u].pc \in Holding => thread[u].job # thread[t].job
      BY <1>1, <2>1, OwnersAreAlone DEF OneRunner, Holds
    <2>4. \A u \in Threads \ {t} : thread[u].pc \in Holding => Spares(thread[u].job)
      BY <1>1, <2>2, <2>3 DEF Spares
    <2> QED BY <1>2, <2>1, <2>4 DEF IdleThread, Holding
  <1> QED BY <1>4, <1>5, <1>6, <1>7, <1>8, <1>9, <1>10, <1>11, <1>12 DEF Step

LEMMA WorkOwners ==
    ASSUME TypeOK, Ownership, NEW w \in Workers, NEW l \in Lanes,
           Work(w, l) \/ Reports(w, l) \/ Fails(w, l)
    PROVE  Ownership'
  <1> DEFINE t == <<w, l>>
  <1>1. /\ t \in Threads /\ thread[t] \in ThreadState
        /\ \A u \in Threads : thread[u].pc \in Holding => thread[u].job \in Jobs
    BY ThreadPair DEF TypeOK, Coherent
  <1>2. ASSUME NEW outcome, Ends(t, outcome), thread[t].pc = "work", UNCHANGED <<job, proc>> PROVE Ownership'
    <2>1. [thread[t] EXCEPT !.pc = "ended", !.outcome = outcome].job = thread[t].job
      BY <1>1 DEF ThreadState
    <2> QED BY <1>1, <1>2, <2>1, RowsSpared, OwnerGoesOn DEF Ends, Holding
  <1>3. CASE Work(w, l)
    BY <1>2, <1>3 DEF Work, Completes, Crashes
  <1>4. CASE Reports(w, l)
    BY <1>1, <1>4, FlushOwners DEF Reports, Holding
  <1>5. CASE RegisterFails(w, l) \/ RunFails(w, l)
    <2>1. Moves(t, IdleThread) /\ UNCHANGED <<job, proc>>
      BY <1>5 DEF RegisterFails, RunFails, Returns
    <2>2. Owned(t)'
      BY <1>1, <2>1, OwnedFree DEF Moves, TypeOK, IdleThread, Holding
    <2> QED BY <1>1, <2>1, <2>2, RowsSpared, OthersOwn
  <1>6. CASE FlushFails(w, l)
    <2> DEFINE pc == IF thread[t].pc = "registered" THEN "work" ELSE "flushed"
               state == [thread[t] EXCEPT !.pc = pc]
    <2>1. Moves(t, state) /\ UNCHANGED <<job, proc>> /\ thread[t].pc \in Holding
      BY <1>6 DEF FlushFails, Goes, Holding
    <2>2. state.job = thread[t].job
      BY <1>1 DEF ThreadState
    <2> HIDE DEF state
    <2> QED BY <1>1, <2>1, <2>2, RowsSpared, OwnerGoesOn
  <1> QED BY <1>3, <1>4, <1>5, <1>6 DEF Fails

LEMMA OwnershipInit == Init => Ownership
  BY DEF Init, Ownership, Owned, IdleThread, Holding

LEMMA OwnershipNext ==
    ASSUME HeartbeatsGetThrough
    PROVE  TypeOK /\ Ownership /\ [Next]_vars => Ownership'
  <1> SUFFICES ASSUME TypeOK, Ownership, [Next]_vars PROVE Ownership'
    OBVIOUS
  <1>1. CASE Next
    BY <1>1, RequestOwners, StaleOwners, ProcessOwners, StepOwners, WorkOwners DEF Next
  <1>2. CASE UNCHANGED vars
    <2>1. \A t \in Threads : thread[t].pc \in Holding => thread[t].job \in Jobs
      BY DEF TypeOK, Coherent
    <2> QED BY <1>2, <2>1, RowsSpared, OwnersStay DEF vars
  <1> QED BY <1>1, <1>2

LEMMA Owners == ASSUME HeartbeatsGetThrough PROVE Spec => []Ownership
  BY OwnershipInit, OwnershipNext, TypeCorrect, PTL DEF Spec

\* As long as heartbeats get through, no two threads, of one worker or of two, run the
\* same job, whatever is killed, told to stop, cancelled or loses the database.
THEOREM RunsOnce == ASSUME HeartbeatsGetThrough PROVE Spec => []OneRunner
  BY Owners, OwnersAreAlone, PTL

-----------------------------------------------------------------------------
(***************************************************************************)
(* A job that ended stays over: only the thread that holds a job gives it  *)
(* back, and while somebody holds it, it has not ended.                    *)
(***************************************************************************)
StaysOver(j) == job[j].status \in {"done", "failed"} => job'[j].status \in Finished

LEMMA RowStaysOver ==
    ASSUME TypeOK, NEW i \in Jobs, NEW row, Writes(i, row),
           job[i].status \in {"done", "failed"} => row.status \in {job[i].status, "cancelled"}
    PROVE  \A j \in Jobs : StaysOver(j)
  <1> SUFFICES ASSUME NEW j \in Jobs PROVE StaysOver(j)
    OBVIOUS
  <1>1. job'[j] = IF j = i THEN row ELSE job[j]
    BY DEF Writes, TypeOK
  <1> QED BY <1>1 DEF StaysOver, Finished

LEMMA SameStatus ==
    (\A j \in Jobs : job'[j].status = job[j].status) => \A j \in Jobs : StaysOver(j)
  BY DEF StaysOver, Finished

LEMMA RequestsLeaveOver ==
    ASSUME TypeOK, NEW a \in Admins, Request(a) PROVE \A j \in Jobs : StaysOver(j)
  <1>1. CASE InsertsJob(a)
    <2>1. PICK i \in Jobs : /\ job[i].status = "none"
                            /\ Writes(i, [NoRow EXCEPT !.kind = admin[a].kind, !.status = "queued"])
      BY <1>1 DEF InsertsJob, NewIds
    <2> QED BY <2>1, RowStaysOver
  <1>2. CASE Cancels(a)
    <2> DEFINE r == admin[a]
               cancel == job[r.job].cancel \/ r.seen = "running"
               status == IF r.seen = "queued" \/ r.force THEN "cancelled" ELSE job[r.job].status
               row == [job[r.job] EXCEPT !.status = status, !.cancel = cancel]
    <2>1. r.job \in Jobs /\ Writes(r.job, row) /\ job[r.job] \in Row
      BY <1>2 DEF Cancels, TypeOK, Meant
    <2>2. status \in {job[r.job].status, "cancelled"}
      OBVIOUS
    <2>3. row.status = status
      <3> HIDE DEF r, status, cancel
      <3> QED BY <2>1 DEF Row
    <2> HIDE DEF r, status, cancel, row
    <2> QED BY <2>1, <2>2, <2>3, RowStaysOver
  <1>3. CASE UNCHANGED job
    BY <1>3, SameStatus
  <1> QED BY <1>1, <1>2, <1>3 DEF Request, AsksForJob, AsksToCancel

LEMMA FlushLeavesOver ==
    ASSUME TypeOK, NEW t \in Threads, thread[t].pc \in Holding, NEW pc, Flush(t, pc)
    PROVE  \A j \in Jobs : StaysOver(j)
  <1> DEFINE i == thread[t].job
             row == [job[i] EXCEPT !.fresh = TRUE]
  <1>1. i \in Jobs /\ job[i] \in Row /\ Writes(i, row)
    BY DEF TypeOK, Coherent, Flush
  <1>2. row.status = job[i].status
    BY <1>1 DEF Row
  <1> HIDE DEF i, row
  <1> QED BY <1>1, <1>2, RowStaysOver

LEMMA StepLeavesOver ==
    ASSUME TypeOK, Ownership, NEW w \in Workers, NEW l \in Lanes, Step(w, l)
    PROVE  \A j \in Jobs : StaysOver(j)
  <1> DEFINE t == <<w, l>>
  <1>1. t \in Threads /\ Owned(t) /\ Coherent(thread[t])
    BY ThreadPair DEF TypeOK, Ownership
  <1>2. CASE UNCHANGED job
    BY <1>2, SameStatus
  <1>3. CASE RequeuesStale(w)
    BY <1>3 DEF RequeuesStale, Stale, StaysOver, Finished
  <1>4. CASE Claims(w, l)
    <2>1. PICK j \in Jobs : /\ job[j].status = "queued"
                            /\ Writes(j, [job[j] EXCEPT !.status = "running", !.worker = w, !.fresh = TRUE, !.attempts = @ + 1])
      BY <1>4 DEF Claims, Claimable
    <2> QED BY <2>1, RowStaysOver
  <1>5. CASE Registers(w, l)
    <2>1. \A j \in Jobs : job'[j].status = job[j].status
      BY <1>5 DEF Registers, TypeOK, Row
    <2> QED BY <2>1, SameStatus
  <1>6. CASE Starts(w, l) \/ FlushesLast(w, l)
    BY <1>1, <1>6, FlushLeavesOver DEF Starts, FlushesLast, Holding
  <1>7. CASE Saves(w, l)
    <2>1. thread[t].job \in Jobs /\ job[thread[t].job].status \in {"running", "cancelled"}
      BY <1>1, <1>7 DEF Saves, Owned, Coherent, Holding
    <2>2. \E row : Writes(thread[t].job, row)
      BY <1>7 DEF Saves
    <2> QED BY <2>1, <2>2, RowStaysOver
  <1> QED BY <1>2, <1>3, <1>4, <1>5, <1>6, <1>7
      DEF Step, BeginsTick, FindsNothing, StopsEarly, FindsCancelled, Decides

LEMMA AnyLeavesOver == TypeOK /\ Ownership /\ [Next]_vars => \A j \in Jobs : StaysOver(j)
  <1> SUFFICES ASSUME TypeOK, Ownership, [Next]_vars PROVE \A j \in Jobs : StaysOver(j)
    OBVIOUS
  <1>1. CASE UNCHANGED job
    BY <1>1, SameStatus
  <1>2. ASSUME NEW j \in Jobs, BecomesStale(j) PROVE \A i \in Jobs : StaysOver(i)
    <2>1. job[j] \in Row /\ Writes(j, [job[j] EXCEPT !.fresh = FALSE])
      BY <1>2 DEF BecomesStale, TypeOK
    <2>2. [job[j] EXCEPT !.fresh = FALSE].status = job[j].status
      BY <2>1 DEF Row
    <2> QED BY <2>1, <2>2, RowStaysOver
  <1>3. ASSUME NEW w \in Workers, Heartbeat(w) \/ Boots(w) \/ IsTold(w) \/ IsKilled(w) \/ Exits(w)
        PROVE  \A i \in Jobs : StaysOver(i)
    <2>1. CASE Heartbeat(w)
      <3>1. \A j \in Jobs : job'[j].status = job[j].status
        BY <2>1 DEF Heartbeat, TypeOK, Row
      <3> QED BY <3>1, SameStatus
    <2> QED BY <1>1, <1>3, <2>1 DEF Boots, IsTold, IsKilled, Exits, Dies
  <1>4. ASSUME NEW w \in Workers, NEW l \in Lanes, Work(w, l) \/ Reports(w, l) \/ Fails(w, l)
        PROVE  \A i \in Jobs : StaysOver(i)
    <2>1. CASE Reports(w, l)
      BY <2>1, ThreadPair, FlushLeavesOver DEF Reports, Holding
    <2>2. CASE Work(w, l) \/ Fails(w, l)
      BY <1>1, <2>2 DEF Work, Completes, Crashes, Fails, RegisterFails, FlushFails, RunFails
    <2> QED BY <1>4, <2>1, <2>2
  <1> QED BY <1>1, <1>2, <1>3, <1>4, RequestsLeaveOver, StepLeavesOver DEF Next, vars

\* As long as heartbeats get through, nothing makes a job that is done or failed queued or
\* running again: the jobs create() let in after it can count on it.
THEOREM OverForGood == ASSUME HeartbeatsGetThrough PROVE Spec => NoRedo
  <1>1. TypeOK /\ Ownership /\ [Next]_vars =>
          [\A j \in Jobs : job[j].status \in {"done", "failed"} => job'[j].status \in Finished]_vars
    BY AnyLeavesOver DEF StaysOver
  <1> QED BY <1>1, Owners, TypeCorrect, PTL DEF Spec, NoRedo

-----------------------------------------------------------------------------
(***************************************************************************)
(* JobQueue implements JobLifecycle: a held job's runner is the worker of  *)
(* the one thread that holds it.                                           *)
(***************************************************************************)
phases == [j \in Jobs |-> PhaseOf(job[j].status)]
runners == [j \in Jobs |-> RunnerOf(j)]

LEMMA RunnerIs ==
    ASSUME OneRunner, NEW j \in Jobs
    PROVE  /\ \A t \in Threads : Holds(t, j) => RunnerOf(j) = t[1] /\ RunnerOf(j) # NoWorker
           /\ (\A t \in Threads : ~Holds(t, j)) => RunnerOf(j) = NoWorker
  <1>1. ASSUME NEW t \in Threads, Holds(t, j) PROVE RunnerOf(j) = t[1] /\ RunnerOf(j) # NoWorker
    <2>1. \A u \in Threads : Holds(u, j) => u = t
      BY <1>1 DEF OneRunner
    <2>2. t = CHOOSE u \in Threads : Holds(u, j)
      BY <1>1, <2>1
    <2>3. t[1] \in Workers
      BY DEF Threads
    <2> QED BY <1>1, <2>2, <2>3, JobQueueAssumption DEF RunnerOf, JobQueueAssumption
  <1> QED BY <1>1 DEF RunnerOf

LEMMA NextRunnerIs ==
    ASSUME OneRunner', NEW j \in Jobs
    PROVE  /\ \A t \in Threads : Holds(t, j)' => RunnerOf(j)' = t[1] /\ RunnerOf(j)' # NoWorker
           /\ (\A t \in Threads : ~Holds(t, j)') => RunnerOf(j)' = NoWorker
  <1>1. ASSUME NEW t \in Threads, Holds(t, j)' PROVE RunnerOf(j)' = t[1] /\ RunnerOf(j)' # NoWorker
    <2>1. \A u \in Threads : Holds(u, j)' => u = t
      BY <1>1 DEF OneRunner
    <2>2. t = CHOOSE u \in Threads : Holds(u, j)'
      BY <1>1, <2>1
    <2>3. t[1] \in Workers
      BY DEF Threads
    <2> QED BY <1>1, <2>2, <2>3, JobQueueAssumption DEF RunnerOf, JobQueueAssumption
  <1> QED BY <1>1 DEF RunnerOf

\* nobody takes a job or lets it go
LEMMA SameRunners ==
    ASSUME OneRunner, OneRunner', NEW j \in Jobs, \A t \in Threads : Holds(t, j)' <=> Holds(t, j)
    PROVE  RunnerOf(j)' = RunnerOf(j)
  BY RunnerIs, NextRunnerIs

LEMMA PhaseSet ==
    ASSUME NEW i \in Jobs, NEW s, \A j \in Jobs : job'[j].status = IF j = i THEN s ELSE job[j].status
    PROVE  phases' = [phases EXCEPT ![i] = PhaseOf(s)]
  BY DEF phases

LEMMA PhasesSame ==
    ASSUME \A j \in Jobs : job'[j].status = job[j].status
    PROVE  phases' = phases
  BY DEF phases

LEMMA RunnerSet ==
    ASSUME NEW i \in Jobs, NEW w, \A j \in Jobs : RunnerOf(j)' = IF j = i THEN w ELSE RunnerOf(j)
    PROVE  runners' = [runners EXCEPT ![i] = w]
  BY DEF runners

LEMMA RunnersSame ==
    ASSUME OneRunner, OneRunner', \A j \in Jobs, t \in Threads : Holds(t, j)' <=> Holds(t, j)
    PROVE  runners' = runners
  BY SameRunners DEF runners

LEMMA Stutters ==
    ASSUME OneRunner, OneRunner', \A j \in Jobs : job'[j].status = job[j].status,
           \A j \in Jobs, t \in Threads : Holds(t, j)' <=> Holds(t, j)
    PROVE  UNCHANGED <<phases, runners>>
  BY PhasesSame, RunnersSame

LEMMA SameHolders == UNCHANGED thread => \A j \in Jobs, t \in Threads : Holds(t, j)' <=> Holds(t, j)
  BY DEF Holds

LEMMA GoesOnHolding ==
    ASSUME TypeOK, NEW t \in Threads, NEW state, Moves(t, state),
           state.pc \in Holding <=> thread[t].pc \in Holding,
           state.pc \in Holding => state.job = thread[t].job
    PROVE  \A j \in Jobs, u \in Threads : Holds(u, j)' <=> Holds(u, j)
  <1>1. \A u \in Threads : thread'[u] = IF u = t THEN state ELSE thread[u]
    BY DEF Moves, TypeOK
  <1> QED BY <1>1 DEF Holds

\* a thread that lets its job go: nobody else holds it
LEMMA LetsGo ==
    ASSUME TypeOK, OneRunner, OneRunner', NEW t \in Threads, NEW i, i = thread[t].job,
           thread[t].pc \in Holding, Moves(t, IdleThread)
    PROVE  i \in Jobs /\ RunnerOf(i) # NoWorker /\ runners' = [runners EXCEPT ![i] = NoWorker]
  <1>1. i \in Jobs /\ Holds(t, i)
    BY DEF TypeOK, Coherent, Holds
  <1>2. \A u \in Threads : thread'[u] = IF u = t THEN IdleThread ELSE thread[u]
    BY DEF Moves, TypeOK
  <1>3. IdleThread.pc \notin Holding
    BY DEF IdleThread, Holding
  <1>4. \A u \in Threads : ~Holds(u, i)'
    <2> SUFFICES ASSUME NEW u \in Threads, Holds(u, i)' PROVE FALSE
      OBVIOUS
    <2>1. u # t
      BY <1>2, <1>3 DEF Holds
    <2>2. Holds(u, i)
      BY <1>2, <2>1 DEF Holds
    <2> QED BY <1>1, <2>1, <2>2 DEF OneRunner
  <1>5. \A j \in Jobs, u \in Threads : j # i => (Holds(u, j)' <=> Holds(u, j))
    BY <1>1, <1>2, <1>3 DEF Holds
  <1>6. \A j \in Jobs : RunnerOf(j)' = IF j = i THEN NoWorker ELSE RunnerOf(j)
    <2> SUFFICES ASSUME NEW j \in Jobs PROVE RunnerOf(j)' = IF j = i THEN NoWorker ELSE RunnerOf(j)
      OBVIOUS
    <2>1. CASE j = i
      BY <1>4, <2>1, NextRunnerIs
    <2>2. CASE j # i
      BY <1>5, <2>2, SameRunners
    <2> QED BY <2>1, <2>2
  <1> QED BY <1>1, <1>6, RunnerSet, RunnerIs

LEMMA PhasesOf ==
    /\ PhaseOf("none") = "absent" /\ PhaseOf("queued") = "waiting" /\ PhaseOf("running") = "taken"
    /\ PhaseOf("cancelled") = "withdrawn" /\ PhaseOf("done") = "ended" /\ PhaseOf("failed") = "ended"
    /\ \A s \in Statuses : (PhaseOf(s) = "absent" <=> s = "none")
  BY DEF PhaseOf, Statuses, Active, Finished

\* what a request that cancels has read, and what run() read when it decided
Asked == \A a \in Admins : admin[a].pc = "cancelling" => job[admin[a].job].status # "none"
Decided == \A t \in Threads : thread[t].pc = "decided" => thread[t].status = "running"

LEMMA RequestImplements ==
    ASSUME TypeOK, OneRunner, OneRunner', Asked, NEW a \in Admins, Request(a)
    PROVE  Lifecycle!Next \/ UNCHANGED <<phases, runners>>
  <1>1. CASE UNCHANGED <<job, thread>>
    BY <1>1, SameHolders, Stutters
  <1>2. CASE InsertsJob(a)
    <2>1. PICK i \in Jobs : /\ job[i].status = "none"
                            /\ Writes(i, [NoRow EXCEPT !.kind = admin[a].kind, !.status = "queued"])
      BY <1>2 DEF InsertsJob, NewIds
    <2>2. [NoRow EXCEPT !.kind = admin[a].kind, !.status = "queued"].status = "queued"
      BY DEF NoRow
    <2>3. phases' = [phases EXCEPT ![i] = "waiting"]
      <3>1. \A j \in Jobs : job'[j].status = IF j = i THEN "queued" ELSE job[j].status
        BY <2>1, <2>2 DEF Writes, TypeOK
      <3> QED BY <3>1, PhaseSet, PhasesOf
    <2>4. runners' = runners
      BY <1>2, SameHolders, RunnersSame DEF InsertsJob
    <2>5. Lifecycle!Submit(i)
      BY <2>1, <2>3, <2>4, PhasesOf DEF Lifecycle!Submit, phases, runners
    <2> QED BY <2>5 DEF Lifecycle!Next
  <1>3. CASE Cancels(a)
    <2> DEFINE r == admin[a]
               cancel == job[r.job].cancel \/ r.seen = "running"
               status == IF r.seen = "queued" \/ r.force THEN "cancelled" ELSE job[r.job].status
               row == [job[r.job] EXCEPT !.status = status, !.cancel = cancel]
    <2>1. r.job \in Jobs /\ Writes(r.job, row) /\ UNCHANGED thread /\ job[r.job] \in Row
      BY <1>3 DEF Cancels, TypeOK, Meant
    <2>2. row.status = status
      <3> HIDE DEF r, status, cancel
      <3> QED BY <2>1 DEF Row
    <2>3. \A j \in Jobs : job'[j].status = IF j = r.job THEN status ELSE job[j].status
      <3> HIDE DEF r, status, cancel, row
      <3> QED BY <2>1, <2>2 DEF Writes, TypeOK
    <2>4. runners' = runners
      BY <2>1, SameHolders, RunnersSame
    <2>5. CASE status = job[r.job].status
      <3>1. \A j \in Jobs : job'[j].status = job[j].status
        BY <2>3, <2>5
      <3> QED BY <3>1, <2>4, PhasesSame
    <2>6. CASE status = "cancelled"
      <3>1. phases' = [phases EXCEPT ![r.job] = "withdrawn"]
        <4>1. PICK i \in Jobs : i = r.job
          BY <2>1
        <4>2. \A j \in Jobs : job'[j].status = IF j = i THEN "cancelled" ELSE job[j].status
          <5> HIDE DEF r, status
          <5> QED BY <2>3, <2>6, <4>1
        <4> HIDE DEF r, status
        <4>3. phases' = [phases EXCEPT ![i] = "withdrawn"]
          BY <4>2, PhaseSet, PhasesOf
        <4> QED BY <4>1, <4>3
      <3>2. PhaseOf(job[r.job].status) # "absent"
        <4>1. job[r.job].status # "none" /\ job[r.job].status \in Statuses
          BY <1>3, <2>1 DEF Asked, Cancels, Row
        <4> QED BY <4>1, PhasesOf
      <3>3. Lifecycle!Withdraw(r.job)
        BY <2>1, <2>4, <3>1, <3>2 DEF Lifecycle!Withdraw, phases, runners
      <3> QED BY <2>1, <3>3 DEF Lifecycle!Next
    <2> QED BY <2>5, <2>6
  <1> QED BY <1>1, <1>2, <1>3 DEF Request, AsksForJob, AsksToCancel

LEMMA DiesImplements ==
    ASSUME TypeOK, OneRunner, OneRunner', NEW w \in Workers, Dies(w)
    PROVE  Lifecycle!Next \/ UNCHANGED <<phases, runners>>
  <1> DEFINE S == {j \in Jobs : \E t \in Threads : t[1] = w /\ Holds(t, j)}
  <1>1. \A t \in Threads : thread'[t] = IF t[1] = w THEN IdleThread ELSE thread[t]
    BY DEF Dies
  <1>2. IdleThread.pc \notin Holding
    BY DEF IdleThread, Holding
  <1>3. phases' = phases
    BY PhasesSame DEF Dies
  <1>4. \A j \in S : RunnerOf(j) # NoWorker /\ RunnerOf(j)' = NoWorker
    <2> SUFFICES ASSUME NEW j \in Jobs, NEW t \in Threads, t[1] = w, Holds(t, j)
                 PROVE  RunnerOf(j) # NoWorker /\ RunnerOf(j)' = NoWorker
      OBVIOUS
    <2>1. \A u \in Threads : ~Holds(u, j)'
      BY <1>1, <1>2 DEF OneRunner, Holds
    <2> QED BY <2>1, RunnerIs, NextRunnerIs
  <1>5. \A j \in Jobs \ S : RunnerOf(j)' = RunnerOf(j)
    <2> SUFFICES ASSUME NEW j \in Jobs, j \notin S PROVE RunnerOf(j)' = RunnerOf(j)
      OBVIOUS
    <2>1. \A u \in Threads : Holds(u, j)' <=> Holds(u, j)
      BY <1>1, <1>2 DEF Holds
    <2> QED BY <2>1, SameRunners
  <1>6. CASE S = {}
    BY <1>3, <1>5, <1>6 DEF runners
  <1>7. CASE S # {}
    <2>1. Lifecycle!Drop(S)
      <3> HIDE DEF S
      <3>1. S \subseteq Jobs
        BY DEF S
      <3> QED BY <1>3, <1>4, <1>5, <1>7, <3>1 DEF Lifecycle!Drop, Lifecycle!Free, phases, runners
    <2>2. S \in SUBSET Jobs
      OBVIOUS
    <2> QED BY <2>1, <2>2 DEF Lifecycle!Next
  <1> QED BY <1>6, <1>7

LEMMA RequeuesImplements ==
    ASSUME TypeOK, Ownership, OneRunner, OneRunner', NEW w \in Workers, NEW l \in Lanes,
           l = "maintenance", RequeuesStale(w)
    PROVE  Lifecycle!Next \/ UNCHANGED <<phases, runners>>
  <1> DEFINE S == {j \in Jobs : Stale(job[j])}
             p == [j \in S |-> PhaseOf(job'[j].status)]
  <1>1. runners' = runners
    <2>0. Goes(<<w, l>>, "claiming") /\ thread[w, l].pc \notin Holding
      <3>1. Goes(<<w, l>>, "claiming")
        BY Zenon DEF RequeuesStale
      <3>2. thread[w, l].pc = "housekeeping"
        BY Zenon DEF RequeuesStale
      <3>3. "housekeeping" \notin Holding
        BY DEF Holding
      <3> QED BY Zenon, <3>1, <3>2, <3>3
    <2>1. <<w, l>> \in Threads /\ thread[w, l] \in ThreadState
      BY ThreadPair DEF TypeOK
    <2>2. [thread[w, l] EXCEPT !.pc = "claiming"].pc = "claiming"
      BY <2>1 DEF ThreadState
    <2>3. "claiming" \notin Holding
      BY DEF Holding
    <2> QED BY <2>0, <2>1, <2>2, <2>3, GoesOnHolding, RunnersSame DEF Goes
  <1>0. job' = [j \in Jobs |-> IF Stale(job[j]) THEN Requeued(job[j]) ELSE job[j]]
    BY Zenon DEF RequeuesStale
  <1>2. \A j \in Jobs : j \notin S => job'[j] = job[j]
    BY <1>0
  <1>3. \A j \in S : job'[j].status \in {"cancelled", "failed", "queued"}
    BY <1>0 DEF Requeued, TypeOK, Row
  <1>4. \A j \in S : job[j].status = "running" /\ RunnerOf(j) = NoWorker
    <2> SUFFICES ASSUME NEW j \in Jobs, Stale(job[j]) PROVE job[j].status = "running" /\ RunnerOf(j) = NoWorker
      OBVIOUS
    <2>1. \A t \in Threads : ~Holds(t, j)
      BY DEF Ownership, Owned, Holds, Stale
    <2> QED BY <2>1, RunnerIs DEF Stale
  <1>5. CASE S = {}
    <2>1. \A j \in Jobs : job'[j].status = job[j].status
      BY <1>2, <1>5
    <2> QED BY <1>1, <2>1, PhasesSame
  <1>6. CASE S # {}
    <2>1. p \in [S -> {"waiting", "withdrawn", "ended"}]
      <3>1. \A j \in S : PhaseOf(job'[j].status) \in {"waiting", "withdrawn", "ended"}
        BY <1>3, PhasesOf
      <3> QED BY <3>1
    <2>2. phases' = [j \in Jobs |-> IF j \in S THEN p[j] ELSE phases[j]]
      BY <1>2 DEF phases
    <2>3. \A j \in S : phases[j] = "taken" /\ runners[j] = NoWorker
      BY <1>4, PhasesOf DEF phases, runners
    <2>4. Lifecycle!Recover(S)
      <3> HIDE DEF S, p
      <3> QED BY <1>1, <1>6, <2>1, <2>2, <2>3 DEF Lifecycle!Recover, Lifecycle!Free, phases, runners
    <2>5. S \in SUBSET Jobs
      OBVIOUS
    <2> QED BY <2>4, <2>5 DEF Lifecycle!Next
  <1> QED BY <1>5, <1>6

\* a thread that takes a job nobody holds
LEMMA TakesIt ==
    ASSUME TypeOK, OneRunner, OneRunner', NEW t \in Threads, NEW i \in Jobs, NEW state,
           Moves(t, state), thread[t].pc \notin Holding, state.pc \in Holding, state.job = i,
           \A u \in Threads : ~Holds(u, i)
    PROVE  RunnerOf(i) = NoWorker /\ runners' = [runners EXCEPT ![i] = t[1]]
  <1>1. \A u \in Threads : thread'[u] = IF u = t THEN state ELSE thread[u]
    BY DEF Moves, TypeOK
  <1>2. Holds(t, i)'
    BY <1>1 DEF Holds
  <1>3. \A j \in Jobs, u \in Threads : j # i => (Holds(u, j)' <=> Holds(u, j))
    BY <1>1 DEF Holds
  <1>4. \A j \in Jobs : RunnerOf(j)' = IF j = i THEN t[1] ELSE RunnerOf(j)
    <2> SUFFICES ASSUME NEW j \in Jobs PROVE RunnerOf(j)' = IF j = i THEN t[1] ELSE RunnerOf(j)
      OBVIOUS
    <2>1. CASE j = i
      BY <1>2, <2>1, NextRunnerIs
    <2>2. CASE j # i
      BY <1>3, <2>2, SameRunners
    <2> QED BY <2>1, <2>2
  <1> QED BY <1>4, RunnerSet, RunnerIs

LEMMA ClaimsImplements ==
    ASSUME TypeOK, Ownership, OneRunner, OneRunner', NEW w \in Workers, NEW l \in Lanes, Claims(w, l)
    PROVE  Lifecycle!Next
  <1> DEFINE t == <<w, l>>
             row(j) == [job[j] EXCEPT !.status = "running", !.worker = w, !.fresh = TRUE, !.attempts = @ + 1]
             state(j) == [IdleThread EXCEPT !.pc = "claimed", !.job = j]
  <1>1. PICK i \in Jobs : job[i].status = "queued" /\ Writes(i, row(i)) /\ Moves(t, state(i))
    BY DEF Claims, Claimable
  <1>2. row(i).status = "running"
    BY DEF TypeOK, Row
  <1>3. state(i).pc = "claimed" /\ state(i).job = i
    BY DEF IdleThread
  <1>4. t \in Threads /\ t[1] = w /\ thread[t].pc \notin Holding
    BY ThreadPair DEF Claims, Holding
  <1>5. \A u \in Threads : ~Holds(u, i)
    BY <1>1 DEF Ownership, Owned, Holds
  <1> HIDE DEF t, row, state
  <1>6. RunnerOf(i) = NoWorker /\ runners' = [runners EXCEPT ![i] = w]
    <2>1. "claimed" \in Holding
      BY DEF Holding
    <2> QED BY <1>1, <1>3, <1>4, <1>5, <2>1, TakesIt
  <1>7. phases' = [phases EXCEPT ![i] = "taken"]
    <2>1. \A j \in Jobs : job'[j].status = IF j = i THEN "running" ELSE job[j].status
      BY <1>1, <1>2 DEF Writes, TypeOK
    <2> QED BY <2>1, PhaseSet, PhasesOf
  <1>8. Lifecycle!Take(i, w)
    BY <1>1, <1>6, <1>7, PhasesOf DEF Lifecycle!Take, Lifecycle!Free, phases, runners
  <1> QED BY <1>8 DEF Lifecycle!Next

\* a statement failed: the worker has nothing of the job any more
LEMMA FailsImplements ==
    ASSUME TypeOK, OneRunner, OneRunner', NEW t \in Threads, thread[t].pc \in Holding,
           Moves(t, IdleThread), UNCHANGED job
    PROVE  Lifecycle!Next
  <1> DEFINE i == thread[t].job
  <1>1. i \in Jobs /\ RunnerOf(i) # NoWorker /\ runners' = [runners EXCEPT ![i] = NoWorker]
    <2> HIDE DEF i
    <2>1. PICK k : k = thread[t].job
      OBVIOUS
    <2>2. k \in Jobs /\ RunnerOf(k) # NoWorker /\ runners' = [runners EXCEPT ![k] = NoWorker]
      BY <2>1, LetsGo
    <2> QED BY <2>1, <2>2 DEF i
  <1>2. phases' = phases
    BY PhasesSame
  <1> HIDE DEF i
  <1>3. Lifecycle!Drop({i})
    BY <1>1, <1>2 DEF Lifecycle!Drop, Lifecycle!Free, runners, phases
  <1> QED BY <1>1, <1>3 DEF Lifecycle!Next

\* the worker is through with the job, whose row says so
LEMMA LetsGoImplements ==
    ASSUME TypeOK, OneRunner, OneRunner', NEW t \in Threads, thread[t].pc \in Holding,
           Moves(t, IdleThread), NEW i, i = thread[t].job, NEW s \in Verdicts,
           \A j \in Jobs : job'[j].status = IF j = i THEN s ELSE job[j].status
    PROVE  Lifecycle!Next
  <1>1. i \in Jobs /\ RunnerOf(i) # NoWorker /\ runners' = [runners EXCEPT ![i] = NoWorker]
    BY LetsGo
  <1>2. PhaseOf(s) \in {"waiting", "withdrawn", "ended"}
    BY PhasesOf DEF Verdicts, Finished
  <1>3. phases' = [phases EXCEPT ![i] = PhaseOf(s)]
    BY <1>1, PhaseSet
  <1>4. Lifecycle!LetGo(i)
    BY <1>1, <1>2, <1>3 DEF Lifecycle!LetGo, Lifecycle!Free, runners, phases
  <1> QED BY <1>1, <1>4 DEF Lifecycle!Next

LEMMA FlushStutters ==
    ASSUME TypeOK, OneRunner, OneRunner', NEW t \in Threads, thread[t].pc \in Holding,
           NEW pc \in Holding, Flush(t, pc)
    PROVE  UNCHANGED <<phases, runners>>
  <1> DEFINE j == thread[t].job
             row == [job[j] EXCEPT !.fresh = TRUE]
             state == [thread[t] EXCEPT !.pc = pc, !.heard = job[j].cancel]
  <1>1. thread[t] \in ThreadState /\ j \in Jobs /\ job[j] \in Row
    BY DEF TypeOK, Coherent
  <1>2. row.status = job[j].status /\ state.job = j /\ state.pc = pc
    BY <1>1 DEF Row, ThreadState
  <1>3. Writes(j, row) /\ Moves(t, state)
    BY DEF Flush
  <1>4. \A i \in Jobs : job'[i].status = job[i].status
    <2> HIDE DEF j, row, state
    <2> QED BY <1>1, <1>2, <1>3 DEF Writes, TypeOK
  <1>5. \A i \in Jobs, u \in Threads : Holds(u, i)' <=> Holds(u, i)
    <2> HIDE DEF row, state
    <2> QED BY <1>2, <1>3, GoesOnHolding
  <1> QED BY <1>4, <1>5, Stutters

\* a thread that moves on with its job, or without one, leaving the rows' statuses alone
LEMMA MoveStutters ==
    ASSUME TypeOK, OneRunner, OneRunner', NEW t \in Threads, NEW state, Moves(t, state),
           state.pc \in Holding <=> thread[t].pc \in Holding, state.job = thread[t].job,
           \A j \in Jobs : job'[j].status = job[j].status
    PROVE  UNCHANGED <<phases, runners>>
  <1>1. \A j \in Jobs, u \in Threads : Holds(u, j)' <=> Holds(u, j)
    BY GoesOnHolding
  <1> QED BY <1>1, Stutters

LEMMA StepImplements ==
    ASSUME TypeOK, Ownership, OneRunner, OneRunner', Decided,
           NEW w \in Workers, NEW l \in Lanes, Step(w, l)
    PROVE  Lifecycle!Next \/ UNCHANGED <<phases, runners>>
  <1> DEFINE t == <<w, l>>
  <1>1. /\ t \in Threads /\ thread[t] \in ThreadState /\ Coherent(thread[t]) /\ Owned(t)
        /\ Decided /\ (thread[t].pc = "decided" => thread[t].status = "running")
    BY ThreadPair DEF TypeOK, Ownership, Decided
  <1>2. CASE BeginsTick(w, l)
    <2> DEFINE pc == IF l = "maintenance" THEN "housekeeping" ELSE "claiming"
    <2>1. Goes(t, pc) /\ UNCHANGED job /\ thread[t].pc \notin Holding
      BY <1>2 DEF BeginsTick, Holding
    <2>2. pc \notin Holding
      BY DEF Holding
    <2> HIDE DEF pc
    <2>3. [thread[t] EXCEPT !.pc = pc].pc = pc /\ [thread[t] EXCEPT !.pc = pc].job = thread[t].job
      BY <1>1 DEF ThreadState
    <2> QED BY <1>1, <2>1, <2>2, <2>3, MoveStutters DEF Goes
  <1>3. CASE l = "maintenance" /\ RequeuesStale(w)
    BY <1>3, RequeuesImplements
  <1>4. CASE Claims(w, l)
    BY <1>4, ClaimsImplements
  <1>5. CASE FindsNothing(w, l)
    <2>1. Moves(t, IdleThread) /\ UNCHANGED job /\ thread[t].pc \notin Holding
      BY <1>5 DEF FindsNothing, Returns, Holding
    <2>2. IdleThread.pc \notin Holding
      BY DEF IdleThread, Holding
    <2>3. \A j \in Jobs, u \in Threads : Holds(u, j)' <=> Holds(u, j)
      BY <1>1, <2>1, <2>2, GoesOnHolding
    <2> QED BY <2>1, <2>3, Stutters
  <1>6. CASE Registers(w, l)
    <2>1. \A j \in Jobs : job'[j].status = job[j].status
      BY <1>6 DEF Registers, TypeOK, Row
    <2>2. Goes(t, "registered") /\ thread[t].pc \in Holding /\ "registered" \in Holding
      BY <1>6 DEF Registers, Holding
    <2>3. /\ [thread[t] EXCEPT !.pc = "registered"].pc = "registered"
          /\ [thread[t] EXCEPT !.pc = "registered"].job = thread[t].job
      BY <1>1 DEF ThreadState
    <2> QED BY <1>1, <2>1, <2>2, <2>3, MoveStutters DEF Goes
  <1>7. CASE Starts(w, l) \/ FlushesLast(w, l)
    <2>1. thread[t].pc \in Holding /\ "work" \in Holding /\ "flushed" \in Holding
      BY <1>7 DEF Starts, FlushesLast, Holding
    <2>2. Flush(t, "work") \/ Flush(t, "flushed")
      BY <1>7 DEF Starts, FlushesLast
    <2> QED BY <1>1, <2>1, <2>2, FlushStutters
  <1>8. CASE StopsEarly(w, l)
    <2> DEFINE state == [thread[t] EXCEPT !.pc = "ended", !.outcome = "partial"]
    <2>1. state.job = thread[t].job /\ state.pc = "ended"
      BY <1>1 DEF ThreadState
    <2>2. Moves(t, state) /\ UNCHANGED job /\ thread[t].pc \in Holding /\ "ended" \in Holding
      BY <1>8 DEF StopsEarly, Ends, Holding
    <2> HIDE DEF state
    <2> QED BY <1>1, <2>1, <2>2, MoveStutters
  <1>9. CASE FindsCancelled(w, l)
    <2>1. PICK i : i = thread[t].job
      OBVIOUS
    <2>2. thread[t].pc \in Holding /\ Moves(t, IdleThread) /\ UNCHANGED job /\ job[i].status = "cancelled"
      BY <1>9, <2>1 DEF FindsCancelled, Returns, Holding
    <2>3. "cancelled" \in Verdicts /\ \A j \in Jobs : job'[j].status = IF j = i THEN "cancelled" ELSE job[j].status
      BY <2>2 DEF Verdicts, Finished
    <2> QED BY <1>1, <2>1, <2>2, <2>3, LetsGoImplements
  <1>10. CASE Decides(w, l)
    <2> DEFINE r == job[thread[t].job]
               state == [thread[t] EXCEPT !.pc = "decided", !.outcome = Verdict(w, l, r),
                                          !.status = r.status, !.worker = r.worker]
    <2>1. state.job = thread[t].job /\ state.pc = "decided"
      BY <1>1 DEF ThreadState
    <2>2. Moves(t, state) /\ UNCHANGED job /\ thread[t].pc \in Holding /\ "decided" \in Holding
      BY <1>10 DEF Decides, Holding
    <2> HIDE DEF state
    <2> QED BY <1>1, <2>1, <2>2, MoveStutters
  <1>11. CASE Saves(w, l)
    <2>1. PICK i : i = thread[t].job
      OBVIOUS
    <2>2. PICK s : s = thread[t].outcome
      OBVIOUS
    <2>3. /\ thread[t].pc \in Holding /\ thread[t].pc = "decided"
          /\ Moves(t, IdleThread)
      BY <1>11 DEF Saves, Returns, Holding
    <2>4. i \in Jobs /\ s \in Verdicts /\ s # thread[t].status
      BY <1>1, <2>1, <2>2, <2>3 DEF Coherent, Verdicts, Finished
    <2>5. PICK worker : Writes(i, [job[i] EXCEPT !.status = s, !.worker = worker])
      BY <1>11, <2>1, <2>2, <2>4 DEF Saves
    <2>6. [job[i] EXCEPT !.status = s, !.worker = worker].status = s
      BY <2>4 DEF TypeOK, Row
    <2>7. \A j \in Jobs : job'[j].status = IF j = i THEN s ELSE job[j].status
      BY <2>4, <2>5, <2>6 DEF Writes, TypeOK
    <2> QED BY <1>1, <2>1, <2>3, <2>4, <2>7, LetsGoImplements
  <1> QED BY <1>2, <1>3, <1>4, <1>5, <1>6, <1>7, <1>8, <1>9, <1>10, <1>11 DEF Step

LEMMA WorkImplements ==
    ASSUME TypeOK, OneRunner, OneRunner', NEW w \in Workers, NEW l \in Lanes,
           Work(w, l) \/ Reports(w, l) \/ Fails(w, l)
    PROVE  Lifecycle!Next \/ UNCHANGED <<phases, runners>>
  <1> DEFINE t == <<w, l>>
  <1>1. t \in Threads /\ thread[t] \in ThreadState
    BY ThreadPair DEF TypeOK
  <1>2. CASE Work(w, l)
    <2>1. PICK outcome : Ends(t, outcome) /\ UNCHANGED job /\ thread[t].pc \in Holding /\ "ended" \in Holding
      BY <1>2 DEF Work, Completes, Crashes, Holding
    <2> DEFINE state == [thread[t] EXCEPT !.pc = "ended", !.outcome = outcome]
    <2>2. state.job = thread[t].job /\ state.pc = "ended" /\ Moves(t, state)
      BY <1>1, <2>1 DEF ThreadState, Ends
    <2> HIDE DEF state
    <2> QED BY <1>1, <2>1, <2>2, MoveStutters
  <1>3. CASE Reports(w, l)
    <2>1. thread[t].pc \in Holding /\ "work" \in Holding /\ Flush(t, "work")
      BY <1>3 DEF Reports, Holding
    <2> QED BY <1>1, <2>1, FlushStutters
  <1>4. CASE RegisterFails(w, l) \/ RunFails(w, l)
    <2>1. thread[t].pc \in Holding /\ Moves(t, IdleThread) /\ UNCHANGED job
      BY <1>4 DEF RegisterFails, RunFails, Returns, Holding
    <2> QED BY <1>1, <2>1, FailsImplements
  <1>5. CASE FlushFails(w, l)
    <2> DEFINE pc == IF thread[t].pc = "registered" THEN "work" ELSE "flushed"
               state == [thread[t] EXCEPT !.pc = pc]
    <2>1. Moves(t, state) /\ UNCHANGED job /\ thread[t].pc \in Holding /\ pc \in Holding
      BY <1>5 DEF FlushFails, Goes, Holding
    <2> HIDE DEF pc
    <2>2. state.job = thread[t].job /\ state.pc = pc
      BY <1>1 DEF ThreadState
    <2> HIDE DEF state
    <2> QED BY <1>1, <2>1, <2>2, MoveStutters
  <1> QED BY <1>2, <1>3, <1>4, <1>5 DEF Fails

\* every step of the queue is a step of the promise, or none
LEMMA AnyImplements ==
    ASSUME TypeOK, Ownership, OneRunner, OneRunner', Asked, Decided, [Next]_vars
    PROVE  Lifecycle!Next \/ UNCHANGED <<phases, runners>>
  <1>1. CASE UNCHANGED <<job, thread>>
    BY <1>1, SameHolders, Stutters
  <1>2. ASSUME NEW j \in Jobs, BecomesStale(j) PROVE UNCHANGED <<phases, runners>>
    <2>1. job[j] \in Row /\ Writes(j, [job[j] EXCEPT !.fresh = FALSE]) /\ UNCHANGED thread
      BY <1>2 DEF BecomesStale, TypeOK
    <2>2. [job[j] EXCEPT !.fresh = FALSE].status = job[j].status
      BY <2>1 DEF Row
    <2>3. \A i \in Jobs : job'[i].status = job[i].status
      BY <2>1, <2>2 DEF Writes, TypeOK
    <2> QED BY <2>1, <2>3, SameHolders, Stutters
  <1>3. ASSUME NEW w \in Workers, Heartbeat(w) PROVE UNCHANGED <<phases, runners>>
    <2>1. UNCHANGED thread /\ \A j \in Jobs : job'[j].status = job[j].status
      BY <1>3 DEF Heartbeat, TypeOK, Row
    <2> QED BY <2>1, SameHolders, Stutters
  <1>4. ASSUME NEW w \in Workers, IsKilled(w) \/ Exits(w) PROVE Lifecycle!Next \/ UNCHANGED <<phases, runners>>
    BY <1>4, DiesImplements DEF IsKilled, Exits
  <1>5. ASSUME NEW w \in Workers, Boots(w) \/ IsTold(w) PROVE UNCHANGED <<job, thread>>
    BY <1>5 DEF Boots, IsTold
  <1> QED BY <1>1, <1>2, <1>3, <1>4, <1>5, RequestImplements, StepImplements, WorkImplements DEF Next, vars

LEMMA DecidedMoves ==
    ASSUME TypeOK, Decided, NEW t \in Threads, NEW state, Moves(t, state),
           state.pc = "decided" => state.status = "running"
    PROVE  Decided'
  <1>1. \A u \in Threads : thread'[u] = IF u = t THEN state ELSE thread[u]
    BY DEF Moves, TypeOK
  <1> QED BY <1>1 DEF Decided

LEMMA FlushDecided ==
    ASSUME TypeOK, Decided, NEW t \in Threads, NEW pc, pc # "decided", Flush(t, pc) PROVE Decided'
  <1>1. thread[t] \in ThreadState
    BY DEF TypeOK
  <1>2. PICK heard : Moves(t, [thread[t] EXCEPT !.pc = pc, !.heard = heard])
    BY DEF Flush
  <1>3. [thread[t] EXCEPT !.pc = pc, !.heard = heard].pc = pc
    BY <1>1 DEF ThreadState
  <1> QED BY <1>2, <1>3, DecidedMoves

LEMMA LaneDecided ==
    ASSUME TypeOK, Ownership, Decided, NEW w \in Workers, NEW l \in Lanes,
           Step(w, l) \/ Work(w, l) \/ Reports(w, l) \/ Fails(w, l)
    PROVE  Decided'
  <1> DEFINE t == <<w, l>>
  <1>1. t \in Threads /\ thread[t] \in ThreadState /\ Coherent(thread[t]) /\ Owned(t)
    BY ThreadPair DEF TypeOK, Ownership
  <1>2. ASSUME NEW pc, pc # "decided", Goes(t, pc) PROVE Decided'
    <2>1. [thread[t] EXCEPT !.pc = pc].pc = pc
      BY <1>1 DEF ThreadState
    <2> QED BY <1>1, <1>2, <2>1, DecidedMoves DEF Goes
  <1>3. ASSUME Moves(t, IdleThread) PROVE Decided'
    BY <1>1, <1>3, DecidedMoves DEF IdleThread
  <1>4. ASSUME NEW outcome, Ends(t, outcome) PROVE Decided'
    <2>1. [thread[t] EXCEPT !.pc = "ended", !.outcome = outcome].pc = "ended"
      BY <1>1 DEF ThreadState
    <2> QED BY <1>1, <1>4, <2>1, DecidedMoves DEF Ends
  <1>5. CASE BeginsTick(w, l) \/ Registers(w, l) \/ FlushFails(w, l)
    <2>1. PICK pc : pc # "decided" /\ Goes(t, pc)
      BY <1>5 DEF BeginsTick, Registers, FlushFails
    <2> QED BY <1>2, <2>1
  <1>6. CASE l = "maintenance" /\ RequeuesStale(w)
    <2>1. Goes(t, "claiming")
      BY Zenon, <1>6 DEF RequeuesStale
    <2> QED BY <1>2, <2>1
  <1>7. CASE Claims(w, l)
    <2>1. PICK j \in Jobs : Moves(t, [IdleThread EXCEPT !.pc = "claimed", !.job = j])
      BY <1>7 DEF Claims, Claimable
    <2>2. [IdleThread EXCEPT !.pc = "claimed", !.job = j].pc = "claimed"
      BY DEF IdleThread
    <2> HIDE DEF t
    <2> QED BY <1>1, <2>1, <2>2, DecidedMoves
  <1>8. CASE FindsNothing(w, l) \/ FindsCancelled(w, l) \/ Saves(w, l) \/ RegisterFails(w, l) \/ RunFails(w, l)
    BY <1>3, <1>8 DEF FindsNothing, FindsCancelled, Saves, RegisterFails, RunFails, Returns
  <1>9. CASE Starts(w, l) \/ FlushesLast(w, l) \/ Reports(w, l)
    BY <1>1, <1>9, FlushDecided DEF Starts, FlushesLast, Reports
  <1>10. CASE StopsEarly(w, l) \/ Work(w, l)
    BY <1>4, <1>10 DEF StopsEarly, Work, Completes, Crashes
  <1>11. CASE Decides(w, l)
    <2> DEFINE r == job[thread[t].job]
               state == [thread[t] EXCEPT !.pc = "decided", !.outcome = Verdict(w, l, r),
                                          !.status = r.status, !.worker = r.worker]
    <2>1. state.status = r.status /\ Moves(t, state)
      BY <1>1, <1>11 DEF ThreadState, Decides
    <2>2. r.status = "running"
      BY <1>1, <1>11 DEF Decides, Owned, Holding
    <2> HIDE DEF state, r
    <2> QED BY <1>1, <2>1, <2>2, DecidedMoves
  <1> QED BY <1>5, <1>6, <1>7, <1>8, <1>9, <1>10, <1>11 DEF Step, Fails

LEMMA DecidedNext == TypeOK /\ Ownership /\ Decided /\ [Next]_vars => Decided'
  <1> SUFFICES ASSUME TypeOK, Ownership, Decided, [Next]_vars PROVE Decided'
    OBVIOUS
  <1>1. CASE UNCHANGED thread
    BY <1>1 DEF Decided
  <1>2. ASSUME NEW w \in Workers, Dies(w) PROVE Decided'
    <2>1. \A t \in Threads : thread'[t] \in {IdleThread, thread[t]}
      BY <1>2 DEF Dies
    <2> QED BY <2>1 DEF Decided, IdleThread
  <1>3. ASSUME NEW a \in Admins, Request(a) PROVE UNCHANGED thread
    BY <1>3 DEF Request, AsksForJob, InsertsJob, AsksToCancel, Cancels
  <1>4. ASSUME NEW j \in Jobs, BecomesStale(j) PROVE UNCHANGED thread
    BY <1>4 DEF BecomesStale
  <1>5. ASSUME NEW w \in Workers, Heartbeat(w) \/ Boots(w) \/ IsTold(w) PROVE UNCHANGED thread
    BY <1>5 DEF Heartbeat, Boots, IsTold
  <1>6. ASSUME NEW w \in Workers, IsKilled(w) \/ Exits(w) PROVE Decided'
    BY <1>2, <1>6 DEF IsKilled, Exits
  <1> QED BY <1>1, <1>3, <1>4, <1>5, <1>6, LaneDecided DEF Next, vars

\* a row is never deleted
LEMMA RowsStay ==
    ASSUME TypeOK, TypeOK', Lifecycle!Next \/ UNCHANGED <<phases, runners>>,
           NEW j \in Jobs, job[j].status # "none"
    PROVE  job'[j].status # "none"
  <1>1. phases[j] # "absent"
    BY PhasesOf DEF phases, TypeOK, Row
  <1>2. phases'[j] # "absent"
    <2>1. CASE Lifecycle!Next
      <3>1. ASSUME NEW i \in Jobs, Lifecycle!Submit(i) \/ Lifecycle!Withdraw(i) \/ Lifecycle!LetGo(i)
            PROVE  phases'[j] # "absent"
        BY <1>1, <3>1 DEF phases, Lifecycle!Submit, Lifecycle!Withdraw, Lifecycle!LetGo
      <3>2. ASSUME NEW i \in Jobs, NEW w \in Workers, Lifecycle!Take(i, w) PROVE phases'[j] # "absent"
        BY <1>1, <3>2 DEF phases, Lifecycle!Take
      <3>3. ASSUME NEW S \in SUBSET Jobs, Lifecycle!Drop(S) PROVE phases'[j] # "absent"
        BY <1>1, <3>3 DEF phases, Lifecycle!Drop
      <3>4. ASSUME NEW S \in SUBSET Jobs, Lifecycle!Recover(S) PROVE phases'[j] # "absent"
        BY <1>1, <3>4 DEF phases, Lifecycle!Recover
      <3> QED BY <2>1, <3>1, <3>2, <3>3, <3>4 DEF Lifecycle!Next
    <2>2. CASE UNCHANGED phases
      BY <1>1, <2>2
    <2> QED BY <2>1, <2>2
  <1> QED BY <1>2, PhasesOf DEF phases

LEMMA AskedNext ==
    ASSUME TypeOK, TypeOK', Asked, [Next]_vars, Lifecycle!Next \/ UNCHANGED <<phases, runners>>
    PROVE  Asked'
  <1>1. CASE UNCHANGED admin
    <2> SUFFICES ASSUME NEW a \in Admins, admin[a].pc = "cancelling" PROVE job'[admin[a].job].status # "none"
      BY <1>1 DEF Asked
    <2>1. admin[a].job \in Jobs /\ job[admin[a].job].status # "none"
      BY DEF Asked, TypeOK, Meant
    <2> QED BY <2>1, RowsStay
  <1>2. ASSUME NEW a \in Admins, NEW state, admin' = [admin EXCEPT ![a] = state],
               state.pc = "cancelling" => state.job \in Jobs /\ job[state.job].status # "none"
        PROVE  Asked'
    <2> SUFFICES ASSUME NEW b \in Admins, admin'[b].pc = "cancelling"
                 PROVE  job'[admin'[b].job].status # "none"
      BY DEF Asked
    <2>1. admin'[b] = IF b = a THEN state ELSE admin[b]
      BY <1>2 DEF TypeOK
    <2>2. admin'[b].job \in Jobs /\ job[admin'[b].job].status # "none"
      BY <1>2, <2>1 DEF Asked, TypeOK, Meant
    <2> QED BY <2>2, RowsStay
  <1>3. ASSUME NEW a \in Admins, Request(a) PROVE Asked'
    <2>1. ASSUME NEW k \in Kinds, AsksForJob(a, k) PROVE Asked'
      <3>1. [IdleAdmin EXCEPT !.pc = "creating", !.kind = k].pc = "creating"
        BY DEF IdleAdmin
      <3> QED BY <1>2, <2>1, <3>1 DEF AsksForJob
    <2>2. CASE InsertsJob(a) \/ Cancels(a)
      BY <1>2, <2>2 DEF InsertsJob, Cancels, IdleAdmin
    <2>3. ASSUME NEW j \in Jobs, NEW force \in Forces, AsksToCancel(a, j, force) PROVE Asked'
      <3> DEFINE state == [IdleAdmin EXCEPT !.pc = "cancelling", !.job = j, !.seen = job[j].status, !.force = force]
      <3>1. state.job = j
        BY DEF IdleAdmin
      <3>2. admin' = [admin EXCEPT ![a] = state] /\ job[j].status # "none"
        BY <2>3 DEF AsksToCancel, Active
      <3> HIDE DEF state
      <3> QED BY <1>2, <3>1, <3>2
    <2> QED BY <1>3, <2>1, <2>2, <2>3 DEF Request
  <1>4. ASSUME NEW j \in Jobs, BecomesStale(j) PROVE UNCHANGED admin
    BY <1>4 DEF BecomesStale
  <1>5. ASSUME NEW w \in Workers, Heartbeat(w) \/ Boots(w) \/ IsTold(w) \/ IsKilled(w) \/ Exits(w)
        PROVE  UNCHANGED admin
    BY <1>5 DEF Heartbeat, Boots, IsTold, IsKilled, Exits, Dies
  <1>6. ASSUME NEW w \in Workers, NEW l \in Lanes, Work(w, l) \/ Reports(w, l) \/ Fails(w, l) PROVE UNCHANGED admin
    BY <1>6 DEF Work, Completes, Crashes, Reports, Flush, Fails, RegisterFails, FlushFails, RunFails
  <1>7. ASSUME NEW w \in Workers, NEW l \in Lanes, Step(w, l) PROVE UNCHANGED admin
    <2>1. CASE l = "maintenance" /\ RequeuesStale(w)
      BY Zenon, <2>1 DEF RequeuesStale
    <2> QED BY <1>7, <2>1 DEF Step, BeginsTick, Claims, FindsNothing, Registers, Starts, Flush,
          StopsEarly, FlushesLast, FindsCancelled, Decides, Saves
  <1> QED BY <1>1, <1>3, <1>4, <1>5, <1>6, <1>7 DEF Next, vars

LEMMA ImplementsInit == Init => Lifecycle!Init /\ Asked /\ Decided
  <1> SUFFICES ASSUME Init PROVE Lifecycle!Init /\ Asked /\ Decided
    OBVIOUS
  <1>1. Asked /\ Decided
    BY DEF Init, Asked, Decided, IdleAdmin, IdleThread
  <1>2. phases = [j \in Jobs |-> "absent"]
    BY PhasesOf DEF phases, Init, NoRow
  <1>3. runners = [j \in Jobs |-> NoWorker]
    <2>1. \A j \in Jobs, t \in Threads : ~Holds(t, j)
      BY DEF Init, Holds, IdleThread, Holding
    <2> QED BY <2>1 DEF runners, RunnerOf
  <1> QED BY <1>1, <1>2, <1>3 DEF Lifecycle!Init, phases, runners

\* As long as heartbeats get through, rows, requests and workers together keep the promise
\* of JobLifecycle: a job is run by one worker at a time, taken only while it waits for one,
\* and it never waits again once it ended.
THEOREM KeepsThePromise == ASSUME HeartbeatsGetThrough PROVE Spec => ImplementsLifecycle
  <1>1. TypeOK /\ TypeOK' /\ Ownership /\ Ownership' /\ Asked /\ Decided /\ [Next]_vars =>
          Asked' /\ Decided' /\ (Lifecycle!Next \/ UNCHANGED <<phases, runners>>)
    <2> SUFFICES ASSUME TypeOK, TypeOK', Ownership, Ownership', Asked, Decided, [Next]_vars
                 PROVE  Asked' /\ Decided' /\ (Lifecycle!Next \/ UNCHANGED <<phases, runners>>)
      OBVIOUS
    <2>1. OneRunner /\ OneRunner'
      BY OwnersAreAlone DEF OneRunner, Ownership, Owned, Holds, Threads
    <2>2. Lifecycle!Next \/ UNCHANGED <<phases, runners>>
      BY <2>1, AnyImplements
    <2> QED BY <2>2, AskedNext, DecidedNext
  <1>2. UNCHANGED <<phases, runners>> =>
          UNCHANGED <<[j \in Jobs |-> PhaseOf(job[j].status)], [j \in Jobs |-> RunnerOf(j)]>>
    BY DEF phases, runners
  <1> QED BY <1>1, <1>2, ImplementsInit, Owners, TypeCorrect, PTL DEF Spec, ImplementsLifecycle, Lifecycle!Spec
=============================================================================
