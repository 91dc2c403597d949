---------------------------- MODULE ServerProofs ----------------------------
(***************************************************************************)
(* The server's components next to each other, for every value of their    *)
(* constants.  Emails about batches, for any number of runs, any nesting   *)
(* of the steps they start and any number of restarts: at most one is      *)
(* sent, when the command is over, and nobody is left waiting for one.     *)
(* Then the deletion of old runs: what HardDeleteProofs shows of it alone  *)
(* still holds beside whatever commands run.                               *)
(***************************************************************************)
EXTENDS Server, TLAPS

(* The types, one by one.                                                  *)
RunTypes == row \in [Runs -> Rows] /\ job \in [Runs -> Jobs] /\ thread \in [Runs -> Threads]
NoteTypes ==
    /\ note \in Notes /\ emails \in Nat
    /\ asked \in {"sending", "given up", "answered"} /\ cli \in {"up", "failed"}
    /\ restarts \in Nat /\ late \in BOOLEAN
AdminTypes ==
    /\ stop \in [at : Stages, ids : SUBSET Runs] /\ fail \in [at : Stages, ids : SUBSET Runs]
    /\ givenUp \in SUBSET Runs /\ unheard \in SUBSET Runs

LEMMA Types == TypeOK <=> RunTypes /\ NoteTypes /\ AdminTypes
BY DEF TypeOK, RunTypes, NoteTypes, AdminTypes

LEMMA TypeInit == Init => TypeOK
<1> SUFFICES ASSUME Init PROVE RunTypes /\ NoteTypes /\ AdminTypes
  BY Types
<1>1. RunTypes
  BY DEF Init, RunTypes, Rows, Jobs, Threads
<1>2. NoteTypes
  BY DEF Init, NoteTypes, Notes
<1>3. AdminTypes
  BY DEF Init, AdminTypes, Stages
<1> QED
  BY <1>1, <1>2, <1>3

(* Every step keeps the types.                                             *)
LEMMA RunTypesStep == TypeOK /\ [Next]_vars => RunTypes'
<1> SUFFICES ASSUME RunTypes, [Next]_vars PROVE RunTypes'
  BY Types
<1> USE DEF RunTypes, Rows, Jobs, Threads
<1>1. CASE Request \/ RequestTimesOut \/ FailToStart
  BY <1>1 DEF Request, RequestTimesOut, FailToStart
<1>2. ASSUME NEW r \in Runs, Tell(r) \/ Start(r) \/ End(r) \/ EndUnsaid(r) \/ Settle(r)
      PROVE  RunTypes'
  BY <1>2 DEF Tell, Start, End, EndUnsaid, Settle
<1>3. ASSUME NEW r \in Runs, Handler(r)
      PROVE  RunTypes'
  BY <1>3 DEF Handler, Save, Look, Check, Claim, Send, Goes
<1>4. CASE Stop \/ Stopped
  BY <1>4 DEF Stop, Stopped
<1>5. CASE FailPick \/ FailMark \/ FailCheck \/ FailCancel
  BY <1>5 DEF FailPick, FailMark, FailCheck, FailCancel
<1>6. CASE Restart
  BY <1>6 DEF Restart
<1>7. CASE UNCHANGED vars
  BY <1>7 DEF vars
<1> QED
  BY <1>1, <1>2, <1>3, <1>4, <1>5, <1>6, <1>7 DEF Next

LEMMA OneMore ==
    ASSUME NEW n \in Nat
    PROVE  n + 1 \in Nat
OBVIOUS

LEMMA NoteTypesStep == TypeOK /\ [Next]_vars => NoteTypes'
<1> SUFFICES ASSUME NoteTypes, [Next]_vars PROVE NoteTypes'
  BY Types
<1> USE DEF NoteTypes, Notes
<1>1. CASE Request \/ RequestTimesOut \/ FailToStart
  BY <1>1 DEF Request, RequestTimesOut, FailToStart
<1>2. ASSUME NEW r \in Runs, Tell(r) \/ Start(r) \/ End(r) \/ EndUnsaid(r) \/ Settle(r)
      PROVE  NoteTypes'
  BY <1>2 DEF Tell, Start, End, EndUnsaid, Settle
<1>3. ASSUME NEW r \in Runs, Save(r) \/ Look(r) \/ Check(r)
      PROVE  NoteTypes'
  BY <1>3 DEF Save, Look, Check
<1>7. ASSUME NEW r \in Runs, Claim(r)
      PROVE  NoteTypes'
  BY <1>7 DEF Claim
<1>8. ASSUME NEW r \in Runs, Send(r)
      PROVE  NoteTypes'
  <2>1. note' \in Notes /\ UNCHANGED <<asked, cli, restarts, late>>
    BY <1>8 DEF Send
  <2>2. emails' \in Nat
    BY <1>8, OneMore DEF Send
  <2> QED
    BY <2>1, <2>2
<1>4. CASE Stop \/ Stopped \/ FailPick \/ FailMark \/ FailCheck \/ FailCancel
  BY <1>4 DEF Stop, Stopped, FailPick, FailMark, FailCheck, FailCancel
<1>5. CASE Restart
  <2>3. restarts' = restarts + 1 /\ asked' = IF asked = "sending" THEN "given up" ELSE asked
    BY <1>5 DEF Restart
  <2>1. asked' \in {"sending", "given up", "answered"} /\ restarts' \in Nat
    BY <2>3, OneMore
  <2>2. UNCHANGED <<note, emails, cli, late>>
    BY <1>5 DEF Restart
  <2> QED
    BY <2>1, <2>2
<1>6. CASE UNCHANGED vars
  BY <1>6 DEF vars
<1> QED
  BY <1>1, <1>2, <1>3, <1>4, <1>5, <1>6, <1>7, <1>8 DEF Next, Handler

LEMMA AdminTypesStep == TypeOK /\ [Next]_vars => AdminTypes'
<1> SUFFICES ASSUME AdminTypes, [Next]_vars PROVE AdminTypes'
  BY Types
<1> USE DEF AdminTypes, Stages
<1>1. CASE Request \/ RequestTimesOut \/ FailToStart
  BY <1>1 DEF Request, RequestTimesOut, FailToStart
<1>2. ASSUME NEW r \in Runs, Tell(r) \/ Start(r) \/ End(r) \/ EndUnsaid(r) \/ Settle(r)
      PROVE  AdminTypes'
  BY <1>2 DEF Tell, Start, End, EndUnsaid, Settle
<1>3. ASSUME NEW r \in Runs, Handler(r)
      PROVE  AdminTypes'
  BY <1>3 DEF Handler, Save, Look, Check, Claim, Send
<1>4. CASE Stop
  BY <1>4 DEF Stop, PendingRuns
<1>5. CASE Stopped
  BY <1>5 DEF Stopped
<1>6. CASE FailPick
  BY <1>6 DEF FailPick, PendingRuns
<1>7. CASE FailMark
  BY <1>7 DEF FailMark
<1>8. CASE FailCheck \/ FailCancel
  BY <1>8 DEF FailCheck, FailCancel
<1>9. CASE Restart
  BY <1>9 DEF Restart
<1>10. CASE UNCHANGED vars
  BY <1>10 DEF vars
<1> QED
  BY <1>1, <1>2, <1>3, <1>4, <1>5, <1>6, <1>7, <1>8, <1>9, <1>10 DEF Next

LEMMA TypeStep == TypeOK /\ [Next]_vars => TypeOK'
<1>1. TypeOK /\ [Next]_vars => RunTypes' /\ NoteTypes' /\ AdminTypes'
  BY RunTypesStep, NoteTypesStep, AdminTypesStep
<1> QED
  BY <1>1 DEF TypeOK, RunTypes, NoteTypes, AdminTypes

(* For any runs, nested in any way: the rows, the runs, the handlers and   *)
(* the notification keep their types.                                      *)
THEOREM TypeCorrect == Spec => []TypeOK
<1> QED
  BY TypeInit, TypeStep, PTL DEF Spec

-----------------------------------------------------------------------------
(* One handler sends, the one that claimed the notification.               *)
Once ==
    /\ emails = IF note = "sent" THEN 1 ELSE 0
    /\ \A r \in Runs : thread[r] = "send" => note = "sending"
    /\ \A r, o \in Runs : thread[r] = "send" /\ thread[o] = "send" => r = o

(* What keeps it: the notification stays, and nobody starts to send.       *)
SendsLess ==
    /\ UNCHANGED <<note, emails>>
    /\ \A r \in Runs : thread'[r] = "send" => thread[r] = "send"

LEMMA SendsLessKeepsOnce == Once /\ SendsLess => Once'
BY DEF Once, SendsLess

LEMMA OnceStep == TypeOK /\ Once /\ [Next]_vars => Once'
<1> SUFFICES ASSUME TypeOK, Once, [Next]_vars PROVE Once'
  OBVIOUS
<1>0. thread \in [Runs -> Threads] /\ note \in Notes
  BY DEF TypeOK
<1>1. CASE Request \/ RequestTimesOut \/ FailToStart
  BY <1>1 DEF Request, RequestTimesOut, FailToStart, Once
<1>2. ASSUME NEW r \in Runs, Tell(r) \/ Start(r) \/ EndUnsaid(r)
      PROVE  Once'
  BY <1>2, SendsLessKeepsOnce DEF Tell, Start, EndUnsaid, SendsLess
<1>3. ASSUME NEW r \in Runs, End(r) \/ Settle(r) \/ Save(r) \/ Look(r) \/ Check(r)
      PROVE  Once'
  <2>1. UNCHANGED <<note, emails>>
    BY <1>3 DEF End, Settle, Save, Look, Check
  <2>2. \E to \in Threads \ {"send"} : thread' = [thread EXCEPT ![r] = to]
    BY <1>3 DEF End, Settle, Save, Look, Check, Goes, Threads
  <2>3. SendsLess
    BY <2>1, <2>2, <1>0 DEF SendsLess
  <2> QED
    BY <2>3, SendsLessKeepsOnce
<1>4. ASSUME NEW r \in Runs, Claim(r)
      PROVE  Once'
  <2>1. CASE note = "waiting"
    <3>1. \A o \in Runs : thread[o] # "send"
      BY <2>1 DEF Once
    <3>2. note' = "sending" /\ emails' = emails /\ thread' = [thread EXCEPT ![r] = "send"]
      BY <1>4, <2>1 DEF Claim, Goes
    <3>3. \A o \in Runs : thread'[o] = "send" => o = r
      BY <3>1, <3>2, <1>0
    <3> QED
      BY <2>1, <3>2, <3>3 DEF Once
  <2>2. CASE note # "waiting"
    <3>1. UNCHANGED <<note, emails>> /\ thread' = [thread EXCEPT ![r] = "idle"]
      BY <1>4, <2>2 DEF Claim, Goes
    <3> QED
      BY <3>1, <1>0, SendsLessKeepsOnce DEF SendsLess
  <2> QED
    BY <2>1, <2>2
<1>5. ASSUME NEW r \in Runs, Send(r)
      PROVE  Once'
  <2>1. /\ thread[r] = "send" /\ note = "sending" /\ thread' = [thread EXCEPT ![r] = "idle"]
        /\ \/ emails' = emails + 1 /\ note' = "sent"
           \/ emails' = emails /\ note' = "failed"
    BY <1>5 DEF Send, Goes
  <2>2. emails = 0 /\ \A o \in Runs : thread'[o] # "send"
    BY <2>1, <1>0 DEF Once
  <2> QED
    BY <2>1, <2>2 DEF Once
<1>6. CASE Stop \/ Stopped \/ FailPick \/ FailMark \/ FailCheck
  BY <1>6, SendsLessKeepsOnce DEF Stop, Stopped, FailPick, FailMark, FailCheck, SendsLess
<1>7. CASE FailCancel
  BY <1>7 DEF FailCancel, Once
<1>8. CASE Restart
  BY <1>8, SendsLessKeepsOnce DEF Restart, SendsLess
<1>9. CASE UNCHANGED vars
  BY <1>9, SendsLessKeepsOnce DEF vars, SendsLess
<1> QED
  BY <1>1, <1>2, <1>3, <1>4, <1>5, <1>6, <1>7, <1>8, <1>9 DEF Next, Handler

(* A command is emailed about at most once, whichever of its runs end      *)
(* together, and whenever the server restarts or the email is cancelled.   *)
THEOREM EmailedOnce == Spec => []AtMostOneEmail
<1>1. Init => Once
  BY DEF Init, Once
<1>2. Once => AtMostOneEmail
  BY DEF Once, AtMostOneEmail
<1> QED
  BY <1>1, <1>2, OnceStep, TypeCorrect, PTL DEF Spec

-----------------------------------------------------------------------------
(* While nobody gave up on a run, the database knows which are under way,  *)
(* of those that it heard of; those `qa batch` starts itself were all told *)
(* about before any started, and who is about to claim the notification    *)
(* knows that all are over.                                                *)
NobodyGaveUp == givenUp = {} /\ stop.at = "no"
Handled == \A r \in Runs : thread[r] # "idle" => job[r] = "over"
Known == \A r \in Runs \ unheard : job[r] \in {"told", "running"} => row[r] = "pending"
AllTold ==
    \A r, o \in Runs :
        /\ StartedBy[o] = Cli
        /\ job[r] \in {"running", "over"} \/ (job[r] = "told" /\ StartedBy[r] # Cli)
        => job[o] # "new"
ClaimsAtTheEnd == \A r \in Runs : thread[r] = "claim" => AllOver

EndInv == Handled /\ (NobodyGaveUp => Known /\ AllTold /\ ClaimsAtTheEnd)

(* Once all is over, it stays so.                                          *)
LEMMA StaysOver ==
    ASSUME TypeOK, AllOver, [Next]_vars
    PROVE  AllOver'
<1>0. job \in [Runs -> Jobs] /\ unheard \in SUBSET Runs
  BY DEF TypeOK
<1> USE DEF AllOver, Over
<1>1. ASSUME NEW r \in Runs, Tell(r)
      PROVE  AllOver'
  <2>1. job[r] = "new" /\ unheard \subseteq unheard'
    BY <1>1 DEF Tell
  <2>2. \A o \in Runs \ {r} : job'[o] = job[o]
    BY <1>0, <1>1 DEF Tell
  <2>3. r \in unheard'
    <3>1. CASE r \in unheard
      BY <2>1, <3>1
    <3>2. CASE r \notin unheard
      <4>1. StartedBy[r] # Cli
        BY <2>1, <3>2
      <4>2. StartedBy[r] \in Runs /\ job[StartedBy[r]] = "running"
        BY <1>1, <4>1, StarterAssumption DEF Tell
      <4>3. StartedBy[r] \in unheard
        BY <4>2
      <4> QED
        BY <1>1, <4>3 DEF Tell
    <3> QED
      BY <3>1, <3>2
  <2> QED
    BY <2>1, <2>2, <2>3
<1>2. ASSUME NEW r \in Runs, Start(r) \/ End(r) \/ EndUnsaid(r)
      PROVE  AllOver'
  <2>1. r \in unheard /\ unheard' = unheard
    BY <1>2 DEF Start, End, EndUnsaid
  <2>2. \A o \in Runs \ {r} : job'[o] = job[o]
    BY <1>0, <1>2 DEF Start, End, EndUnsaid
  <2> QED
    BY <2>1, <2>2
<1>3. ASSUME NEW r \in Runs, Settle(r) \/ Handler(r)
      PROVE  AllOver'
  BY <1>3 DEF Settle, Handler, Save, Look, Check, Claim, Send
<1>4. CASE Request \/ RequestTimesOut \/ FailToStart
  BY <1>4 DEF Request, RequestTimesOut, FailToStart
<1>5. CASE Stop
  <2>1. unheard' = unheard /\ \A r \in Runs : job'[r] = job[r] \/ job'[r] = "over"
    BY <1>5 DEF Stop
  <2> QED
    BY <2>1
<1>6. CASE Stopped \/ FailPick \/ FailMark \/ FailCheck \/ FailCancel \/ Restart
  BY <1>6 DEF Stopped, FailPick, FailMark, FailCheck, FailCancel, Restart
<1>7. CASE UNCHANGED vars
  BY <1>7 DEF vars
<1> QED
  BY <1>1, <1>2, <1>3, <1>4, <1>5, <1>6, <1>7 DEF Next

-----------------------------------------------------------------------------
LEMMA HandledStep == TypeOK /\ Handled /\ [Next]_vars => Handled'
<1> SUFFICES ASSUME TypeOK, Handled, [Next]_vars PROVE Handled'
  OBVIOUS
<1>0. thread \in [Runs -> Threads] /\ job \in [Runs -> Jobs]
  BY DEF TypeOK
<1>1. CASE Request \/ RequestTimesOut \/ FailToStart
  BY <1>1 DEF Request, RequestTimesOut, FailToStart, Handled
<1>2. ASSUME NEW r \in Runs, Tell(r) \/ Start(r) \/ EndUnsaid(r)
      PROVE  Handled'
  <2>1. job[r] # "over" /\ thread' = thread /\ \A o \in Runs \ {r} : job'[o] = job[o]
    BY <1>2, <1>0 DEF Tell, Start, EndUnsaid
  <2> QED
    BY <2>1 DEF Handled
<1>3. ASSUME NEW r \in Runs, End(r) \/ Settle(r) \/ Handler(r)
      PROVE  Handled'
  <2>1. job'[r] = "over"
    BY <1>3, <1>0 DEF End, Settle, Siblings, Handler, Save, Look, Check, Claim, Send, Handled
  <2>2. \A o \in Runs \ {r} : job'[o] = job[o] /\ thread'[o] = thread[o]
    BY <1>3, <1>0 DEF End, Settle, Handler, Save, Look, Check, Claim, Send, Goes
  <2> QED
    BY <2>1, <2>2 DEF Handled
<1>4. CASE Stop
  BY <1>4, <1>0 DEF Stop, Handled
<1>5. CASE Stopped \/ FailPick \/ FailMark \/ FailCheck \/ FailCancel
  BY <1>5 DEF Stopped, FailPick, FailMark, FailCheck, FailCancel, Handled
<1>6. CASE Restart
  BY <1>6 DEF Restart, Handled
<1>7. CASE UNCHANGED vars
  BY <1>7 DEF vars, Handled
<1> QED
  BY <1>1, <1>2, <1>3, <1>4, <1>5, <1>6, <1>7 DEF Next

(* Nobody gave up after a step: nobody had before it, and none of the      *)
(* steps that give up on runs changed a row.                               *)
LEMMA StillNobody ==
    ASSUME TypeOK, [Next]_vars, NobodyGaveUp'
    PROVE  NobodyGaveUp /\ ~Stop /\ ~Stopped /\ (FailMark => UNCHANGED row)
<1>0. row \in [Runs -> Rows] /\ fail.ids \in SUBSET Runs
  BY DEF TypeOK
<1>1. ~Stop
  BY DEF Stop, NobodyGaveUp
<1>2. ~Stopped
  BY DEF Stopped, NobodyGaveUp
<1>3. FailMark => UNCHANGED row
  BY <1>0 DEF FailMark, NobodyGaveUp
<1>4. NobodyGaveUp
  <2>1. CASE Request \/ RequestTimesOut \/ FailToStart
    BY <2>1 DEF Request, RequestTimesOut, FailToStart, NobodyGaveUp
  <2>2. ASSUME NEW r \in Runs, Tell(r) \/ Start(r) \/ End(r) \/ EndUnsaid(r) \/ Settle(r)
        PROVE  NobodyGaveUp
    BY <2>2 DEF Tell, Start, End, EndUnsaid, Settle, NobodyGaveUp
  <2>3. ASSUME NEW r \in Runs, Handler(r)
        PROVE  NobodyGaveUp
    BY <2>3 DEF Handler, Save, Look, Check, Claim, Send, NobodyGaveUp
  <2>4. CASE FailPick \/ FailMark \/ FailCheck \/ FailCancel
    BY <2>4 DEF FailPick, FailMark, FailCheck, FailCancel, NobodyGaveUp
  <2>5. CASE Restart
    <3>1. givenUp' = givenUp /\ stop' = [stop EXCEPT !.at = IF stop.at = "no" THEN "no" ELSE "done"]
      BY <2>5 DEF Restart
    <3>2. stop \in [at : Stages, ids : SUBSET Runs]
      BY DEF TypeOK
    <3> QED
      BY <3>1, <3>2 DEF NobodyGaveUp
  <2>6. CASE UNCHANGED vars
    BY <2>6 DEF vars, NobodyGaveUp
  <2> QED
    BY <1>1, <1>2, <2>1, <2>2, <2>3, <2>4, <2>5, <2>6 DEF Next
<1> QED
  BY <1>1, <1>2, <1>3, <1>4

LEMMA KnownStep ==
    ASSUME TypeOK, Handled, Known, [Next]_vars, NobodyGaveUp'
    PROVE  Known'
<1>0. row \in [Runs -> Rows] /\ job \in [Runs -> Jobs]
  BY DEF TypeOK
<1>1. CASE Request \/ RequestTimesOut \/ FailToStart
  BY <1>1 DEF Request, RequestTimesOut, FailToStart, Known
<1>2. ASSUME NEW r \in Runs, Tell(r)
      PROVE  Known'
  <2>1. /\ job' = [job EXCEPT ![r] = "told"] /\ unheard \subseteq unheard'
        /\ row' = [row EXCEPT ![r] = "pending"] \/ (row' = row /\ r \in unheard')
    BY <1>2 DEF Tell
  <2> QED
    BY <2>1, <1>0 DEF Known
<1>9. ASSUME NEW r \in Runs, Start(r)
      PROVE  Known'
  <2>1. job[r] = "told" /\ job' = [job EXCEPT ![r] = "running"] /\ unheard' = unheard
    BY <1>9 DEF Start
  <2>2. row' = row \/ row' = [row EXCEPT ![r] = IF row[r] = "untold" THEN "untold" ELSE "pending"]
    BY <1>9 DEF Start
  <2>3. \A o \in Runs : row[o] = "pending" => row'[o] = "pending"
    BY <2>2, <1>0
  <2> QED
    BY <2>1, <2>3, <1>0 DEF Known
<1>3. ASSUME NEW r \in Runs, End(r) \/ EndUnsaid(r)
      PROVE  Known'
  BY <1>3, <1>0 DEF End, EndUnsaid, Known
<1>4. ASSUME NEW r \in Runs, Save(r)
      PROVE  Known'
  <2>1. job[r] = "over" /\ job' = job /\ unheard' = unheard
    BY <1>4 DEF Save, Handled
  <2>2. \A o \in Runs \ {r} : row'[o] = row[o]
    BY <1>4, <1>0 DEF Save
  <2> QED
    BY <2>1, <2>2 DEF Known
<1>5. ASSUME NEW r \in Runs, Settle(r) \/ Look(r) \/ Check(r) \/ Claim(r) \/ Send(r)
      PROVE  Known'
  BY <1>5 DEF Settle, Look, Check, Claim, Send, Known
<1>6. CASE FailMark
  <2>1. UNCHANGED <<row, job, unheard>>
    BY <1>6, StillNobody DEF FailMark
  <2> QED
    BY <2>1 DEF Known
<1>7. CASE FailPick \/ FailCheck \/ FailCancel \/ Restart
  BY <1>7 DEF FailPick, FailCheck, FailCancel, Restart, Known
<1>8. CASE UNCHANGED vars
  BY <1>8 DEF vars, Known
<1> QED
  BY <1>1, <1>2, <1>3, <1>4, <1>5, <1>6, <1>7, <1>8, <1>9, StillNobody DEF Next, Handler

LEMMA AllToldStep ==
    ASSUME TypeOK, AllTold, [Next]_vars, NobodyGaveUp'
    PROVE  AllTold'
<1>0. job \in [Runs -> Jobs] /\ \A r \in Runs : StartedBy[r] # Cli => StartedBy[r] \in Runs
  BY StarterAssumption DEF TypeOK
<1> DEFINE Told == \A o \in Runs : StartedBy[o] = Cli => job[o] # "new"
<1>1. ASSUME NEW r \in Runs, Tell(r)
      PROVE  AllTold'
  <2>1. job' = [job EXCEPT ![r] = "told"]
    BY <1>1 DEF Tell
  <2>2. StartedBy[r] # Cli => Told
    BY <1>1, <1>0 DEF Tell, AllTold
  <2> QED
    BY <2>1, <2>2, <1>0 DEF AllTold
<1>2. ASSUME NEW r \in Runs, Start(r) \/ End(r) \/ EndUnsaid(r)
      PROVE  AllTold'
  <2>1. \E to \in {"running", "over"} : job' = [job EXCEPT ![r] = to]
    BY <1>2 DEF Start, End, EndUnsaid
  <2>2. CASE job[r] = "running"
    <3>1. Told
      BY <2>2 DEF AllTold
    <3> QED
      BY <2>1, <3>1, <1>0 DEF AllTold
  <2>3. CASE job[r] # "running"
    <3>1. job[r] = "told" /\ Started(r)
      BY <1>2, <2>3 DEF Start, End, EndUnsaid
    <3>2. Told
      BY <3>1 DEF Started, Siblings, AllTold
    <3> QED
      BY <2>1, <3>2, <1>0 DEF AllTold
  <2> QED
    BY <2>2, <2>3
<1>3. CASE UNCHANGED job
  BY <1>3 DEF AllTold
<1>4. (\E r \in Runs : Tell(r) \/ Start(r) \/ End(r) \/ EndUnsaid(r)) \/ UNCHANGED job
  <2>1. CASE Request \/ RequestTimesOut \/ FailToStart
    BY <2>1 DEF Request, RequestTimesOut, FailToStart
  <2>2. ASSUME NEW r \in Runs, Settle(r) \/ Handler(r)
        PROVE  UNCHANGED job
    BY <2>2 DEF Settle, Handler, Save, Look, Check, Claim, Send
  <2>3. CASE FailPick \/ FailMark \/ FailCheck \/ FailCancel \/ Restart
    BY <2>3 DEF FailPick, FailMark, FailCheck, FailCancel, Restart
  <2>4. CASE UNCHANGED vars
    BY <2>4 DEF vars
  <2> QED
    BY <2>1, <2>2, <2>3, <2>4, StillNobody DEF Next
<1> QED
  BY <1>1, <1>2, <1>3, <1>4

(* Nobody is pending: all the command's runs that were heard of are over,  *)
(* or were never started.                                                  *)
LEMMA NonePendingIsOver ==
    ASSUME TypeOK, Known, AllTold, PendingRuns = {}, NEW r \in Runs, job[r] = "over"
    PROVE  AllOver
<1>1. \A o \in Runs \ unheard : job[o] \in {"new", "over"}
  BY DEF TypeOK, Jobs, Known, PendingRuns
<1>2. \A o \in Runs : StartedBy[o] = Cli => job[o] # "new"
  BY DEF AllTold
<1> QED
  BY <1>1, <1>2 DEF AllOver, Over

LEMMA ClaimsStep ==
    ASSUME TypeOK, Handled, Known, AllTold, ClaimsAtTheEnd, [Next]_vars, NobodyGaveUp'
    PROVE  ClaimsAtTheEnd'
<1>0. thread \in [Runs -> Threads]
  BY DEF TypeOK
<1> SUFFICES ASSUME NEW o \in Runs, thread'[o] = "claim"
             PROVE  AllOver'
  BY DEF ClaimsAtTheEnd
<1>1. CASE thread[o] = "claim"
  BY <1>1, StaysOver DEF ClaimsAtTheEnd
<1>2. CASE thread[o] # "claim"
  <2>1. Check(o)
    <3>1. CASE Request \/ RequestTimesOut \/ FailToStart
      BY <3>1, <1>2 DEF Request, RequestTimesOut, FailToStart
    <3>2. ASSUME NEW r \in Runs, Tell(r) \/ Start(r) \/ EndUnsaid(r)
          PROVE  FALSE
      BY <3>2, <1>2 DEF Tell, Start, EndUnsaid
    <3>3. ASSUME NEW r \in Runs, End(r) \/ Settle(r) \/ Save(r) \/ Look(r) \/ Claim(r) \/ Send(r)
          PROVE  FALSE
      BY <3>3, <1>2, <1>0 DEF End, Settle, Save, Look, Claim, Send, Goes
    <3>4. ASSUME NEW r \in Runs, Check(r)
          PROVE  r = o
      BY <3>4, <1>2, <1>0 DEF Check, Goes
    <3>5. CASE FailPick \/ FailMark \/ FailCheck \/ FailCancel \/ Restart
      BY <3>5, <1>2 DEF FailPick, FailMark, FailCheck, FailCancel, Restart
    <3>6. CASE UNCHANGED vars
      BY <3>6, <1>2 DEF vars
    <3> QED
      BY <3>1, <3>2, <3>3, <3>4, <3>5, <3>6, StillNobody DEF Next, Handler
  <2>2. PendingRuns = {} /\ job[o] = "over"
    BY <2>1, <1>0 DEF Check, Goes, Handled
  <2> QED
    BY <2>2, NonePendingIsOver, StaysOver
<1> QED
  BY <1>1, <1>2

LEMMA EndInvStep == TypeOK /\ EndInv /\ [Next]_vars => EndInv'
BY StillNobody, HandledStep, KnownStep, AllToldStep, ClaimsStep DEF EndInv

(* The email leaves when the command is over, with the steps of its steps: *)
(* when all its runs that QA-Board was told of are, unless somebody gave   *)
(* up on one of them.  Runs that QA-Board was never told of, because the   *)
(* request of `qa batch` was lost, and what they start, may go on.         *)
THEOREM EmailedAtTheEnd == Spec => NotBeforeTheEnd
<1>1. Init => EndInv
  BY DEF Init, EndInv, Handled, Known, AllTold, ClaimsAtTheEnd
<1>2. TypeOK /\ EndInv /\ [Next]_vars
      => [note = "waiting" /\ note' = "sending" => givenUp # {} \/ stop.at # "no" \/ AllOver]_vars
  <2> SUFFICES ASSUME TypeOK, EndInv, [Next]_vars, note = "waiting", note' = "sending", NobodyGaveUp
               PROVE  AllOver
    BY DEF NobodyGaveUp
  <2>1. CASE Request \/ RequestTimesOut \/ FailToStart
    BY <2>1 DEF Request, RequestTimesOut, FailToStart
  <2>2. ASSUME NEW r \in Runs, Tell(r) \/ Start(r) \/ End(r) \/ EndUnsaid(r) \/ Settle(r)
        PROVE  FALSE
    BY <2>2 DEF Tell, Start, End, EndUnsaid, Settle
  <2>3. ASSUME NEW r \in Runs, Save(r) \/ Look(r) \/ Check(r) \/ Send(r)
        PROVE  FALSE
    BY <2>3 DEF Save, Look, Check, Send
  <2>4. ASSUME NEW r \in Runs, Claim(r)
        PROVE  AllOver
    BY <2>4 DEF Claim, EndInv, ClaimsAtTheEnd
  <2>5. CASE Stop \/ Stopped \/ FailPick \/ FailMark \/ FailCheck \/ FailCancel \/ Restart
    BY <2>5 DEF Stop, Stopped, FailPick, FailMark, FailCheck, FailCancel, Restart
  <2>6. CASE UNCHANGED vars
    BY <2>6 DEF vars
  <2> QED
    BY <2>1, <2>2, <2>3, <2>4, <2>5, <2>6 DEF Next, Handler
<1> QED
  BY <1>1, <1>2, EndInvStep, TypeCorrect, PTL DEF Spec, NotBeforeTheEnd

-----------------------------------------------------------------------------
(* Once no row is pending, somebody who did not look yet is there to find  *)
(* it out: a handler that saved its run, or fail_runs().                   *)
Waits == note = "waiting" /\ stop.at = "no" /\ restarts = 0 /\ ~late
NoneLeft == (\E r \in Runs : row[r] = "ended") /\ \A r \in Runs : row[r] # "pending"
Finds(r) == thread[r] \in {"look", "check", "claim"}
SomebodyFinds == fail.at \in {"check", "cancel"} \/ \E r \in Runs : Finds(r)

FoundInv == Waits /\ NoneLeft => SomebodyFinds

LEMMA FoundStep ==
    ASSUME TypeOK, FoundInv, [Next]_vars
    PROVE  FoundInv'
<1> SUFFICES ASSUME Waits', NoneLeft' PROVE SomebodyFinds'
  BY DEF FoundInv
<1>0. row \in [Runs -> Rows] /\ thread \in [Runs -> Threads] /\ restarts \in Nat
      /\ stop \in [at : Stages, ids : SUBSET Runs] /\ fail \in [at : Stages, ids : SUBSET Runs]
  BY DEF TypeOK
<1>1. ~Request
  BY DEF Request, Waits, NoneLeft
<1>2. ~Stop /\ ~Stopped /\ ~FailCancel
  BY DEF Stop, Stopped, FailCancel, Waits
<1>3. ~Restart
  <2>1. restarts' = 0
    BY DEF Waits
  <2>2. Restart => restarts' = restarts + 1
    BY DEF Restart
  <2>3. restarts \in Nat
    BY <1>0
  <2> QED
    BY <2>1, <2>2, <2>3
<1>5. ASSUME NEW r \in Runs, Claim(r) \/ Send(r), thread[r] # "idle" PROVE SomebodyFinds'
  <2>1. CASE Send(r)
    BY <2>1 DEF Send, Waits
  <2>2. CASE Claim(r)
    <3>1. note # "waiting"
      BY <2>2 DEF Claim, Waits
    <3> QED
      BY <2>2, <3>1 DEF Claim, Waits
  <2> QED
    BY <1>5, <2>1, <2>2
<1>7. CASE FailMark
  BY <1>0, <1>7 DEF FailMark, SomebodyFinds
<1>8. ASSUME UNCHANGED <<row, note, restarts, late>>, stop'.at = stop.at
      PROVE  Waits /\ NoneLeft /\ SomebodyFinds
  BY <1>8 DEF Waits, NoneLeft, FoundInv
<1>4. ASSUME NEW r \in Runs, Tell(r) \/ Start(r) PROVE SomebodyFinds'
  <2>1. UNCHANGED <<thread, note, stop, fail, restarts, late>>
    BY <1>4 DEF Tell, Start
  <2>2. row' = row
    <3>1. \/ row' = row \/ row' = [row EXCEPT ![r] = "pending"]
          \/ row' = [row EXCEPT ![r] = IF row[r] = "untold" THEN "untold" ELSE "pending"]
      BY <1>4 DEF Tell, Start
    <3>2. row'[r] # "pending"
      BY DEF NoneLeft
    <3> QED
      BY <1>0, <3>1, <3>2
  <2>3. SomebodyFinds
    BY <1>8, <2>1, <2>2
  <2> QED
    BY <2>1, <2>3 DEF SomebodyFinds, Finds
<1>6. ASSUME NEW r \in Runs, Save(r) PROVE SomebodyFinds'
  <2>1. UNCHANGED <<note, stop, fail, restarts, late>> /\ thread[r] = "save"
    BY <1>6 DEF Save
  <2>2. CASE row[r] = "untold"
    <3>1. row' = row /\ thread' = [thread EXCEPT ![r] = "idle"]
      BY <1>0, <1>6, <2>2 DEF Save, Goes
    <3>2. SomebodyFinds
      BY <1>8, <2>1, <3>1
    <3>3. \A o \in Runs : Finds(o) => thread'[o] = thread[o]
      BY <1>0, <2>1, <3>1 DEF Finds
    <3> QED
      BY <2>1, <3>2, <3>3 DEF SomebodyFinds, Finds
  <2>3. CASE row[r] # "untold"
    <3>1. thread' = [thread EXCEPT ![r] = "look"]
      BY <1>6, <2>3 DEF Save, Goes
    <3> QED
      BY <1>0, <3>1 DEF SomebodyFinds, Finds
  <2> QED
    BY <2>2, <2>3
<1>9. ASSUME NEW r \in Runs, Look(r) \/ Check(r) PROVE SomebodyFinds'
  <2>1. Waits /\ NoneLeft
    BY <1>8, <1>9 DEF Look, Check
  <2>2. thread' = [thread EXCEPT ![r] = "check"] \/ thread' = [thread EXCEPT ![r] = "claim"]
    BY <1>9, <2>1 DEF Look, Check, Goes, Waits, NoneLeft, PendingRuns
  <2> QED
    BY <1>0, <2>2 DEF SomebodyFinds, Finds
<1>10. ASSUME NEW r \in Runs, End(r) \/ EndUnsaid(r) \/ Settle(r) PROVE SomebodyFinds'
  <2>1. SomebodyFinds
    BY <1>8, <1>10 DEF End, EndUnsaid, Settle
  <2>2. thread' = thread \/ (thread[r] = "idle" /\ thread' = [thread EXCEPT ![r] = "save"])
    BY <1>10 DEF End, EndUnsaid, Settle
  <2>3. fail' = fail
    BY <1>10 DEF End, EndUnsaid, Settle
  <2> QED
    BY <1>0, <2>1, <2>2, <2>3 DEF SomebodyFinds, Finds
<1>11. CASE RequestTimesOut \/ FailToStart
  <2>1. UNCHANGED <<row, restarts, late, stop, thread, fail>>
    BY <1>11 DEF RequestTimesOut, FailToStart
  <2>2. note = "waiting"
    BY <1>11 DEF RequestTimesOut, FailToStart, Waits
  <2> QED
    BY <2>1, <2>2 DEF FoundInv, Waits, NoneLeft, SomebodyFinds, Finds
<1>12. CASE FailPick
  <2>1. SomebodyFinds /\ fail.at = "no" /\ thread' = thread
    BY <1>8, <1>12 DEF FailPick
  <2> QED
    BY <2>1 DEF SomebodyFinds, Finds
<1>13. CASE FailCheck
  <2>1. Waits /\ NoneLeft
    BY <1>8, <1>13 DEF FailCheck
  <2>2. PendingRuns = {}
    BY <2>1 DEF NoneLeft, PendingRuns
  <2>3. fail' = [fail EXCEPT !.at = "cancel"]
    BY <1>13, <2>2 DEF FailCheck
  <2> QED
    BY <1>0, <2>3 DEF SomebodyFinds
<1>14. CASE UNCHANGED vars
  BY <1>8, <1>14 DEF vars, SomebodyFinds, Finds
<1>15. ASSUME NEW r \in Runs, Handler(r) PROVE SomebodyFinds'
  <2>1. ASSUME Claim(r) \/ Send(r) PROVE thread[r] # "idle"
    BY <2>1 DEF Claim, Send
  <2> QED
    BY <1>5, <1>6, <1>9, <1>15, <2>1 DEF Handler
<1> QED
  BY <1>1, <1>2, <1>3, <1>4, <1>7, <1>10, <1>11, <1>12, <1>13, <1>14, <1>15 DEF Next

(* Whichever runs end together, in whatever order their handlers save,     *)
(* look and claim: when all is over nobody waits for an email any more,    *)
(* unless the batch was stopped, the server restarted or the email was     *)
(* asked for late.                                                         *)
THEOREM SomebodyAlwaysLooks == Spec => []NobodyLeftWaiting
<1>1. Init => FoundInv
  BY DEF Init, FoundInv, NoneLeft
<1>2. TypeOK /\ FoundInv /\ [Next]_vars => FoundInv'
  BY FoundStep
<1>3. TypeOK /\ FoundInv => NobodyLeftWaiting
  <2>1. TypeOK => restarts \in Nat
    BY DEF TypeOK
  <2> QED
    BY <2>1 DEF FoundInv, Waits, NoneLeft, SomebodyFinds, Finds, NobodyLeftWaiting
<1> QED
  BY <1>1, <1>2, <1>3, TypeCorrect, PTL DEF Spec

-----------------------------------------------------------------------------
(***************************************************************************)
(* The deletion of old runs, next to the commands.                         *)
(***************************************************************************)
Alone == INSTANCE HardDeleteProofs WITH Runs <- OldRuns, job <- deletion

(***************************************************************************)
(* The deletion that Server runs and the one HardDeleteProofs is about are *)
(* two instances of one module: definition by definition they are equal.   *)
(***************************************************************************)
LEMMA SameDeletion ==
    /\ Deletion!vars = Alone!vars
    /\ Deletion!DeletionAssumption = Alone!DeletionAssumption
    /\ Deletion!Init = Alone!Init /\ Deletion!Next = Alone!Next
    /\ Deletion!TypeOK = Alone!TypeOK /\ Deletion!NothingSkipped = Alone!NothingSkipped
    /\ Deletion!DeletesOnlyWhatItMay = Alone!DeletesOnlyWhatItMay
  <1>1. Deletion!vars = Alone!vars
    BY DEF Deletion!vars, Alone!vars
  <1>2. Deletion!DeletionAssumption = Alone!DeletionAssumption
    BY DEF Deletion!DeletionAssumption, Alone!DeletionAssumption, Deletion!IsFiniteSet, Alone!IsFiniteSet
  <1>3. Deletion!Init = Alone!Init
    BY DEF Deletion!Modes, Alone!Modes, Deletion!Stopped, Alone!Stopped, Deletion!Candidate,
           Alone!Candidate, Deletion!ToDelete, Alone!ToDelete, Deletion!Init, Alone!Init
  <1>4. Deletion!Next = Alone!Next
    BY DEF Deletion!Stopped, Alone!Stopped, Deletion!RunsOf, Alone!RunsOf, Deletion!Candidate,
           Alone!Candidate, Deletion!Starts, Alone!Starts, Deletion!SkipsProject, Alone!SkipsProject,
           Deletion!Flush, Alone!Flush, Deletion!Left, Alone!Left, Deletion!Page, Alone!Page,
           Deletion!Cardinality, Alone!Cardinality, Deletion!IsFiniteSet, Alone!IsFiniteSet,
           Deletion!ReadsPage, Alone!ReadsPage, Deletion!PageEnds, Alone!PageEnds, Deletion!Gone,
           Alone!Gone, Deletion!Remembers, Alone!Remembers, Deletion!Protected, Alone!Protected,
           Deletion!TakesBatch, Alone!TakesBatch, Deletion!ReadsRuns, Alone!ReadsRuns,
           Deletion!KeepsFiles, Alone!KeepsFiles, Deletion!DeletesRun, Alone!DeletesRun,
           Deletion!BatchEnds, Alone!BatchEnds, Deletion!RunsAreDone, Alone!RunsAreDone,
           Deletion!DeletesRows, Alone!DeletesRows, Deletion!Stops, Alone!Stops, Deletion!IsKilled,
           Alone!IsKilled, Deletion!Touched, Alone!Touched, Deletion!Touches, Alone!Touches,
           Deletion!SoftDelete, Alone!SoftDelete, Deletion!Redo, Alone!Redo, Deletion!Writes,
           Alone!Writes, Deletion!Ends, Alone!Ends, Deletion!LosesFiles, Alone!LosesFiles,
           Deletion!ChangesMilestone, Alone!ChangesMilestone, Deletion!Next, Alone!Next
  <1>5. Deletion!TypeOK = Alone!TypeOK
    BY DEF Deletion!Modes, Alone!Modes, Deletion!Jobs, Alone!Jobs, Deletion!TypeOK, Alone!TypeOK
  <1>6. Deletion!NothingSkipped = Alone!NothingSkipped
    BY DEF Deletion!NothingSkipped, Alone!NothingSkipped
  <1>7. Deletion!DeletesOnlyWhatItMay = Alone!DeletesOnlyWhatItMay
    BY DEF Deletion!DeletesOnlyWhatItMay, Alone!DeletesOnlyWhatItMay
  <1> QED BY <1>1, <1>2, <1>3, <1>4, <1>5, <1>6, <1>7

LEMMA StepsOfParts ==
    ASSUME [ServerNext]_<<vars, deletions>>
    PROVE  [Next]_vars /\ [Deletion!Next]_deletions
  BY Zenon DEF ServerNext, StepOf, Parts

LEMMA StepsAlone ==
    ASSUME [ServerNext]_<<vars, deletions>>
    PROVE  [Alone!Next]_Alone!vars
  <1>1. UNCHANGED deletions => UNCHANGED Alone!vars
    BY DEF deletions, Alone!vars
  <1> QED BY <1>1, StepsOfParts, SameDeletion

\* Together, the components behave as each does alone: nothing that one of them does
\* is lost, or added, by the other.
THEOREM BothAsAlone == ServerSpec => Spec /\ Deletion!Spec
  <1>1. ServerInit => Init /\ Deletion!Init
    BY DEF ServerInit
  <1>2. [ServerNext]_<<vars, deletions>> => [Next]_vars
    BY StepsOfParts
  <1>3. [ServerNext]_<<vars, deletions>> => [Deletion!Next]_Deletion!vars
    <2>1. UNCHANGED deletions => UNCHANGED Deletion!vars
      BY DEF deletions, Deletion!vars
    <2> QED BY <2>1, StepsOfParts
  <1> QED BY <1>1, <1>2, <1>3, PTL DEF ServerSpec, Spec, Deletion!Spec

-----------------------------------------------------------------------------
(***************************************************************************)
(* The invariant of the deletion: its types; nothing that was due is       *)
(* behind it; and what it holds is still true of the runs that nobody      *)
(* redid or protected since.                                               *)
(***************************************************************************)
Deleting == Alone!TypeOK /\ Alone!NoneSkipped /\ Alone!NothingStale

LEMMA OldRunsAreRuns == Alone!DeletionAssumption
  BY OldRunsAssumption, SameDeletion

LEMMA DeletingStarts == ServerInit => Deleting
  <1>1. ServerInit => Alone!Init
    BY SameDeletion DEF ServerInit
  <1>2. Alone!Init => Alone!TypeOK
    BY OldRunsAreRuns, Alone!TypeInit
  <1>3. Alone!Init => Alone!NoneSkipped
    BY OldRunsAreRuns, Alone!AllAhead
  <1>4. Alone!Init => Alone!NothingStale
    BY Alone!NothingIsStaleYet
  <1> QED BY <1>1, <1>2, <1>3, <1>4 DEF Deleting

LEMMA DeletingGoesOn == Deleting /\ [ServerNext]_<<vars, deletions>> => Deleting'
  <1> SUFFICES ASSUME Deleting, [ServerNext]_<<vars, deletions>> PROVE Deleting'
    OBVIOUS
  <1>1. Alone!DeletionAssumption /\ [Alone!Next]_Alone!vars
    BY OldRunsAreRuns, StepsAlone
  <1>2. Alone!TypeOK'
    BY <1>1, Alone!TypeStep DEF Deleting
  <1>3. Alone!NoneSkipped'
    BY <1>1, Alone!NoneSkippedStep DEF Deleting
  <1>4. Alone!NothingStale'
    BY <1>1, Alone!NothingStaleStep DEF Deleting
  <1> QED BY <1>2, <1>3, <1>4 DEF Deleting

\* The rows of the runs, the deletion and its progress keep their shapes, beside
\* whatever commands run.
THEOREM DeletionTypes == ServerSpec => []DeletionTypeOK
  <1>1. Deleting => DeletionTypeOK
    BY SameDeletion DEF Deleting, DeletionTypeOK
  <1> QED BY <1>1, DeletingStarts, DeletingGoesOn, PTL DEF ServerSpec

\* A deletion that is done (HardDelete.project, batch) left no row of what it was asked
\* to delete, in whatever pages it went through it and however often it started again.
THEOREM DeletionSkipsNothing == ServerSpec => []NothingSkipped
  <1>1. Deleting => NothingSkipped
    BY Alone!SkipsNothingDue, SameDeletion DEF Deleting, NothingSkipped
  <1> QED BY <1>1, DeletingStarts, DeletingGoesOn, PTL DEF ServerSpec

\* "Milestones are never deleted" and "we never delete files" of runs that users have
\* (HardDelete.batch, delete_run): the deletion only removes what it may, as long as
\* nobody redoes or protects the run after it started.
THEOREM DeletionOnlyMay == ServerSpec => OnlyWhatItMay
  <1>1. ASSUME Deleting, [ServerNext]_<<vars, deletions>>
        PROVE  [Deletion!DeletesOnlyWhatItMay]_deletions
    <2>1. [Alone!DeletesOnlyWhatItMay]_Alone!vars
      BY <1>1, StepsAlone, Alone!DeletesWhatItMay DEF Deleting
    <2>2. UNCHANGED Alone!vars => UNCHANGED deletions
      BY DEF deletions, Alone!vars
    <2> QED BY <2>1, <2>2, SameDeletion
  <1> QED BY <1>1, DeletingStarts, DeletingGoesOn, PTL DEF ServerSpec, OnlyWhatItMay
=============================================================================
