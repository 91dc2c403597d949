---------------------------- MODULE WebAppProofs ----------------------------
(***************************************************************************)
(* What the components of the web app promise for every value of their     *)
(* constants, whatever the others do meanwhile.                            *)
(***************************************************************************)
EXTENDS WebAppViewers, WellFoundedInduction

(***************************************************************************)
(* Each component starts as it says and only takes its steps.              *)
(***************************************************************************)
LEMMA StepsOfParts ==
    ASSUME [AppNext]_app
    PROVE  /\ [Logs!Next]_tail /\ [Subs!Next]_subs /\ [Seeks!Next]_videos /\ [Pixels!Next]_pixels
           /\ [Ints!Next]_ints /\ [Stars!Next]_stars /\ [Drafts!Next]_drafts /\ [Refs!Next]_refs
           /\ [Next]_vars
<1>1. CASE UNCHANGED app
  BY <1>1 DEF app
<1>2. ASSUME NEW part \in Parts, StepOf(part)
      PROVE  /\ [Logs!Next]_tail /\ [Subs!Next]_subs /\ [Seeks!Next]_videos /\ [Pixels!Next]_pixels
             /\ [Ints!Next]_ints /\ [Stars!Next]_stars /\ [Drafts!Next]_drafts /\ [Refs!Next]_refs
             /\ [Next]_vars
  BY <1>2, Zenon DEF StepOf
<1> QED
  BY <1>1, <1>2 DEF AppNext

-----------------------------------------------------------------------------
(***************************************************************************)
(* PrefsSync: nothing that users choose while a page syncs is forgotten,   *)
(* nothing else is sent, and once quiet the browser and the server agree.  *)
(***************************************************************************)
Changes == [Keys -> Values \cup {Absent}]

(* n + 1 where sets and strings are in the way.                            *)
LEMMA OneMore == \A n \in Nat, max \in Nat : n < max => n + 1 \in 0..max /\ n + 1 \in 1..(n + 1) /\ 1..n \subseteq 1..(n + 1)
  OBVIOUS

(* The merge keeps the types (mergeOnLogin).                               *)
LEMMA MergeTypes ==
  ASSUME NEW mine \in [Keys -> Values], NEW theirs \in [Keys -> Saved], NEW p \in Changes, NEW keep
  PROVE  Apply(mine, theirs, keep) \in [Keys -> Values] /\ Push(mine, theirs, p) \in Changes
  BY DEF Apply, Push, Changes, Saved

LEMMA NothingIsAChange == Nothing \in Changes
  BY DEF Nothing, Changes

(* The requests under way keep their shape when one more leaves (flush).   *)
LEMMA PostTypes ==
  ASSUME TypeOK, NEW p \in Changes, Post(p)
  PROVE  /\ posts' \subseteq [id : 1..sent', prefs : Changes]
         /\ sent' \in 0..MaxPosts
         /\ clean' \in BOOLEAN
  <1>1. CASE p = Nothing
    BY <1>1 DEF Post, TypeOK, Changes
  <1>2. CASE p # Nothing
    <2>1. sent < MaxPosts /\ sent' = sent + 1
      BY <1>2 DEF Post
    <2>2. sent \in Nat /\ MaxPosts \in Nat /\ sent \in 0..MaxPosts
      BY PrefsAssumption DEF TypeOK
    <2>3. sent' \in 0..MaxPosts /\ sent' \in 1..sent' /\ 1..sent \subseteq 1..sent'
      BY <2>1, <2>2, OneMore
    <2>4. posts' = posts \cup {[id |-> sent', prefs |-> p]}
      BY <1>2, <2>1 DEF Post
    <2>5. posts \subseteq [id : 1..sent, prefs : Changes]
      BY DEF TypeOK, Changes
    <2>6. [id |-> sent', prefs |-> p] \in [id : 1..sent', prefs : Changes]
      BY <2>3
    <2>7. \A q \in posts : q \in [id : 1..sent', prefs : Changes]
      BY <2>3, <2>5
    <2>8. posts' \subseteq [id : 1..sent', prefs : Changes]
      BY <2>4, <2>6, <2>7
    <2>9. clean' \in BOOLEAN
      BY <1>2 DEF Post, TypeOK
    <2> QED BY <2>3, <2>8, <2>9
  <1> QED BY <1>1, <1>2

(* A flush keeps the types.                                                *)
LEMMA FlushTypes ==
  ASSUME TypeOK, NEW p \in Changes, NEW known \in [Keys -> Saved], Flush(p, known)
  PROVE  /\ posts' \subseteq [id : 1..sent', prefs : Changes] /\ sent' \in 0..MaxPosts
         /\ pending' \in Changes /\ timer' \in BOOLEAN
         /\ told' \in [Keys -> Saved] /\ clean' \in BOOLEAN
  <1>1. Post(p) BY DEF Flush
  <1>2. told' \in [Keys -> Saved] BY DEF Flush, Changes, Saved
  <1>3. pending' \in Changes /\ timer' \in BOOLEAN BY NothingIsAChange DEF Flush
  <1> QED BY <1>1, <1>2, <1>3, PostTypes

-----------------------------------------------------------------------------
LEMMA TypeInit == Init => TypeOK
  <1>1. ASSUME Init PROVE sent \in 0..MaxPosts
    BY <1>1, PrefsAssumption DEF Init
  <1> QED BY <1>1, PrefsAssumption DEF Init, TypeOK, Nothing, NoAnswer, Saved

(* The types are kept by every step.                                       *)
LEMMA TypeStep == TypeOK /\ [Next]_vars => TypeOK'
  <1> SUFFICES ASSUME TypeOK, [Next]_vars PROVE TypeOK'
    OBVIOUS
  <1>n. Nothing \in Changes /\ Nothing \in [Keys -> Saved]
    BY NothingIsAChange DEF Nothing, Saved
  <1>p. pending \in Changes /\ told \in [Keys -> Saved] /\ local \in [Keys -> Values]
    BY DEF TypeOK, Changes
  <1>1. CASE SignIn
    BY <1>1 DEF SignIn, TypeOK
  <1>2. CASE ServerAnswers
    BY <1>2 DEF ServerAnswers, TypeOK
  <1>3. CASE GotAnswer
    <2>1. PICK theirs \in answer :
            /\ local' = Apply(local, theirs, Kept(pending))
            /\ phase' = "ready" /\ answer' = NoAnswer
            /\ Flush(Push(local', theirs, pending), theirs)
            /\ UNCHANGED <<server, chosen>>
      BY <1>3 DEF GotAnswer
    <2>2. theirs \in [Keys -> Saved]
      BY <2>1 DEF TypeOK
    <2>3. local' \in [Keys -> Values]
      BY <1>p, <2>1, <2>2, MergeTypes
    <2>4. Push(local', theirs, pending) \in Changes
      BY <1>p, <2>2, <2>3, MergeTypes
    <2>5. /\ posts' \subseteq [id : 1..sent', prefs : Changes] /\ sent' \in 0..MaxPosts
          /\ pending' \in Changes /\ timer' \in BOOLEAN
          /\ told' \in [Keys -> Saved] /\ clean' \in BOOLEAN
      BY <2>1, <2>2, <2>4, FlushTypes
    <2> QED BY <2>1, <2>3, <2>5 DEF TypeOK, Changes, NoAnswer
  <1>4. CASE AskFails
    BY <1>4, <1>n DEF AskFails, TypeOK, NoAnswer, Changes
  <1>5. CASE Change
    <2>1. PICK k \in Keys, v \in Values :
            /\ SetPreference(k, v)
            /\ Heard(k, v)
            /\ chosen' = IF phase \in {"asking", "ready"} THEN [chosen EXCEPT ![k] = v] ELSE chosen
            /\ UNCHANGED <<phase, answer, posts, sent, server, told, clean>>
      BY <1>5 DEF Change
    <2>2. local' \in [Keys -> Values] BY <2>1 DEF SetPreference, TypeOK
    <2>3. pending' \in Changes /\ timer' \in BOOLEAN BY <2>1 DEF Heard, TypeOK, Changes
    <2>4. chosen' \in Changes BY <2>1 DEF TypeOK, Changes
    <2> QED BY <2>1, <2>2, <2>3, <2>4 DEF TypeOK, Changes
  <1>6. CASE TimerFires
    BY <1>6, <1>p, FlushTypes DEF TimerFires, TypeOK, Changes
  <1>7. CASE PageHides
    BY <1>7, <1>p, FlushTypes DEF PageHides, TypeOK, Changes
  <1>8. CASE Leaves
    <2> DEFINE p == IF phase = "ready" THEN pending ELSE Nothing
    <2>1. p \in Changes BY <1>n, <1>p
    <2>2. Post(p) BY <1>8 DEF Leaves, Stop
    <2> HIDE DEF p
    <2>3. posts' \subseteq [id : 1..sent', prefs : Changes] /\ sent' \in 0..MaxPosts /\ clean' \in BOOLEAN
      BY <2>1, <2>2, PostTypes
    <2> QED BY <1>8, <1>n, <2>3 DEF Leaves, Stop, TypeOK, Changes, NoAnswer
  <1>9. CASE PostHandled
    <2>1. PICK p \in posts :
            /\ server' = [k \in Keys |-> IF p.prefs[k] # Absent THEN p.prefs[k] ELSE server[k]]
            /\ posts' = posts \ {p}
            /\ UNCHANGED <<local, phase, pending, timer, answer, sent, told, chosen, clean>>
      BY <1>9 DEF PostHandled
    <2>2. p.prefs \in [Keys -> Values \cup {Absent}] BY <2>1 DEF TypeOK
    <2>3. server' \in [Keys -> Saved] BY <2>1, <2>2 DEF TypeOK, Saved
    <2> QED BY <2>1, <2>3 DEF TypeOK
  <1>10. CASE PostFails
    BY <1>10 DEF PostFails, TypeOK
  <1>11. CASE OtherBrowser
    BY <1>11, PrefsAssumption DEF OtherBrowser, TypeOK, Saved
  <1>12. CASE UNCHANGED vars
    BY <1>12 DEF vars, TypeOK
  <1> QED BY <1>1, <1>2, <1>3, <1>4, <1>5, <1>6, <1>7, <1>8, <1>9, <1>10, <1>11, <1>12 DEF Next

(* The store, the answers, the requests and the server's row keep their    *)
(* shapes (createPrefsSync).                                               *)
THEOREM TypeCorrect == Spec => []TypeOK
  BY TypeInit, TypeStep, PTL DEF Spec

-----------------------------------------------------------------------------
(* The inductive invariant: what waits is what users chose last, a change  *)
(* made while asking still waits, whoever is signed out waits for nothing, *)
(* and an answer is there only while somebody asks.                        *)
Waits == \A k \in Keys : pending[k] # Absent => pending[k] = chosen[k]
Asks == phase = "asking" => ~timer /\ \A k \in Keys : chosen[k] # Absent => pending[k] = chosen[k]
IsOut == phase \in {"out", "failed"} => ~timer /\ pending = Nothing /\ chosen = Nothing
Answered == answer # {} => phase = "asking"
Rest == Waits /\ Asks /\ IsOut /\ Answered /\ NothingForgotten
IInv == TypeOK /\ Rest

(* Values is neither of the two markers.                                   *)
LEMMA Markers == Absent \notin Values /\ Foreign \notin Values /\ Absent # Foreign /\ Default \in Values
  BY PrefsAssumption

(* What login settles: a key that was told nothing new needs nothing, and  *)
(* one that is told something is told what is shown (mergeOnLogin).        *)
LEMMA MergeSettles ==
  ASSUME NEW mine \in [Keys -> Values], NEW theirs \in [Keys -> Saved], NEW p \in Changes,
         \A k \in Keys : p[k] # Absent => p[k] = mine[k],
         NEW k \in Keys
  PROVE  LET new == Apply(mine, theirs, Kept(p))
             push == Push(new, theirs, p)
         IN  /\ p[k] # Absent => new[k] = mine[k]
             /\ push[k] # Absent => push[k] = new[k]
             /\ push[k] = Absent => \/ theirs[k] = new[k] \/ theirs[k] = Foreign
                                    \/ theirs[k] = Absent /\ (new[k] = Default \/ k \in AccountKeys)
  <1> DEFINE new == Apply(mine, theirs, Kept(p))
             push == Push(new, theirs, p)
  <1>1. new[k] = IF theirs[k] \in Values /\ p[k] = Absent THEN theirs[k] ELSE mine[k]
    BY DEF Apply, Kept
  <1>2. push[k] = IF theirs[k] = Absent /\ new[k] # Default /\ k \notin AccountKeys THEN new[k] ELSE p[k]
    BY DEF Push
  <1>3. theirs[k] \in Values \/ theirs[k] = Absent \/ theirs[k] = Foreign
    BY DEF Saved
  <1>4. new[k] \in Values
    BY <1>1
  <1> HIDE DEF new, push
  <1>5. p[k] # Absent => new[k] = mine[k]
    BY <1>1
  <1>6. push[k] # Absent => push[k] = new[k]
    BY <1>1, <1>2
  <1>7. push[k] = Absent => \/ theirs[k] = new[k] \/ theirs[k] = Foreign
                            \/ theirs[k] = Absent /\ (new[k] = Default \/ k \in AccountKeys)
    BY <1>1, <1>2, <1>3, <1>4, Markers
  <1> QED BY <1>5, <1>6, <1>7 DEF new, push

LEMMA InvInit == Init => IInv
  <1> SUFFICES ASSUME Init PROVE IInv
    OBVIOUS
  <1>1. TypeOK BY TypeInit
  <1>2. Waits /\ Asks /\ IsOut /\ Answered /\ NothingForgotten
    BY DEF Init, Waits, Asks, IsOut, Answered, NothingForgotten, Nothing, NoAnswer
  <1> QED BY <1>1, <1>2 DEF IInv, Rest

(* A flush while the page syncs: what it sends is what is shown, so that   *)
(* every preference was told (flush).                                      *)
LEMMA FlushSettles ==
  ASSUME NEW p \in Changes, NEW known \in [Keys -> Saved], Flush(p, known), NEW new \in [Keys -> Values],
         NEW k \in Keys,
         p[k] # Absent => p[k] = new[k],
         p[k] = Absent => \/ known[k] = new[k] \/ known[k] = Foreign
                          \/ known[k] = Absent /\ (new[k] = Default \/ k \in AccountKeys)
  PROVE  /\ pending'[k] = Absent
         /\ \/ told'[k] = new[k] \/ told'[k] = Foreign
            \/ told'[k] = Absent /\ (new[k] = Default \/ k \in AccountKeys)
  <1>1. pending'[k] = Absent BY DEF Flush, Nothing
  <1>2. told'[k] = IF p[k] # Absent THEN p[k] ELSE known[k] BY DEF Flush
  <1> QED BY <1>1, <1>2

(* The answer to login.                                                    *)
LEMMA InvGotAnswer == IInv /\ GotAnswer => Rest'
  <1> SUFFICES ASSUME IInv, GotAnswer PROVE Rest'
    OBVIOUS
  <1>1. PICK theirs \in answer :
          /\ local' = Apply(local, theirs, Kept(pending))
          /\ phase' = "ready" /\ answer' = NoAnswer
          /\ Flush(Push(local', theirs, pending), theirs)
          /\ UNCHANGED <<server, chosen>>
    BY DEF GotAnswer
  <1>2. theirs \in [Keys -> Saved] /\ local \in [Keys -> Values] /\ pending \in Changes
    BY <1>1 DEF IInv, TypeOK, Changes
  <1>3. phase = "asking"
    BY <1>1 DEF IInv, Rest, Answered
  <1>4. \A k \in Keys : chosen[k] # Absent => local[k] = chosen[k] /\ pending[k] = chosen[k]
    BY <1>3 DEF IInv, Rest, Asks, NothingForgotten
  <1>5. \A k \in Keys : pending[k] # Absent => pending[k] = local[k]
    BY <1>4 DEF IInv, Rest, Waits
  <1> DEFINE push == Push(local', theirs, pending)
  <1>6. local' \in [Keys -> Values] /\ push \in Changes
    BY <1>1, <1>2, MergeTypes
  <1>7. \A k \in Keys : /\ pending[k] # Absent => local'[k] = local[k]
                        /\ push[k] # Absent => push[k] = local'[k]
                        /\ push[k] = Absent => \/ theirs[k] = local'[k] \/ theirs[k] = Foreign
                                               \/ theirs[k] = Absent /\ (local'[k] = Default \/ k \in AccountKeys)
    BY <1>1, <1>2, <1>5, MergeSettles
  <1>8. Flush(push, theirs) BY <1>1
  <1> HIDE DEF push
  <1>9. \A k \in Keys : /\ pending'[k] = Absent
                        /\ \/ told'[k] = local'[k] \/ told'[k] = Foreign
                           \/ told'[k] = Absent /\ (local'[k] = Default \/ k \in AccountKeys)
    BY <1>2, <1>6, <1>7, <1>8, FlushSettles
  <1>10. Waits' BY <1>9 DEF Waits
  <1>11. Asks' /\ IsOut' /\ Answered' BY <1>1 DEF Asks, IsOut, Answered, NoAnswer
  <1>12. NothingForgotten'
    <2>1. \A k \in Keys : chosen'[k] # Absent => local'[k] = chosen'[k]
      BY <1>1, <1>4, <1>7
    <2> QED BY <2>1, <1>9 DEF NothingForgotten, Settled
  <1> QED BY <1>10, <1>11, <1>12 DEF Rest

(* The timer, or a page that hides: what waits leaves.                     *)
LEMMA InvFlush == IInv /\ phase = "ready" /\ Flush(pending, told) /\ UNCHANGED <<local, phase, answer, chosen>> => Rest'
  <1> SUFFICES ASSUME IInv, phase = "ready", Flush(pending, told), UNCHANGED <<local, phase, answer, chosen>>
               PROVE  Rest'
    OBVIOUS
  <1>1. local \in [Keys -> Values] /\ pending \in Changes /\ told \in [Keys -> Saved]
    BY DEF IInv, TypeOK, Changes
  <1>2. \A k \in Keys : \/ pending[k] = local[k] /\ timer
                        \/ pending[k] = Absent /\ Settled(k, told)
    BY DEF IInv, Rest, NothingForgotten
  <1>3. \A k \in Keys : /\ pending[k] # Absent => pending[k] = local[k]
                        /\ pending[k] = Absent => Settled(k, told)
    BY <1>1, <1>2, Markers
  <1>4. \A k \in Keys : /\ pending'[k] = Absent
                        /\ \/ told'[k] = local[k] \/ told'[k] = Foreign
                           \/ told'[k] = Absent /\ (local[k] = Default \/ k \in AccountKeys)
    BY <1>1, <1>3, FlushSettles DEF Settled
  <1>5. Waits' BY <1>4 DEF Waits
  <1>6. Asks' /\ IsOut' /\ Answered' BY DEF IInv, Rest, Asks, IsOut, Answered
  <1>7. NothingForgotten' BY <1>4 DEF IInv, Rest, NothingForgotten, Settled
  <1> QED BY <1>5, <1>6, <1>7 DEF Rest

(* A change: it waits, unless the page does not sync (the subscription).   *)
LEMMA InvChange == IInv /\ Change => Rest'
  <1> SUFFICES ASSUME IInv, Change PROVE Rest'
    OBVIOUS
  <1>1. PICK k \in Keys, v \in Values :
          /\ SetPreference(k, v)
          /\ Heard(k, v)
          /\ chosen' = IF phase \in {"asking", "ready"} THEN [chosen EXCEPT ![k] = v] ELSE chosen
          /\ UNCHANGED <<phase, answer, posts, sent, server, told, clean>>
    BY DEF Change
  <1>2. local \in [Keys -> Values] /\ pending \in Changes /\ chosen \in Changes
    BY DEF IInv, TypeOK, Changes
  <1>3. local' = [local EXCEPT ![k] = v] BY <1>1 DEF SetPreference
  <1>4. Answered' BY <1>1 DEF IInv, Rest, Answered
  <1>5. CASE phase \in {"asking", "ready"}
    <2>1. /\ pending' = [pending EXCEPT ![k] = v] /\ timer' = (phase = "ready")
          /\ chosen' = [chosen EXCEPT ![k] = v]
      BY <1>1, <1>5 DEF Heard
    <2>2. \A j \in Keys : /\ pending'[j] = IF j = k THEN v ELSE pending[j]
                          /\ chosen'[j] = IF j = k THEN v ELSE chosen[j]
                          /\ local'[j] = IF j = k THEN v ELSE local[j]
      BY <1>2, <1>3, <2>1 DEF Changes
    <2>3. Waits' BY <2>2 DEF IInv, Rest, Waits
    <2>4. Asks' /\ IsOut' BY <1>1, <1>5, <2>1, <2>2 DEF IInv, Rest, Asks, IsOut
    <2>5. NothingForgotten'
      <3>1. \A j \in Keys : chosen'[j] # Absent => local'[j] = chosen'[j]
        BY <2>2 DEF IInv, Rest, NothingForgotten
      <3>2. ASSUME phase' = "ready", NEW j \in Keys
            PROVE  \/ pending'[j] = local'[j] /\ timer'
                   \/ pending'[j] = Absent /\ Settled(j, told)'
        <4>1. phase = "ready" /\ timer' /\ told' = told BY <1>1, <2>1, <3>2
        <4>2. \/ pending[j] = local[j] /\ timer
              \/ pending[j] = Absent /\ Settled(j, told)
          BY <4>1 DEF IInv, Rest, NothingForgotten
        <4>3. CASE j = k BY <4>1, <4>3, <2>2
        <4>4. CASE j # k BY <4>1, <4>2, <4>4, <2>2 DEF Settled
        <4> QED BY <4>3, <4>4
      <3> QED BY <3>1, <3>2 DEF NothingForgotten, Settled
    <2> QED BY <1>4, <2>3, <2>4, <2>5 DEF Rest
  <1>6. CASE phase \notin {"asking", "ready"}
    <2>1. UNCHANGED <<pending, timer, chosen, phase>> BY <1>1, <1>6 DEF Heard
    <2>2. phase \in {"out", "failed"} BY <1>6 DEF IInv, TypeOK
    <2>3. chosen = Nothing /\ IsOut' BY <2>1, <2>2 DEF IInv, Rest, IsOut, Nothing
    <2>4. \A j \in Keys : chosen'[j] = Absent BY <2>1, <2>3 DEF Nothing
    <2> QED BY <1>1, <1>4, <1>6, <2>1, <2>3, <2>4 DEF IInv, Rest, Waits, Asks, NothingForgotten
  <1> QED BY <1>5, <1>6

(* The invariant is kept by every step.                                    *)
LEMMA InvStep == IInv /\ [Next]_vars => IInv'
  <1> SUFFICES ASSUME IInv, [Next]_vars PROVE IInv'
    OBVIOUS
  <1>0. TypeOK' BY TypeStep DEF IInv
  <1> SUFFICES Rest' BY <1>0 DEF IInv
  <1>n. \A k \in Keys : Nothing[k] = Absent BY DEF Nothing
  <1>1. CASE SignIn
    <2>1. chosen = Nothing BY <1>1 DEF SignIn, IInv, Rest, IsOut
    <2> QED BY <1>n, <1>1, <2>1 DEF SignIn, IInv, Rest, Waits, Asks, IsOut, Answered, NothingForgotten
  <1>2. CASE ServerAnswers
    BY <1>2 DEF ServerAnswers, IInv, Rest, Waits, Asks, IsOut, Answered, NothingForgotten
  <1>3. CASE GotAnswer
    BY <1>3, InvGotAnswer
  <1>4. CASE AskFails
    BY <1>n, <1>4 DEF AskFails, NoAnswer, Rest, Waits, Asks, IsOut, Answered, NothingForgotten
  <1>5. CASE Change
    BY <1>5, InvChange
  <1>6. CASE TimerFires
    <2>1. phase = "ready"
      BY <1>6 DEF TimerFires, IInv, TypeOK, Rest, Asks, IsOut
    <2> QED BY <1>6, <2>1, InvFlush DEF TimerFires
  <1>7. CASE PageHides
    BY <1>7, InvFlush DEF PageHides
  <1>8. CASE Leaves
    BY <1>n, <1>8 DEF Leaves, Stop, NoAnswer, Rest, Waits, Asks, IsOut, Answered, NothingForgotten
  <1>9. CASE PostHandled
    <2>1. UNCHANGED <<local, phase, pending, timer, answer, told, chosen>> BY <1>9 DEF PostHandled
    <2> QED BY <2>1 DEF IInv, Rest, Waits, Asks, IsOut, Answered, NothingForgotten, Settled
  <1>10. CASE PostFails
    <2>1. UNCHANGED <<local, phase, pending, timer, answer, told, chosen>> BY <1>10 DEF PostFails
    <2> QED BY <2>1 DEF IInv, Rest, Waits, Asks, IsOut, Answered, NothingForgotten, Settled
  <1>11. CASE OtherBrowser
    BY <1>11 DEF OtherBrowser, IInv, Rest, Waits, Asks, IsOut, Answered, NothingForgotten, Settled
  <1>12. CASE UNCHANGED vars
    BY <1>12 DEF vars, IInv, Rest, Waits, Asks, IsOut, Answered, NothingForgotten, Settled
  <1> QED BY <1>1, <1>2, <1>3, <1>4, <1>5, <1>6, <1>7, <1>8, <1>9, <1>10, <1>11, <1>12 DEF Next

(* While a page syncs, what users chose is what they see, and it was sent, *)
(* or needs not be, or waits for a flush that is scheduled: until it is    *)
(* sent, nothing is forgotten.  A request that fails is not sent again     *)
(* (createPrefsSync).                                                      *)
THEOREM NothingIsForgotten == Spec => []NothingForgotten
  <1>1. IInv => NothingForgotten BY DEF IInv, Rest
  <1> QED BY InvInit, InvStep, <1>1, PTL DEF Spec

-----------------------------------------------------------------------------
(* A request that leaves is the one that Post sends.                       *)
LEMMA PostSends ==
  ASSUME NEW p, Post(p)
  PROVE  \A q \in posts' : q \in posts \/ q.prefs = p
  BY DEF Post

(* One step sends only what users chose, or what the server lacked.        *)
LEMMA StepSends == IInv /\ [Next]_vars => SendsChoices
  <1> SUFFICES ASSUME IInv, [Next]_vars, NEW q \in posts', NEW k \in Kept(q.prefs), q \notin posts
               PROVE  \/ chosen[k] = q.prefs[k]
                      \/ k \notin AccountKeys /\ q.prefs[k] # Default /\ \E theirs \in answer : theirs[k] = Absent
    BY DEF SendsChoices
  <1>1. k \in Keys /\ q.prefs[k] # Absent
    BY DEF Kept
  <1>2. q.prefs = pending => chosen[k] = q.prefs[k]
    BY <1>1 DEF IInv, Rest, Waits
  <1>3. CASE GotAnswer
    <2>1. PICK theirs \in answer :
            /\ local' = Apply(local, theirs, Kept(pending))
            /\ Flush(Push(local', theirs, pending), theirs)
      BY <1>3 DEF GotAnswer
    <2>2. q.prefs = Push(local', theirs, pending)
      BY <2>1, PostSends DEF Flush
    <2>3. q.prefs[k] = IF theirs[k] = Absent /\ local'[k] # Default /\ k \notin AccountKeys
                       THEN local'[k] ELSE pending[k]
      BY <1>1, <2>2 DEF Push
    <2>4. CASE theirs[k] = Absent /\ local'[k] # Default /\ k \notin AccountKeys
      BY <2>1, <2>3, <2>4
    <2>5. CASE ~(theirs[k] = Absent /\ local'[k] # Default /\ k \notin AccountKeys)
      BY <1>1, <2>3, <2>5 DEF IInv, Rest, Waits
    <2> QED BY <2>4, <2>5
  <1>4. CASE TimerFires \/ PageHides
    BY <1>2, <1>4, PostSends DEF TimerFires, PageHides, Flush
  <1>5. CASE Leaves
    <2> DEFINE p == IF phase = "ready" THEN pending ELSE Nothing
    <2>1. q.prefs = p BY <1>5, PostSends DEF Leaves, Stop
    <2>2. p # Nothing BY <1>1, <2>1 DEF Nothing
    <2> QED BY <1>2, <2>1, <2>2
  <1>6. CASE PostHandled \/ PostFails
    BY <1>6 DEF PostHandled, PostFails
  <1>7. CASE SignIn \/ ServerAnswers \/ AskFails \/ Change \/ OtherBrowser \/ UNCHANGED vars
    BY <1>7 DEF SignIn, ServerAnswers, AskFails, Change, OtherBrowser, vars
  <1> QED BY <1>3, <1>4, <1>5, <1>6, <1>7 DEF Next

(* What leaves for the server is what users chose since they signed in, or *)
(* what the server lacked (mergeOnLogin, account_keys, `applying`).        *)
THEOREM SendsOnlyChoices == Spec => OnlyChoicesAreSent
  <1>1. IInv /\ [Next]_vars => [SendsChoices]_vars BY StepSends
  <1> QED BY InvInit, InvStep, <1>1, PTL DEF Spec, OnlyChoicesAreSent

-----------------------------------------------------------------------------
(* While nothing went wrong: the answer is what the server has, and once   *)
(* ready the server has what it was told, or will when the one request     *)
(* under way is handled.                                                   *)
AnswerIsTrue == clean /\ phase = "asking" => posts = {} /\ \A a \in answer : a = server
ToldIsTrue == clean /\ phase = "ready" =>
    \/ posts = {} /\ told = server
    \/ \E p \in posts : /\ posts = {p}
                        /\ \A k \in Keys : told[k] = IF p.prefs[k] # Absent THEN p.prefs[k] ELSE server[k]
KnowsWhatIsSaved == AnswerIsTrue /\ ToldIsTrue

(* A flush of a page that knows what the server has.                       *)
LEMMA FlushIsTold ==
  ASSUME TypeOK, NEW p \in Changes, NEW known \in [Keys -> Saved], Flush(p, known), clean',
         posts = {} => known = server, p = Nothing => (clean => (ToldIsTrue /\ phase = "ready" /\ known = told) \/ posts = {}),
         server' = server
  PROVE  \/ posts' = {} /\ told' = server
         \/ \E q \in posts' : /\ posts' = {q}
                              /\ \A k \in Keys : told'[k] = IF q.prefs[k] # Absent THEN q.prefs[k] ELSE server[k]
  <1>0. /\ told' = [k \in Keys |-> IF p[k] # Absent THEN p[k] ELSE known[k]]
        /\ Post(p)
    BY DEF Flush
  <1>1. CASE p = Nothing
    <2>1. told' = known
      BY <1>0, <1>1 DEF Nothing
    <2>2. UNCHANGED <<posts, clean>> BY <1>0, <1>1 DEF Post
    <2> QED BY <1>1, <2>1, <2>2 DEF ToldIsTrue
  <1>2. CASE p # Nothing
    <2>1. posts = {} /\ posts' = posts \cup {[id |-> sent + 1, prefs |-> p]}
      BY <1>0, <1>2 DEF Post
    <2>2. known = server BY <2>1
    <2>3. posts' = {[id |-> sent + 1, prefs |-> p]} BY <2>1
    <2>4. [id |-> sent + 1, prefs |-> p].prefs = p OBVIOUS
    <2> QED BY <1>0, <2>2, <2>3, <2>4
  <1> QED BY <1>1, <1>2

(* What the page knows of the server stays true.                           *)
LEMMA TrueStep == IInv /\ KnowsWhatIsSaved /\ [Next]_vars => KnowsWhatIsSaved'
  <1> SUFFICES ASSUME IInv, KnowsWhatIsSaved, [Next]_vars PROVE KnowsWhatIsSaved'
    OBVIOUS
  <1>t. TypeOK BY DEF IInv
  <1>p. pending \in Changes /\ told \in [Keys -> Saved] /\ local \in [Keys -> Values] /\ server \in [Keys -> Saved]
    BY <1>t DEF TypeOK, Changes
  <1>c. posts = {} /\ clean /\ phase = "ready" => told = server
    BY DEF KnowsWhatIsSaved, ToldIsTrue
  <1>1. CASE SignIn
    <2>1. answer = {} BY <1>1 DEF SignIn, IInv, Rest, Answered
    <2> QED BY <1>1, <2>1 DEF SignIn, KnowsWhatIsSaved, AnswerIsTrue, ToldIsTrue
  <1>2. CASE ServerAnswers
    BY <1>2 DEF ServerAnswers, KnowsWhatIsSaved, AnswerIsTrue, ToldIsTrue
  <1>3. CASE GotAnswer
    <2>1. PICK theirs \in answer :
            /\ local' = Apply(local, theirs, Kept(pending))
            /\ phase' = "ready" /\ answer' = NoAnswer
            /\ Flush(Push(local', theirs, pending), theirs)
            /\ UNCHANGED <<server, chosen>>
      BY <1>3 DEF GotAnswer
    <2>2. theirs \in [Keys -> Saved] BY <2>1, <1>t DEF TypeOK
    <2>3. Push(local', theirs, pending) \in Changes BY <1>p, <2>1, <2>2, MergeTypes
    <2>4. phase = "asking" BY <2>1 DEF IInv, Rest, Answered
    <2>5. ASSUME clean' PROVE clean /\ posts = {} /\ theirs = server
      <3>1. clean BY <2>1, <2>5 DEF Flush, Post
      <3> QED BY <2>1, <2>4, <3>1 DEF KnowsWhatIsSaved, AnswerIsTrue
    <2> DEFINE push == Push(local', theirs, pending)
    <2>6. push \in Changes /\ Flush(push, theirs) BY <2>1, <2>3
    <2> HIDE DEF push
    <2>7. ToldIsTrue' BY <1>t, <2>1, <2>2, <2>5, <2>6, FlushIsTold DEF ToldIsTrue
    <2> QED BY <2>1, <2>7 DEF KnowsWhatIsSaved, AnswerIsTrue
  <1>4. CASE AskFails
    BY <1>4 DEF AskFails, KnowsWhatIsSaved, AnswerIsTrue, ToldIsTrue
  <1>5. CASE Change
    BY <1>5 DEF Change, KnowsWhatIsSaved, AnswerIsTrue, ToldIsTrue
  <1>6. CASE TimerFires \/ PageHides
    <2>1. phase = "ready" BY <1>6 DEF TimerFires, PageHides, IInv, TypeOK, Rest, Asks, IsOut
    <2>2. Flush(pending, told) /\ UNCHANGED <<phase, answer, server>> BY <1>6 DEF TimerFires, PageHides
    <2>3. clean' => clean BY <2>2 DEF Flush, Post
    <2>4. ToldIsTrue' BY <1>c, <1>p, <1>t, <2>1, <2>2, <2>3, FlushIsTold DEF ToldIsTrue, KnowsWhatIsSaved
    <2> QED BY <2>1, <2>2, <2>4 DEF KnowsWhatIsSaved, AnswerIsTrue
  <1>8. CASE Leaves
    BY <1>8 DEF Leaves, Stop, KnowsWhatIsSaved, AnswerIsTrue, ToldIsTrue
  <1>9. CASE PostHandled
    <2>1. PICK p \in posts :
            /\ server' = [k \in Keys |-> IF p.prefs[k] # Absent THEN p.prefs[k] ELSE server[k]]
            /\ posts' = posts \ {p}
            /\ UNCHANGED <<local, phase, pending, timer, answer, sent, told, chosen, clean>>
      BY <1>9 DEF PostHandled
    <2>2. AnswerIsTrue' BY <2>1 DEF KnowsWhatIsSaved, AnswerIsTrue
    <2>3. ASSUME clean', phase' = "ready" PROVE posts' = {} /\ told' = server'
      <3>1. /\ posts = {p}
            /\ \A k \in Keys : told[k] = IF p.prefs[k] # Absent THEN p.prefs[k] ELSE server[k]
        BY <2>1, <2>3 DEF KnowsWhatIsSaved, ToldIsTrue
      <3>2. told = [k \in Keys |-> told[k]] BY <1>p
      <3>3. [k \in Keys |-> told[k]] = server' BY <2>1, <3>1
      <3> QED BY <2>1, <3>1, <3>2, <3>3
    <2> QED BY <2>2, <2>3 DEF KnowsWhatIsSaved, ToldIsTrue
  <1>10. CASE PostFails
    BY <1>10 DEF PostFails, KnowsWhatIsSaved, AnswerIsTrue, ToldIsTrue
  <1>11. CASE OtherBrowser
    BY <1>11 DEF OtherBrowser, KnowsWhatIsSaved, AnswerIsTrue, ToldIsTrue
  <1>12. CASE UNCHANGED vars
    BY <1>12 DEF vars, KnowsWhatIsSaved, AnswerIsTrue, ToldIsTrue
  <1> QED BY <1>1, <1>2, <1>3, <1>4, <1>5, <1>6, <1>8, <1>9, <1>10, <1>11, <1>12 DEF Next

(* Once nothing is under way, and if no request failed or overtook another *)
(* and nobody else wrote, the browser and the server agree                 *)
(* (createPrefsSync and update_preferences together).                      *)
THEOREM SavedWhenQuiet == Spec => []QuietMeansSaved
  <1>1. Init => KnowsWhatIsSaved BY DEF Init, KnowsWhatIsSaved, AnswerIsTrue, ToldIsTrue
  <1>2. IInv /\ KnowsWhatIsSaved => QuietMeansSaved
    <2> SUFFICES ASSUME IInv, KnowsWhatIsSaved, clean, posts = {}, phase = "ready", pending = Nothing, NEW k \in Keys
                 PROVE  Settled(k, server)
      BY DEF QuietMeansSaved
    <2>1. told = server BY DEF KnowsWhatIsSaved, ToldIsTrue
    <2>2. local[k] # Absent BY Markers DEF IInv, TypeOK
    <2>3. pending[k] = Absent BY DEF Nothing
    <2> QED BY <2>1, <2>2, <2>3 DEF IInv, Rest, NothingForgotten
  <1> QED BY InvInit, InvStep, TrueStep, <1>1, <1>2, PTL DEF Spec

-----------------------------------------------------------------------------
(***************************************************************************)
(* useIntegrationStatuses: what loads has an answer to come.               *)
(***************************************************************************)
IntTypes ==
    /\ statuses \in [Ints!integrations -> Ints!Status]
    /\ latest_statuses \in [Ints!integrations -> Ints!Status]
    /\ requests \in [Ints!integrations -> [trigger : Nat, poll : Nat]]
    /\ stored \in [Commits -> [Ints!integrations -> Ints!Status]]
    /\ commit \in Commits

IntsInv == IntTypes /\ Ints!NeverStuckLoading

LEMMA NothingIsStatuses == Ints!Nothing \in [Ints!integrations -> Ints!Status]
BY DEF Ints!Nothing, Ints!Unknown, Ints!Status

LEMMA IntsStart == Ints!Init => IntsInv
BY DEF Ints!Init, IntsInv, IntTypes, Ints!NeverStuckLoading, Ints!Nothing, Ints!Unknown, Ints!Status

(* What a page loads does not load.                                        *)
LEMMA LoadedIsQuiet ==
    ASSUME IntTypes, NEW c \in Commits
    PROVE  /\ Ints!Loaded(c) \in [Ints!integrations -> Ints!Status]
           /\ \A k \in Ints!integrations : ~Ints!Loaded(c)[k].loading
<1>1. ASSUME NEW k \in Ints!integrations, NEW s \in Ints!Status, NEW l, l = [s EXCEPT !.loading = FALSE]
      PROVE  l \in Ints!Status /\ ~l.loading
  BY <1>1 DEF Ints!Status
<1>2. \A k \in Ints!integrations : stored[c][k] \in Ints!Status
  BY DEF IntTypes
<1> QED
  BY <1>1, <1>2 DEF Ints!Loaded

LEMMA SaveKeepsTypes ==
    ASSUME IntTypes, NEW c \in Commits, Ints!Save(c, statuses)
    PROVE  stored' \in [Commits -> [Ints!integrations -> Ints!Status]]
<1>1. Ints!Cleaned(statuses) \in [Ints!integrations -> Ints!Status]
  BY DEF Ints!Cleaned, IntTypes, Ints!Unknown, Ints!Status
<1> QED
  BY <1>1, NothingIsStatuses DEF Ints!Save, IntTypes

(* Records with a field replaced.                                          *)
LEMMA CountReplaced ==
    ASSUME NEW q \in [trigger : Nat, poll : Nat], NEW n
    PROVE  /\ [q EXCEPT !.trigger = n] = [trigger |-> n, poll |-> q.poll]
           /\ [q EXCEPT !.poll = n] = [trigger |-> q.trigger, poll |-> n]
OBVIOUS

LEMMA StatusReplaced ==
    ASSUME NEW q \in Ints!Status, NEW l \in BOOLEAN, NEW e \in BOOLEAN
    PROVE  /\ [q EXCEPT !.loading = l] = [loading |-> l, triggered |-> q.triggered, error |-> q.error]
           /\ [q EXCEPT !.loading = l, !.error = e] = [loading |-> l, triggered |-> q.triggered, error |-> e]
<1>1. q \in [loading : BOOLEAN, triggered : BOOLEAN, error : BOOLEAN]
  BY DEF Ints!Status
<1>2. [q EXCEPT !.loading = l] = [loading |-> l, triggered |-> q.triggered, error |-> q.error]
  BY <1>1
<1>3. [q EXCEPT !.loading = l, !.error = e] = [[q EXCEPT !.loading = l] EXCEPT !.error = e]
  OBVIOUS
<1>4. [q EXCEPT !.loading = l, !.error = e] = [loading |-> l, triggered |-> q.triggered, error |-> e]
  <2>1. ASSUME NEW m, m = [loading |-> l, triggered |-> q.triggered, error |-> q.error]
        PROVE  [m EXCEPT !.error = e] = [loading |-> l, triggered |-> q.triggered, error |-> e]
    BY <1>1, <2>1
  <2> QED
    BY <1>2, <1>3, <2>1, Zenon
<1> QED
  BY <1>2, <1>4

(* Requests and statuses change one at a time.                             *)
LEMMA IntChanges ==
    ASSUME IntsInv, NEW k \in Ints!integrations,
           NEW r \in [trigger : Nat, poll : Nat], requests' = [requests EXCEPT ![k] = r],
           NEW s \in Ints!Status, statuses' = [statuses EXCEPT ![k] = s],
           s.loading => r.trigger + r.poll > 0,
           UNCHANGED <<commit, latest_statuses, stored, index>>
    PROVE  IntsInv'
BY DEF IntsInv, IntTypes, Ints!NeverStuckLoading, Ints!InFlight

LEMMA IntsNext == IntsInv /\ [Ints!Next]_ints => IntsInv'
<1> SUFFICES ASSUME IntsInv, [Ints!Next]_ints PROVE IntsInv'
  OBVIOUS
<1> USE DEF IntsInv
<1>1. CASE UNCHANGED ints
  BY <1>1 DEF ints, IntTypes, Ints!NeverStuckLoading, Ints!InFlight
<1>2. CASE Ints!Effects
  <2>1. IntTypes'
    BY <1>2, SaveKeepsTypes DEF Ints!Effects, IntTypes
  <2> QED
    BY <1>2, <2>1 DEF Ints!Effects, Ints!NeverStuckLoading, Ints!InFlight
<1>3. CASE Ints!Reload
  BY <1>3, LoadedIsQuiet DEF Ints!Reload, IntTypes, Ints!NeverStuckLoading
<1>4. ASSUME NEW c \in Commits, Ints!GoTo(c) PROVE IntsInv'
  BY <1>4, LoadedIsQuiet DEF Ints!GoTo, IntTypes, Ints!NeverStuckLoading
<1>5. ASSUME NEW k \in Ints!integrations, Ints!Trigger(k) PROVE IntsInv'
  <2> DEFINE r == [trigger |-> requests[k].trigger + 1, poll |-> requests[k].poll]
  <2>1. /\ requests[k] \in [trigger : Nat, poll : Nat]
        /\ statuses[k] \in [loading : BOOLEAN, triggered : BOOLEAN, error : BOOLEAN]
    BY DEF IntTypes, Ints!Status
  <2>2. /\ requests' = [requests EXCEPT ![k].trigger = requests[k].trigger + 1]
        /\ UNCHANGED <<commit, latest_statuses, stored, index>>
    BY <1>5 DEF Ints!Trigger
  <2>3. r \in [trigger : Nat, poll : Nat]
    BY <2>1, <2>2
  <2>4. requests' = [requests EXCEPT ![k] = r]
    BY <2>1, <2>2, CountReplaced
  <2> DEFINE s == [loading |-> TRUE, triggered |-> TRUE, error |-> FALSE]
  <2>5. statuses' = [statuses EXCEPT ![k] = s]
    BY <1>5, <2>1 DEF Ints!Trigger
  <2>6. s \in Ints!Status
    BY <2>1 DEF Ints!Status
  <2>7. r.trigger + r.poll > 0
    BY <2>1
  <2> QED
    BY <2>2, <2>3, <2>4, <2>5, <2>6, <2>7, IntChanges
<1>6. ASSUME NEW k \in Ints!integrations, Ints!Poll(k) PROVE IntsInv'
  <2> DEFINE r == [trigger |-> requests[k].trigger, poll |-> requests[k].poll + 1]
  <2>1. /\ requests[k] \in [trigger : Nat, poll : Nat]
        /\ statuses[k] \in [loading : BOOLEAN, triggered : BOOLEAN, error : BOOLEAN]
    BY DEF IntTypes, Ints!Status
  <2>2. /\ requests' = [requests EXCEPT ![k].poll = requests[k].poll + 1]
        /\ UNCHANGED <<commit, latest_statuses, stored, index>>
    BY <1>6 DEF Ints!Poll
  <2>3. r \in [trigger : Nat, poll : Nat]
    BY <2>1, <2>2
  <2>4. requests' = [requests EXCEPT ![k] = r]
    BY <2>1, <2>2, CountReplaced
  <2> DEFINE s == [loading |-> TRUE, triggered |-> statuses[k].triggered, error |-> statuses[k].error]
  <2>5. statuses' = [statuses EXCEPT ![k] = s]
    BY <1>6, <2>1, StatusReplaced DEF Ints!Poll, Ints!Status
  <2>6. s \in Ints!Status
    BY <2>1 DEF Ints!Status
  <2>7. r.trigger + r.poll > 0
    BY <2>1
  <2> QED
    BY <2>2, <2>3, <2>4, <2>5, <2>6, <2>7, IntChanges
<1>7. ASSUME NEW k \in Ints!integrations, Ints!TriggerAnswered(k) PROVE IntsInv'
  <2> DEFINE r == [trigger |-> requests[k].trigger - 1, poll |-> requests[k].poll]
  <2>1. /\ requests[k] \in [trigger : Nat, poll : Nat]
        /\ statuses[k] \in [loading : BOOLEAN, triggered : BOOLEAN, error : BOOLEAN]
    BY DEF IntTypes, Ints!Status
  <2>2. /\ requests[k].trigger > 0 /\ requests' = [requests EXCEPT ![k].trigger = requests[k].trigger - 1]
        /\ UNCHANGED <<commit, latest_statuses, stored, index>>
    BY <1>7 DEF Ints!TriggerAnswered
  <2>3. r \in [trigger : Nat, poll : Nat]
    BY <2>1, <2>2
  <2>4. requests' = [requests EXCEPT ![k] = r]
    BY <2>1, <2>2, CountReplaced
  <2>5. PICK failed \in BOOLEAN : statuses' = [statuses EXCEPT ![k] = [loading |-> FALSE, triggered |-> ~failed, error |-> failed]]
    BY <1>7 DEF Ints!TriggerAnswered
  <2> DEFINE s == [loading |-> FALSE, triggered |-> ~failed, error |-> failed]
  <2>6. s \in Ints!Status /\ statuses' = [statuses EXCEPT ![k] = s] /\ ~s.loading
    BY <2>1, <2>5, StatusReplaced DEF Ints!Status
  <2> QED
    BY <2>2, <2>3, <2>4, <2>6, IntChanges
<1>8. ASSUME NEW k \in Ints!integrations, Ints!PollAnswered(k) PROVE IntsInv'
  <2> DEFINE r == [trigger |-> requests[k].trigger, poll |-> requests[k].poll - 1]
  <2>1. /\ requests[k] \in [trigger : Nat, poll : Nat]
        /\ statuses[k] \in [loading : BOOLEAN, triggered : BOOLEAN, error : BOOLEAN]
    BY DEF IntTypes, Ints!Status
  <2>2. /\ requests[k].poll > 0 /\ requests' = [requests EXCEPT ![k].poll = requests[k].poll - 1]
        /\ UNCHANGED <<commit, latest_statuses, stored, index>>
    BY <1>8 DEF Ints!PollAnswered
  <2>3. r \in [trigger : Nat, poll : Nat]
    BY <2>1, <2>2
  <2>4. requests' = [requests EXCEPT ![k] = r]
    BY <2>1, <2>2, CountReplaced
  <2>5. PICK failed \in BOOLEAN : statuses' = [statuses EXCEPT ![k] = [@ EXCEPT !.loading = FALSE, !.error = failed]]
    BY <1>8 DEF Ints!PollAnswered
  <2> DEFINE s == [loading |-> FALSE, triggered |-> statuses[k].triggered, error |-> failed]
  <2>6. s \in Ints!Status /\ statuses' = [statuses EXCEPT ![k] = s] /\ ~s.loading
    BY <2>1, <2>5, StatusReplaced DEF Ints!Status
  <2> QED
    BY <2>2, <2>3, <2>4, <2>6, IntChanges
<1> QED
  BY <1>1, <1>2, <1>3, <1>4, <1>5, <1>6, <1>7, <1>8 DEF Ints!Next, Ints!integrations

(* A status that loads has a request under way whose answer will say that it does not: from *)
(* commit to commit, and when the page is loaded again.                                    *)
THEOREM LoadingEnds == AppSpec => []NeverStuckLoading
<1>1. AppInit => IntsInv
  BY IntsStart DEF AppInit
<1>2. IntsInv /\ [AppNext]_app => IntsInv'
  BY IntsNext, StepsOfParts
<1>3. IntsInv => NeverStuckLoading
  BY DEF IntsInv, NeverStuckLoading
<1> QED
  BY <1>1, <1>2, <1>3, PTL DEF AppSpec

(* The commits whose statuses are kept are listed, each once.              *)
Listed(q, o) == \E i \in 1..Len(q) : q[i] = o
OnceEach(q) == \A i, j \in 1..Len(q) : q[i] = q[j] => i = j

LEMMA UnlistedIs ==
    ASSUME NEW q \in Seq(Commits), OnceEach(q), NEW c, NEW r, r = Ints!RemoveFirst(q, c)
    PROVE  /\ r \in Seq(Commits) /\ OnceEach(r)
           /\ Len(r) <= Len(q) /\ ~Listed(r, c)
           /\ \A o : Listed(q, o) /\ o # c => Listed(r, o)
<1>1. CASE ~Listed(q, c)
  <2>1. r = q
    BY <1>1 DEF Ints!RemoveFirst, Listed
  <2> QED
    BY <1>1, <2>1
<1>2. CASE Listed(q, c)
  <2>1. PICK i \in 1..Len(q) : q[i] = c
    BY <1>2 DEF Listed
  <2>2. {k \in 1..Len(q) : q[k] = c} = {i}
    BY <2>1 DEF OnceEach
  <2>3. Ints!Min({i}) = i
    BY DEF Ints!Min
  <2>4. r = Ints!RemoveAt(q, i)
    BY <2>1, <2>2, <2>3 DEF Ints!RemoveFirst, Ints!SelectInSeq
  <2>5. r = Refs!RemoveAt(q, i)
    BY <2>4 DEF Ints!RemoveAt, Refs!RemoveAt
  <2>6. PICK n \in Nat : n = Len(q)
    BY LenProperties
  <2>7. r \in Seq(Commits) /\ Len(r) = n - 1 /\ \A k \in 1..(n - 1) : r[k] = RestOf(q, i, k)
    BY <2>5, <2>6, RemoveIs
  <2>8. n - 1 \in Nat /\ i \in 1..n
    BY <2>1, <2>6
  <2>9. OnceEach(r)
    BY <2>6, <2>7, <2>8 DEF OnceEach, RestOf
  <2>10. ~Listed(r, c)
    BY <2>1, <2>6, <2>7, <2>8 DEF OnceEach, Listed, RestOf
  <2>11. ASSUME NEW o, Listed(q, o), o # c PROVE Listed(r, o)
    <3>1. PICK k \in 1..n : q[k] = o
      BY <2>6, <2>11 DEF Listed
    <3>2. CASE k < i
      <4>1. k \in 1..(n - 1) /\ r[k] = q[k]
        BY <2>7, <2>8, <3>1, <3>2 DEF RestOf
      <4> QED
        BY <2>7, <3>1, <4>1 DEF Listed
    <3>3. CASE k > i
      <4>1. k - 1 \in 1..(n - 1) /\ r[k - 1] = q[k]
        BY <2>7, <2>8, <3>1, <3>3 DEF RestOf
      <4> QED
        BY <2>7, <3>1, <4>1 DEF Listed
    <3> QED
      BY <2>1, <2>8, <2>11, <3>1, <3>2, <3>3
  <2> QED
    BY <2>6, <2>7, <2>8, <2>9, <2>10, <2>11
<1> QED
  BY <1>1, <1>2

(* The last ones of a list.                                                *)
LEMMA LatestAre ==
    ASSUME NEW q \in Seq(Commits), OnceEach(q), NEW f \in Nat, f < Len(q), NEW r, r = SubSeq(q, f + 1, Len(q))
    PROVE  /\ r \in Seq(Commits) /\ OnceEach(r) /\ Len(r) = Len(q) - f
           /\ \A i \in 1..Len(q) : i > f => Listed(r, q[i])
<1>1. PICK n \in Nat : n = Len(q)
  BY LenProperties
<1>2. \A k \in (f + 1)..n : q[k] \in Commits
  BY <1>1, ElementOfSeq
<1>3. r \in Seq(Commits) /\ Len(r) = n - f /\ \A k \in 1..(n - f) : r[k] = q[k + f]
  BY <1>1, <1>2, SubSeqProperties
<1>4. OnceEach(r)
  <2> SUFFICES ASSUME NEW i \in 1..(n - f), NEW j \in 1..(n - f), r[i] = r[j] PROVE i = j
    BY <1>3 DEF OnceEach
  <2> DEFINE a == i + f
             b == j + f
  <2>1. a \in 1..n /\ b \in 1..n /\ r[i] = q[a] /\ r[j] = q[b]
    BY <1>1, <1>3
  <2>2. a = b
    BY <1>1, <2>1 DEF OnceEach
  <2> QED
    BY <2>2
<1>5. ASSUME NEW i \in 1..n, i > f PROVE Listed(r, q[i])
  <2>1. i - f \in 1..(n - f) /\ r[i - f] = q[i]
    BY <1>1, <1>3, <1>5
  <2> QED
    BY <1>3, <2>1 DEF Listed
<1> QED
  BY <1>1, <1>3, <1>4, <1>5

(* The list names each commit once, at most LS_MAX_COMMITS of them, and    *)
(* every one that has statuses.                                            *)
ListKept ==
    /\ index \in Seq(Commits) /\ OnceEach(index) /\ Len(index) <= LS_MAX_COMMITS
    /\ \A c \in Commits : stored[c] # Ints!Nothing => Listed(index, c)
Counted == requests \in [Ints!integrations -> [trigger : 0..MaxRequests, poll : 0..MaxRequests]]
IntShapes == IntsInv /\ ListKept /\ Counted

LEMMA StatusesBounds == LS_MAX_COMMITS \in Nat \ {0} /\ MaxRequests \in Nat
BY AppAssumption DEF Ints!StatusesAssumption

LEMMA IntShapesStart == Ints!Init => IntShapes
<1> SUFFICES ASSUME Ints!Init PROVE IntShapes
  OBVIOUS
<1>1. IntsInv
  BY IntsStart
<1>2. index = <<>> /\ stored = [c \in Commits |-> Ints!Nothing]
  BY DEF Ints!Init
<1>3. index \in Seq(Commits) /\ Len(index) = 0
  BY <1>2
<1>4. ListKept
  BY <1>2, <1>3, StatusesBounds DEF ListKept, OnceEach
<1>5. Counted
  BY StatusesBounds DEF Ints!Init, Counted
<1> QED
  BY <1>1, <1>4, <1>5 DEF IntShapes

(* A commit that is saved moves to the end of the list: the first one      *)
(* leaves a list that was full, and its statuses with it.                  *)
LEMMA SaveKeepsTheList ==
    ASSUME IntTypes, ListKept, NEW c \in Commits, Ints!Save(c, statuses)
    PROVE  ListKept'
<1>1. CASE Ints!Cleaned(statuses) = Ints!Nothing
  <2>1. index' = index /\ stored' = [stored EXCEPT ![c] = Ints!Nothing]
    BY <1>1 DEF Ints!Save
  <2>2. \A o \in Commits : stored'[o] = stored[o] \/ stored'[o] = Ints!Nothing
    BY <2>1 DEF IntTypes
  <2> QED
    BY <2>1, <2>2 DEF ListKept
<1>2. CASE Ints!Cleaned(statuses) # Ints!Nothing
  <2> DEFINE rest == Ints!RemoveFirst(index, c)
             listed == Append(rest, c)
             forgotten == Len(listed) - LS_MAX_COMMITS
  <2>1. /\ index' = SubSeq(listed, IF forgotten > 0 THEN forgotten + 1 ELSE 1, Len(listed))
        /\ \A o \in Commits : o # c /\ (\E i \in DOMAIN listed : i <= forgotten /\ listed[i] = o) => stored'[o] = Ints!Nothing
        /\ \A o \in Commits : o # c /\ ~(\E i \in DOMAIN listed : i <= forgotten /\ listed[i] = o) => stored'[o] = stored[o]
    BY <1>2 DEF Ints!Save
  <2>2. index \in Seq(Commits) /\ OnceEach(index)
    BY DEF ListKept
  <2>3. /\ rest \in Seq(Commits) /\ OnceEach(rest) /\ Len(rest) <= Len(index) /\ ~Listed(rest, c)
        /\ \A o : Listed(index, o) /\ o # c => Listed(rest, o)
    BY <2>2, UnlistedIs
  <2> HIDE DEF rest
  <2>4. PICK n \in Nat : n = Len(rest)
    BY <2>3, LenProperties
  <2>5. PICK m \in Nat : m = Len(index)
    BY <2>2, LenProperties
  <2>6. n <= LS_MAX_COMMITS
    BY <2>3, <2>4, <2>5, StatusesBounds DEF ListKept
  <2>7. /\ listed \in Seq(Commits) /\ Len(listed) = n + 1 /\ DOMAIN listed = 1..(n + 1)
        /\ listed[n + 1] = c /\ \A i \in 1..n : listed[i] = rest[i]
    BY <2>3, <2>4
  <2> HIDE DEF listed
  <2>8. OnceEach(listed)
    <3> SUFFICES ASSUME NEW i \in 1..(n + 1), NEW j \in 1..(n + 1), listed[i] = listed[j] PROVE i = j
      BY <2>7 DEF OnceEach
    <3>1. \A k \in 1..n : rest[k] # c
      BY <2>3, <2>4 DEF Listed
    <3>2. CASE i \in 1..n /\ j \in 1..n
      BY <2>3, <2>4, <2>7, <3>2 DEF OnceEach
    <3>3. CASE i = n + 1 /\ j \in 1..n
      BY <2>7, <3>1, <3>3
    <3>4. CASE j = n + 1 /\ i \in 1..n
      BY <2>7, <3>1, <3>4
    <3> QED
      BY <3>2, <3>3, <3>4
  <2> DEFINE f == IF forgotten > 0 THEN forgotten ELSE 0
  <2>9. f \in Nat /\ f < n + 1 /\ n + 1 - f <= LS_MAX_COMMITS /\ \A i \in 1..(n + 1) : i <= f <=> i <= forgotten
    BY <2>6, <2>7, StatusesBounds
  <2>10. index' = SubSeq(listed, f + 1, Len(listed))
    <3>1. CASE forgotten > 0
      BY <2>1, <3>1
    <3>2. CASE ~(forgotten > 0)
      <4>1. f + 1 = 1
        BY <3>2
      <4> QED
        BY <2>1, <3>2, <4>1
    <3> QED
      BY <3>1, <3>2
  <2> HIDE DEF f, forgotten
  <2>11. /\ index' \in Seq(Commits) /\ OnceEach(index') /\ Len(index') = n + 1 - f
         /\ \A i \in 1..(n + 1) : i > f => Listed(index', listed[i])
    <3>1. f < Len(listed) /\ Len(listed) - f = n + 1 - f
      BY <2>7, <2>9
    <3>2. /\ index' \in Seq(Commits) /\ OnceEach(index') /\ Len(index') = Len(listed) - f
          /\ \A i \in 1..Len(listed) : i > f => Listed(index', listed[i])
      BY <2>7, <2>8, <2>9, <2>10, <3>1, LatestAre
    <3> QED
      BY <2>7, <3>1, <3>2
  <2>12. Len(index') <= LS_MAX_COMMITS
    BY <2>9, <2>11
  <2>13. ASSUME NEW o \in Commits, stored'[o] # Ints!Nothing PROVE Listed(index', o)
    <3>1. CASE o = c
      BY <2>7, <2>9, <2>11, <3>1
    <3>2. CASE o # c
      <4>1. stored[o] # Ints!Nothing /\ ~\E i \in 1..(n + 1) : i <= forgotten /\ listed[i] = o
        BY <2>1, <2>7, <2>13, <3>2
      <4>2. Listed(rest, o)
        BY <2>3, <3>2, <4>1 DEF ListKept
      <4>3. PICK k \in 1..n : rest[k] = o
        BY <2>4, <4>2 DEF Listed
      <4>4. k \in 1..(n + 1) /\ listed[k] = o
        BY <2>7, <4>3
      <4>5. k > f
        BY <2>9, <4>1, <4>4
      <4> QED
        BY <2>11, <4>4, <4>5
    <3> QED
      BY <3>1, <3>2
  <2> QED
    BY <2>11, <2>12, <2>13 DEF ListKept
<1> QED
  BY <1>1, <1>2

(* A request is counted while there is room for it.                        *)
LEMMA OneRequest ==
    ASSUME NEW a \in 0..MaxRequests, NEW b \in 0..MaxRequests
    PROVE  /\ a + b < MaxRequests => a + 1 \in 0..MaxRequests /\ b + 1 \in 0..MaxRequests
           /\ a > 0 => a - 1 \in 0..MaxRequests
           /\ b > 0 => b - 1 \in 0..MaxRequests
BY StatusesBounds

LEMMA RequestsAreCounted == Counted /\ [Ints!Next]_ints => Counted'
<1> SUFFICES ASSUME Counted, [Ints!Next]_ints PROVE Counted'
  OBVIOUS
<1> DEFINE Bounds == [trigger : 0..MaxRequests, poll : 0..MaxRequests]
<1>1. ASSUME NEW k \in Ints!integrations, NEW a \in 0..MaxRequests, NEW b \in 0..MaxRequests,
             requests' = [requests EXCEPT ![k] = [trigger |-> a, poll |-> b]]
      PROVE  Counted'
  BY <1>1 DEF Counted
<1>2. CASE UNCHANGED requests
  BY <1>2 DEF Counted
<1>3. CASE requests' = [k \in Ints!integrations |-> [trigger |-> 0, poll |-> 0]]
  BY <1>3, StatusesBounds DEF Counted
<1>4. ASSUME NEW k \in Ints!integrations,
             Ints!Trigger(k) \/ Ints!TriggerAnswered(k) \/ Ints!Poll(k) \/ Ints!PollAnswered(k)
      PROVE  Counted'
  <2> DEFINE a == requests[k].trigger
             b == requests[k].poll
  <2>1. requests[k] \in Bounds
    BY DEF Counted
  <2>2. a \in 0..MaxRequests /\ b \in 0..MaxRequests /\ requests[k] = [trigger |-> a, poll |-> b]
    BY <2>1
  <2>3. \/ a + b < MaxRequests /\ requests' = [requests EXCEPT ![k].trigger = a + 1]
        \/ a > 0 /\ requests' = [requests EXCEPT ![k].trigger = a - 1]
        \/ a + b < MaxRequests /\ requests' = [requests EXCEPT ![k].poll = b + 1]
        \/ b > 0 /\ requests' = [requests EXCEPT ![k].poll = b - 1]
    BY <1>4 DEF Ints!Trigger, Ints!TriggerAnswered, Ints!Poll, Ints!PollAnswered, Ints!InFlight
  <2>4. ASSUME NEW x \in Nat PROVE /\ [requests EXCEPT ![k].trigger = x] = [requests EXCEPT ![k] = [trigger |-> x, poll |-> b]]
                                    /\ [requests EXCEPT ![k].poll = x] = [requests EXCEPT ![k] = [trigger |-> a, poll |-> x]]
    <3>1. requests[k] \in [trigger : Nat, poll : Nat]
      BY <2>1
    <3> QED
      BY <2>2, <3>1, CountReplaced
  <2> HIDE DEF a, b
  <2> QED
    BY <1>1, <2>2, <2>3, <2>4, OneRequest
<1> QED
  BY <1>2, <1>3, <1>4 DEF ints, Ints!Next, Ints!Effects, Ints!Reload, Ints!GoTo, Ints!integrations

LEMMA IntShapesNext == IntShapes /\ [Ints!Next]_ints => IntShapes'
<1> SUFFICES ASSUME IntShapes, [Ints!Next]_ints PROVE IntShapes'
  OBVIOUS
<1>1. IntsInv' /\ Counted'
  BY IntsNext, RequestsAreCounted DEF IntShapes
<1>2. UNCHANGED <<stored, index>> => ListKept'
  BY DEF IntShapes, ListKept
<1>3. Ints!Effects => ListKept'
  BY SaveKeepsTheList DEF Ints!Effects, IntShapes, IntsInv, IntTypes
<1>4. ListKept'
  BY <1>2, <1>3 DEF ints, Ints!Next, Ints!Reload, Ints!GoTo, Ints!Trigger, Ints!TriggerAnswered, Ints!Poll, Ints!PollAnswered
<1> QED
  BY <1>1, <1>4 DEF IntShapes

LEMMA IntShapesOK == AppSpec => []Ints!TypeOK
<1>1. AppInit => IntShapes
  BY IntShapesStart DEF AppInit
<1>2. IntShapes /\ [AppNext]_app => IntShapes'
  BY IntShapesNext, StepsOfParts
<1>3. IntShapes => Ints!TypeOK
  <2> SUFFICES ASSUME IntShapes PROVE Ints!TypeOK
    OBVIOUS
  <2>1. index \in Seq(Commits) /\ DOMAIN index = 1..Len(index)
    BY DEF IntShapes, ListKept
  <2>2. Ints!IsInjective(index)
    BY <2>1 DEF IntShapes, ListKept, OnceEach, Ints!IsInjective
  <2>3. \A c \in Commits : stored[c] # Ints!Nothing => Ints!Contains(index, c)
    BY DEF IntShapes, ListKept, Listed, Ints!Contains
  <2> QED
    BY <2>1, <2>2, <2>3 DEF IntShapes, IntsInv, IntTypes, ListKept, Counted, Ints!TypeOK
<1> QED
  BY <1>1, <1>2, <1>3, PTL DEF AppSpec

-----------------------------------------------------------------------------
(***************************************************************************)
(* submissions.js: what a store knows of a job j, under the status s.      *)
(***************************************************************************)
Store == [state : Subs!States, listeners : SUBSET Listeners, polling : BOOLEAN, timer : BOOLEAN,
          log : SUBSET (BOOLEAN \X Subs!Codes), report : SUBSET Subs!Reports]
Job == [log : BOOLEAN, code : Subs!Codes, report : Subs!Reports]

(* What was read stays true: the exit code and LSF's report are final.     *)
Knows(x, j) ==
    /\ \A l \in x.log : l[2] # -1 => j.code = l[2]
    /\ \A r \in x.report : r # "none" => j.report = r
Polls(x) == x.polling <=> x.listeners # {} /\ ~Subs!IsFinal(x.state)
Tells(s, x, j) ==
    IF s \in {"done", "failed"} THEN x.state = s
    ELSE /\ x.state = "done" => j.code = 0
         /\ x.state = "failed" => j.code = 1 \/ (j.report = "exited" /\ j.code # 0)
Good(s, x, j) == Knows(x, j) /\ Polls(x) /\ Tells(s, x, j)

SubsInv ==
    /\ job \in Job /\ lsf \in BOOLEAN /\ status \in Subs!Statuses
    /\ job.report = "successful" => job.code = 0
    /\ job.report = "exited" => job.code # 0
    /\ stores \in [Subs!Statuses -> Store]
    /\ \A s \in Subs!Statuses : Good(s, stores[s], job)

LEMMA SubsStart == Subs!Init => SubsInv
<1> SUFFICES ASSUME Subs!Init PROVE SubsInv
  OBVIOUS
<1> DEFINE Told(s) == Subs!SubmissionState(s, "none", Subs!NoLog)
<1>1. \A s \in Subs!Statuses : Told(s) \in Subs!States /\ Told(s) = (CASE s = "done" -> "done" [] s = "failed" -> "failed" [] s = "submitting" -> "running" [] s = "submitted" -> "queued")
  BY DEF Subs!SubmissionState, Subs!NoLog, Subs!Statuses, Subs!States
<1> HIDE DEF Told
<1>2. stores = [s \in Subs!Statuses |->
                   [state |-> Told(s), listeners |-> {},
                    polling |-> FALSE, timer |-> FALSE, log |-> {}, report |-> {}]]
  BY DEF Subs!Init, Subs!Unread, Told
<1>3. stores \in [Subs!Statuses -> Store]
  BY <1>1, <1>2 DEF Store
<1>4. \A s \in Subs!Statuses : Good(s, stores[s], job)
  BY <1>1, <1>2 DEF Good, Knows, Polls, Tells, Subs!Statuses
<1>5. job \in Job /\ lsf \in BOOLEAN /\ status \in Subs!Statuses /\ job.report = "none"
  BY DEF Subs!Init, Job, Subs!Codes, Subs!Reports, Subs!Statuses
<1> QED
  BY <1>3, <1>4, <1>5 DEF SubsInv

LEMMA StoreChanges ==
    ASSUME SubsInv, NEW s \in Subs!Statuses, NEW x \in Store, Good(s, x, job),
           stores' = [stores EXCEPT ![s] = x], UNCHANGED <<job, lsf>>, status' \in Subs!Statuses
    PROVE  SubsInv'
<1>1. stores' \in [Subs!Statuses -> Store]
  BY DEF SubsInv
<1>2. ASSUME NEW o \in Subs!Statuses PROVE Good(o, stores'[o], job')
  BY DEF SubsInv
<1> QED
  BY <1>1, <1>2 DEF SubsInv

(* A store with some of its fields replaced.                               *)
StoreOf(state, listeners, polling, due, read, report) ==
    [state |-> state, listeners |-> listeners, polling |-> polling, timer |-> due,
     log |-> read, report |-> report]

(* What actions replace in a store.                                        *)
WithListeners(x, v) == [x EXCEPT !.listeners = v]
WithTimer(x, t) == [x EXCEPT !.timer = t]
WithLog(x, l) == [x EXCEPT !.log = l]
WithReport(x, r) == [x EXCEPT !.report = r]
Aborted(x, t, l, r) == [x EXCEPT !.timer = t, !.log = l, !.report = r]
Polled(x, p, t, l, r) == [x EXCEPT !.polling = p, !.timer = t, !.log = l, !.report = r]
Told(x, v, p, t, l, r) == [x EXCEPT !.state = v, !.polling = p, !.timer = t, !.log = l, !.report = r]

LEMMA StoreReplaced ==
    ASSUME NEW x \in Store, NEW p, NEW t, NEW l, NEW r, NEW v
    PROVE  /\ WithListeners(x, v) = StoreOf(x.state, v, x.polling, x.timer, x.log, x.report)
           /\ WithTimer(x, t) = StoreOf(x.state, x.listeners, x.polling, t, x.log, x.report)
           /\ WithLog(x, l) = StoreOf(x.state, x.listeners, x.polling, x.timer, l, x.report)
           /\ WithReport(x, r) = StoreOf(x.state, x.listeners, x.polling, x.timer, x.log, r)
           /\ Aborted(x, t, l, r) = StoreOf(x.state, x.listeners, x.polling, t, l, r)
           /\ Polled(x, p, t, l, r) = StoreOf(x.state, x.listeners, p, t, l, r)
           /\ Told(x, v, p, t, l, r) = StoreOf(v, x.listeners, p, t, l, r)
<1>1. /\ [x EXCEPT !.state = v] = StoreOf(v, x.listeners, x.polling, x.timer, x.log, x.report)
      /\ [x EXCEPT !.listeners = v] = StoreOf(x.state, v, x.polling, x.timer, x.log, x.report)
      /\ [x EXCEPT !.polling = p] = StoreOf(x.state, x.listeners, p, x.timer, x.log, x.report)
      /\ [x EXCEPT !.timer = t] = StoreOf(x.state, x.listeners, x.polling, t, x.log, x.report)
      /\ [x EXCEPT !.log = l] = StoreOf(x.state, x.listeners, x.polling, x.timer, l, x.report)
      /\ [x EXCEPT !.report = r] = StoreOf(x.state, x.listeners, x.polling, x.timer, x.log, r)
  BY DEF Store, StoreOf
<1>2. Aborted(x, t, l, r) = StoreOf(x.state, x.listeners, x.polling, t, l, r)
  <2>1. Aborted(x, t, l, r)
          = [[[x EXCEPT !.timer = t] EXCEPT !.log = l] EXCEPT !.report = r]
    BY DEF Aborted
  <2>2. ASSUME NEW m, m = StoreOf(x.state, x.listeners, x.polling, t, x.log, x.report)
        PROVE  [m EXCEPT !.log = l] = StoreOf(x.state, x.listeners, x.polling, t, l, x.report)
    BY <2>2 DEF StoreOf
  <2>3. ASSUME NEW m, m = StoreOf(x.state, x.listeners, x.polling, t, l, x.report)
        PROVE  [m EXCEPT !.report = r] = StoreOf(x.state, x.listeners, x.polling, t, l, r)
    BY <2>3 DEF StoreOf
  <2> QED
    BY <1>1, <2>1, <2>2, <2>3, Zenon
<1>3. Polled(x, p, t, l, r) = StoreOf(x.state, x.listeners, p, t, l, r)
  <2>1. Polled(x, p, t, l, r)
          = [[[[x EXCEPT !.polling = p] EXCEPT !.timer = t] EXCEPT !.log = l] EXCEPT !.report = r]
    BY DEF Polled
  <2>2. ASSUME NEW m, m = StoreOf(x.state, x.listeners, p, x.timer, x.log, x.report)
        PROVE  [m EXCEPT !.timer = t] = StoreOf(x.state, x.listeners, p, t, x.log, x.report)
    BY <2>2 DEF StoreOf
  <2>3. ASSUME NEW m, m = StoreOf(x.state, x.listeners, p, t, x.log, x.report)
        PROVE  [m EXCEPT !.log = l] = StoreOf(x.state, x.listeners, p, t, l, x.report)
    BY <2>3 DEF StoreOf
  <2>4. ASSUME NEW m, m = StoreOf(x.state, x.listeners, p, t, l, x.report)
        PROVE  [m EXCEPT !.report = r] = StoreOf(x.state, x.listeners, p, t, l, r)
    BY <2>4 DEF StoreOf
  <2> QED
    BY <1>1, <2>1, <2>2, <2>3, <2>4, Zenon
<1>4. Told(x, v, p, t, l, r) = StoreOf(v, x.listeners, p, t, l, r)
  <2>1. Told(x, v, p, t, l, r)
          = [[[[[x EXCEPT !.state = v] EXCEPT !.polling = p] EXCEPT !.timer = t] EXCEPT !.log = l] EXCEPT !.report = r]
    BY DEF Told
  <2>2. \A m : m = StoreOf(v, x.listeners, x.polling, x.timer, x.log, x.report)
          => [[m EXCEPT !.polling = p] EXCEPT !.timer = t] = StoreOf(v, x.listeners, p, t, x.log, x.report)
    <3>1. ASSUME NEW m, m = StoreOf(v, x.listeners, x.polling, x.timer, x.log, x.report)
          PROVE  [m EXCEPT !.polling = p] = StoreOf(v, x.listeners, p, x.timer, x.log, x.report)
      BY <3>1 DEF StoreOf
    <3>2. ASSUME NEW m, m = StoreOf(v, x.listeners, p, x.timer, x.log, x.report)
          PROVE  [m EXCEPT !.timer = t] = StoreOf(v, x.listeners, p, t, x.log, x.report)
      BY <3>2 DEF StoreOf
    <3> QED
      BY <3>1, <3>2, Zenon
  <2>3. \A m : m = StoreOf(v, x.listeners, p, t, x.log, x.report)
          => [[m EXCEPT !.log = l] EXCEPT !.report = r] = StoreOf(v, x.listeners, p, t, l, r)
    <3>1. ASSUME NEW m, m = StoreOf(v, x.listeners, p, t, x.log, x.report)
          PROVE  [m EXCEPT !.log = l] = StoreOf(v, x.listeners, p, t, l, x.report)
      BY <3>1 DEF StoreOf
    <3>2. ASSUME NEW m, m = StoreOf(v, x.listeners, p, t, l, x.report)
          PROVE  [m EXCEPT !.report = r] = StoreOf(v, x.listeners, p, t, l, r)
      BY <3>2 DEF StoreOf
    <3> QED
      BY <3>1, <3>2, Zenon
  <2> QED
    BY <1>1, <2>1, <2>2, <2>3, Zenon
<1> QED
  BY <1>1, <1>2, <1>3, <1>4 DEF WithListeners, WithTimer, WithLog, WithReport

LEMMA PolledIs ==
    ASSUME NEW x \in Store
    PROVE  \A p, t, l, r : Polled(x, p, t, l, r) = StoreOf(x.state, x.listeners, p, t, l, r)
BY StoreReplaced

LEMMA ToldIs ==
    ASSUME NEW x \in Store
    PROVE  \A v, p, t, l, r : Told(x, v, p, t, l, r) = StoreOf(v, x.listeners, p, t, l, r)
BY StoreReplaced

LEMMA AbortedIs ==
    ASSUME NEW x \in Store
    PROVE  \A t, l, r : Aborted(x, t, l, r) = StoreOf(x.state, x.listeners, x.polling, t, l, r)
BY StoreReplaced

LEMMA StoppedIs ==
    ASSUME NEW x \in Store
    PROVE  Subs!Stopped(x) = StoreOf(x.state, x.listeners, FALSE, FALSE, {}, {})
<1>1. Subs!Stopped(x) = Polled(x, FALSE, FALSE, {}, {})
  BY DEF Subs!Stopped, Subs!Unread, Polled
<1> QED
  BY <1>1, PolledIs, Zenon

LEMMA StartedIs ==
    ASSUME NEW x \in Store, NEW s
    PROVE  Subs!Started(x, s) = IF x.polling \/ Subs!IsFinal(x.state) \/ s \in {"done", "failed"} THEN x
                                ELSE StoreOf(x.state, x.listeners, TRUE, FALSE, {}, {})
<1>1. Subs!Started(x, s) = IF x.polling \/ Subs!IsFinal(x.state) \/ s \in {"done", "failed"} THEN x
                           ELSE Polled(x, TRUE, FALSE, {}, {})
  BY DEF Subs!Started, Subs!Unread, Polled
<1> QED
  BY <1>1, PolledIs, Zenon

(* Who looks at a store.                                                   *)
LEMMA JoinsWell ==
    ASSUME NEW s \in Subs!Statuses, NEW x \in Store, NEW j, Good(s, x, j),
           NEW who \in SUBSET Listeners, who # {}
    PROVE  Subs!Joins(x, s, who) \in Store /\ Good(s, Subs!Joins(x, s, who), j)
<1> DEFINE y == StoreOf(x.state, x.listeners \cup who, x.polling, x.timer, x.log, x.report)
           z == StoreOf(x.state, x.listeners \cup who, TRUE, FALSE, {}, {})
<1>1. y \in Store /\ z \in Store
  BY DEF Store, StoreOf
<1>2. WithListeners(x, x.listeners \cup who) = y
  BY StoreReplaced
<1>3. /\ y.listeners = x.listeners \cup who /\ y.state = x.state /\ y.polling = x.polling
      /\ y.log = x.log /\ y.report = x.report
      /\ z.listeners = x.listeners \cup who /\ z.state = x.state /\ z.polling
      /\ z.log = {} /\ z.report = {} /\ z = StoreOf(y.state, y.listeners, TRUE, FALSE, {}, {})
  BY DEF StoreOf
<1> HIDE DEF y, z
<1>4. Subs!Joins(x, s, who) = IF y.polling \/ Subs!IsFinal(y.state) \/ s \in {"done", "failed"} THEN y ELSE z
  <2>1. Subs!Joins(x, s, who) = Subs!Started(y, s)
    BY <1>2 DEF Subs!Joins, WithListeners
  <2>2. Subs!Started(y, s) = IF y.polling \/ Subs!IsFinal(y.state) \/ s \in {"done", "failed"} THEN y
                             ELSE StoreOf(y.state, y.listeners, TRUE, FALSE, {}, {})
    BY <1>1, StartedIs, Zenon
  <2> QED
    BY <1>3, <2>1, <2>2, Zenon
<1>5. CASE y.polling \/ Subs!IsFinal(y.state) \/ s \in {"done", "failed"}
  <2>1. Good(s, y, j)
    BY <1>3, <1>5 DEF Good, Knows, Polls, Tells, Subs!IsFinal
  <2> QED
    BY <1>1, <1>4, <1>5, <2>1
<1>6. CASE ~(y.polling \/ Subs!IsFinal(y.state) \/ s \in {"done", "failed"})
  <2>1. Good(s, z, j)
    BY <1>3, <1>6 DEF Good, Knows, Polls, Tells
  <2> QED
    BY <1>1, <1>4, <1>6, <2>1
<1> QED
  BY <1>5, <1>6

LEMMA LeavesWell ==
    ASSUME NEW s \in Subs!Statuses, NEW x \in Store, NEW j, Good(s, x, j), NEW who \in SUBSET Listeners
    PROVE  Subs!Leaves(x, who) \in Store /\ Good(s, Subs!Leaves(x, who), j)
<1> DEFINE y == StoreOf(x.state, {}, x.polling, x.timer, x.log, x.report)
           z == StoreOf(x.state, {}, FALSE, FALSE, {}, {})
           w == StoreOf(x.state, x.listeners \ who, x.polling, x.timer, x.log, x.report)
<1>1. y \in Store /\ z \in Store /\ w \in Store
  BY DEF Store, StoreOf
<1>2. WithListeners(x, {}) = y /\ WithListeners(x, x.listeners \ who) = w
  BY StoreReplaced
<1>3. /\ z = StoreOf(y.state, y.listeners, FALSE, FALSE, {}, {})
      /\ z.listeners = {} /\ z.state = x.state /\ ~z.polling /\ z.log = {} /\ z.report = {}
      /\ w.listeners = x.listeners \ who /\ w.state = x.state /\ w.polling = x.polling
      /\ w.log = x.log /\ w.report = x.report
  BY DEF StoreOf
<1> HIDE DEF y, z, w
<1>4. Subs!Leaves(x, who) = IF x.listeners \subseteq who THEN z ELSE w
  BY <1>1, <1>2, <1>3, StoppedIs DEF Subs!Leaves, WithListeners
<1>5. Good(s, z, j)
  BY <1>3 DEF Good, Knows, Polls, Tells
<1>6. ~(x.listeners \subseteq who) => Good(s, w, j)
  BY <1>3 DEF Good, Knows, Polls, Tells
<1> QED
  BY <1>1, <1>4, <1>5, <1>6


LEMMA SubsNext == SubsInv /\ [Subs!Next]_subs => SubsInv'
<1> SUFFICES ASSUME SubsInv, [Subs!Next]_subs PROVE SubsInv'
  OBVIOUS
<1>0. stores \in [Subs!Statuses -> Store] /\ status \in Subs!Statuses
  BY DEF SubsInv
<1>1. CASE UNCHANGED subs
  BY <1>1 DEF subs, SubsInv
<1>2. CASE Subs!Subscribe
  <2>1. PICK c \in Listeners : stores' = [stores EXCEPT ![status] = Subs!Joins(stores[status], status, {c})]
    BY <1>2 DEF Subs!Subscribe
  <2>2. /\ Subs!Joins(stores[status], status, {c}) \in Store
        /\ Good(status, Subs!Joins(stores[status], status, {c}), job)
    BY <1>0, JoinsWell DEF SubsInv
  <2> QED
    BY <1>0, <1>2, <2>1, <2>2, StoreChanges DEF Subs!Subscribe
<1>3. CASE Subs!Unsubscribe
  <2>1. PICK c \in stores[status].listeners : stores' = [stores EXCEPT ![status] = Subs!Leaves(stores[status], {c})]
    BY <1>3 DEF Subs!Unsubscribe
  <2>2. {c} \in SUBSET Listeners
    BY <1>0 DEF Store
  <2>3. /\ Subs!Leaves(stores[status], {c}) \in Store
        /\ Good(status, Subs!Leaves(stores[status], {c}), job)
    BY <1>0, <2>2, LeavesWell DEF SubsInv
  <2> QED
    BY <1>0, <1>3, <2>1, <2>3, StoreChanges DEF Subs!Unsubscribe
<1>4. CASE Subs!StatusChanges
  <2>1. PICK s \in Subs!Statuses, who \in {stores[status].listeners} :
          /\ s # status /\ status' = s
          /\ stores' = [stores EXCEPT ![status] = IF who = {} THEN @ ELSE Subs!Leaves(@, who),
                                      ![s] = IF who = {} THEN @ ELSE Subs!Joins(@, s, who)]
          /\ UNCHANGED <<job, lsf>>
    BY <1>4 DEF Subs!StatusChanges
  <2>2. who \in SUBSET Listeners
    BY <1>0 DEF Store
  <2> DEFINE left == IF who = {} THEN stores[status] ELSE Subs!Leaves(stores[status], who)
             joined == IF who = {} THEN stores[s] ELSE Subs!Joins(stores[s], s, who)
  <2>3. left \in Store /\ Good(status, left, job)
    BY <1>0, <2>2, LeavesWell DEF SubsInv
  <2>4. joined \in Store /\ Good(s, joined, job)
    BY <1>0, <2>2, JoinsWell DEF SubsInv
  <2>5. stores' = [stores EXCEPT ![status] = left, ![s] = joined]
    BY <2>1
  <2> HIDE DEF left, joined
  <2>6. /\ stores' \in [Subs!Statuses -> Store]
        /\ \A o \in Subs!Statuses : stores'[o] = IF o = s THEN joined ELSE IF o = status THEN left ELSE stores[o]
    BY <1>0, <2>1, <2>3, <2>4, <2>5
  <2>7. \A o \in Subs!Statuses : Good(o, stores'[o], job')
    BY <2>1, <2>3, <2>4, <2>6 DEF SubsInv
  <2> QED
    BY <2>1, <2>6, <2>7 DEF SubsInv
<1>5. ASSUME UNCHANGED <<lsf, status, stores>>, job' \in Job,
             job.code # -1 => job'.code = job.code, job.report # "none" => job'.report = job.report /\ job'.code = job.code,
             job'.report = "successful" => job'.code = 0, job'.report = "exited" => job'.code # 0
      PROVE  SubsInv'
  <2>1. ASSUME NEW s \in Subs!Statuses PROVE Good(s, stores[s], job')
    <3>1. Good(s, stores[s], job)
      BY DEF SubsInv
    <3> QED
      BY <1>5, <3>1 DEF Good, Knows, Tells
  <2> QED
    BY <1>5, <2>1 DEF SubsInv
<1>6. CASE Subs!JobLogs \/ Subs!JobExits \/ Subs!LsfReports
  <2>1. job \in [log : BOOLEAN, code : {-1, 0, 1}, report : {"none", "successful", "exited"}]
    BY DEF SubsInv, Job, Subs!Codes, Subs!Reports
  <2>2. CASE Subs!JobLogs
    BY <1>5, <2>1, <2>2 DEF Subs!JobLogs, SubsInv, Job, Subs!Codes, Subs!Reports
  <2>3. CASE Subs!JobExits
    BY <1>5, <2>1, <2>3 DEF Subs!JobExits, SubsInv, Job, Subs!Codes, Subs!Reports
  <2>4. CASE Subs!LsfReports
    BY <1>5, <2>1, <2>4 DEF Subs!LsfReports, SubsInv, Job, Subs!Codes, Subs!Reports
  <2> QED
    BY <1>6, <2>2, <2>3, <2>4
<1>7. CASE Subs!ReadLog
  <2>1. PICK s \in Subs!Statuses : stores' = [stores EXCEPT ![s] = WithLog(stores[s], {<<job.log, job.code>>})]
    BY <1>7 DEF Subs!ReadLog, WithLog
  <2> DEFINE x == stores[s]
             y == StoreOf(x.state, x.listeners, x.polling, x.timer, {<<job.log, job.code>>}, x.report)
  <2>2. x \in Store /\ Good(s, x, job)
    BY DEF SubsInv
  <2>3. WithLog(x, {<<job.log, job.code>>}) = y
    BY <2>2, StoreReplaced
  <2>4. y \in Store
    BY <2>2 DEF Store, StoreOf, SubsInv, Job
  <2>5. /\ y.state = x.state /\ y.listeners = x.listeners /\ y.polling = x.polling
        /\ y.log = {<<job.log, job.code>>} /\ y.report = x.report
    BY DEF StoreOf
  <2> HIDE DEF x, y
  <2>6. Good(s, y, job)
    BY <2>2, <2>5 DEF Good, Knows, Polls, Tells
  <2>7. stores' = [stores EXCEPT ![s] = y]
    BY <2>1, <2>3 DEF x
  <2> QED
    BY <1>0, <1>7, <2>4, <2>6, <2>7, StoreChanges DEF Subs!ReadLog
<1>8. CASE Subs!ReadReport
  <2> DEFINE read == IF lsf THEN job.report ELSE "none"
  <2>1. PICK s \in Subs!Statuses : stores' = [stores EXCEPT ![s] = WithReport(stores[s], {read})]
    BY <1>8 DEF Subs!ReadReport, WithReport
  <2> DEFINE x == stores[s]
             y == StoreOf(x.state, x.listeners, x.polling, x.timer, x.log, {read})
  <2>2. x \in Store /\ Good(s, x, job)
    BY DEF SubsInv
  <2>3. WithReport(x, {read}) = y
    BY <2>2, StoreReplaced
  <2>4. y \in Store
    BY <2>2 DEF Store, StoreOf, SubsInv, Job, Subs!Reports
  <2>5. /\ y.state = x.state /\ y.listeners = x.listeners /\ y.polling = x.polling
        /\ y.log = x.log /\ y.report = {read}
    BY DEF StoreOf
  <2> HIDE DEF x, y
  <2>6. Good(s, y, job)
    BY <2>2, <2>5 DEF Good, Knows, Polls, Tells
  <2>7. stores' = [stores EXCEPT ![s] = y]
    BY <2>1, <2>3 DEF x
  <2> QED
    BY <1>0, <1>8, <2>4, <2>6, <2>7, StoreChanges DEF Subs!ReadReport
<1>9. CASE Subs!Checked
  <2>1. PICK s \in Subs!Statuses : Subs!Asking(s) /\ \E l \in stores[s].log, r \in stores[s].report :
          LET state == Subs!SubmissionState(s, r, l) IN
          stores' = [stores EXCEPT ![s] = Told(@, state, ~Subs!IsFinal(state), ~Subs!IsFinal(state), {}, {})]
    BY <1>9 DEF Subs!Checked, Told, Subs!Unread
  <2>2. PICK l \in stores[s].log, r \in stores[s].report :
          LET state == Subs!SubmissionState(s, r, l) IN
          stores' = [stores EXCEPT ![s] = Told(@, state, ~Subs!IsFinal(state), ~Subs!IsFinal(state), {}, {})]
    BY <2>1
  <2> DEFINE x == stores[s]
             state == Subs!SubmissionState(s, r, l)
             go == ~Subs!IsFinal(state)
             y == StoreOf(state, x.listeners, go, go, {}, {})
  <2>3. x \in Store /\ Good(s, x, job)
    BY DEF SubsInv
  <2>4. /\ l \in BOOLEAN \X Subs!Codes /\ r \in Subs!Reports
        /\ l[2] # -1 => job.code = l[2]
        /\ r # "none" => job.report = r
    BY <2>3 DEF Store, Good, Knows
  <2>5. s \notin {"done", "failed"} /\ x.listeners # {}
    BY <2>1, <2>3 DEF Subs!Asking, Good, Polls, Tells, Subs!IsFinal
  <2>6. /\ state \in Subs!States
        /\ state = "done" => job.code = 0
        /\ state = "failed" => job.code = 1 \/ (job.report = "exited" /\ job.code # 0)
    BY <2>4, <2>5 DEF Subs!SubmissionState, Subs!States, Subs!Codes, Subs!Reports, SubsInv
  <2> HIDE DEF state
  <2>7. Told(x, state, go, go, {}, {}) = y
    <3> HIDE DEF x, go
    <3> QED
      BY <2>3, ToldIs, Zenon
  <2>8. y \in Store
    BY <2>3, <2>6 DEF Store, StoreOf, Subs!IsFinal
  <2>9. y.state = state /\ y.listeners = x.listeners /\ y.polling = go /\ y.log = {} /\ y.report = {}
    BY DEF StoreOf
  <2>10. stores' = [stores EXCEPT ![s] = y]
    BY <2>2, <2>7 DEF state
  <2> HIDE DEF x, y
  <2>11. Good(s, y, job)
    BY <2>5, <2>6, <2>9 DEF Good, Knows, Polls, Tells
  <2> QED
    BY <1>0, <1>9, <2>8, <2>10, <2>11, StoreChanges DEF Subs!Checked
<1>10. CASE Subs!CheckFails
  <2>1. PICK s \in Subs!Statuses : stores' = [stores EXCEPT ![s] = Aborted(stores[s], TRUE, {}, {})]
    BY <1>10 DEF Subs!CheckFails, Aborted, Subs!Unread
  <2> DEFINE x == stores[s]
             y == StoreOf(x.state, x.listeners, x.polling, TRUE, {}, {})
  <2>2. x \in Store /\ Good(s, x, job)
    BY DEF SubsInv
  <2>3. Aborted(x, TRUE, {}, {}) = y
    BY <2>2, AbortedIs, Zenon
  <2>4. y \in Store
    BY <2>2 DEF Store, StoreOf
  <2>5. y.state = x.state /\ y.listeners = x.listeners /\ y.polling = x.polling /\ y.log = {} /\ y.report = {}
    BY DEF StoreOf
  <2> HIDE DEF x, y
  <2>6. Good(s, y, job)
    BY <2>2, <2>5 DEF Good, Knows, Polls, Tells
  <2>7. stores' = [stores EXCEPT ![s] = y]
    BY <2>1, <2>3 DEF x
  <2> QED
    BY <1>0, <1>10, <2>4, <2>6, <2>7, StoreChanges DEF Subs!CheckFails
<1>11. CASE Subs!CheckAgain
  <2>1. PICK s \in Subs!Statuses : stores' = [stores EXCEPT ![s] = WithTimer(stores[s], FALSE)]
    BY <1>11 DEF Subs!CheckAgain, WithTimer
  <2> DEFINE x == stores[s]
             y == StoreOf(x.state, x.listeners, x.polling, FALSE, x.log, x.report)
  <2>2. x \in Store /\ Good(s, x, job)
    BY DEF SubsInv
  <2>3. WithTimer(x, FALSE) = y
    BY <2>2, StoreReplaced
  <2>4. y \in Store
    BY <2>2 DEF Store, StoreOf
  <2>5. y.state = x.state /\ y.listeners = x.listeners /\ y.polling = x.polling /\ y.log = x.log /\ y.report = x.report
    BY DEF StoreOf
  <2> HIDE DEF x, y
  <2>6. Good(s, y, job)
    BY <2>2, <2>5 DEF Good, Knows, Polls, Tells
  <2>7. stores' = [stores EXCEPT ![s] = y]
    BY <2>1, <2>3 DEF x
  <2> QED
    BY <1>0, <1>11, <2>4, <2>6, <2>7, StoreChanges DEF Subs!CheckAgain
<1> QED
  BY <1>1, <1>2, <1>3, <1>4, <1>6, <1>7, <1>8, <1>9, <1>10, <1>11 DEF Subs!Next

(* A store polls exactly while somebody looks and its submission is not    *)
(* over, whoever comes and goes during a check, and whatever fails.        *)
THEOREM WatchedIsPolled == AppSpec => []PollsWhileWatched
<1>1. AppInit => SubsInv
  BY SubsStart DEF AppInit
<1>2. SubsInv /\ [AppNext]_app => SubsInv'
  BY SubsNext, StepsOfParts
<1>3. SubsInv => PollsWhileWatched
  BY DEF SubsInv, PollsWhileWatched, Subs!PollsWhileWatched, Good, Polls
<1> QED
  BY <1>1, <1>2, <1>3, PTL DEF AppSpec

(* A submission that is shown as done, or failed, is: a check reads its    *)
(* two files at two moments, but neither takes back what it said.          *)
THEOREM OverIsTrue == AppSpec => []FinalIsTrue
<1>1. AppInit => SubsInv
  BY SubsStart DEF AppInit
<1>2. SubsInv /\ [AppNext]_app => SubsInv'
  BY SubsNext, StepsOfParts
<1>3. SubsInv => FinalIsTrue
  BY DEF SubsInv, FinalIsTrue, Subs!FinalIsTrue, Good, Tells, Subs!Statuses
<1> QED
  BY <1>1, <1>2, <1>3, PTL DEF AppSpec

LEMMA SubmissionShapes == AppSpec => []Subs!TypeOK
<1> DEFINE Inv == SubsInv /\ failures \in 0..MaxCheckFailures
<1>0. MaxCheckFailures \in Nat
  BY AppAssumption DEF Subs!SubmissionsAssumption
<1>1. AppInit => Inv
  BY <1>0, SubsStart DEF AppInit, Subs!Init
<1>2. Inv /\ [AppNext]_app => Inv'
  <2> SUFFICES ASSUME Inv, [AppNext]_app PROVE Inv'
    OBVIOUS
  <2>1. SubsInv'
    BY SubsNext, StepsOfParts
  <2>2. UNCHANGED failures \/ (failures < MaxCheckFailures /\ failures' = failures + 1)
    BY StepsOfParts DEF subs, Subs!Next, Subs!Subscribe, Subs!Unsubscribe, Subs!StatusChanges, Subs!JobLogs, Subs!JobExits,
       Subs!LsfReports, Subs!ReadLog, Subs!ReadReport, Subs!Checked, Subs!CheckFails, Subs!CheckAgain
  <2>3. failures' \in 0..MaxCheckFailures
    BY <1>0, <2>2
  <2> QED
    BY <2>1, <2>3
<1>3. Inv => Subs!TypeOK
  BY DEF SubsInv, Store, Job, Subs!TypeOK
<1> QED
  BY <1>1, <1>2, <1>3, PTL DEF AppSpec

-----------------------------------------------------------------------------
(***************************************************************************)
(* useLogTail: bytes one after the other, up to an end.                    *)
(***************************************************************************)
Incs == 1..MaxFiles
Ends == 0..MaxLength
Text == Seq(Incs \X Ends)
Consecutive(text, end) ==
    /\ \A i \in 2..Len(text) : text[i][2] = text[i - 1][2] + 1
    /\ text # <<>> => text[Len(text)][2] = end - 1

LEMMA Positions ==
    /\ Incs \subseteq Nat /\ 1 \in Incs
    /\ Ends \subseteq Nat /\ 0 \in Ends
    /\ \A p \in Nat, q \in Ends : p <= q => p \in Ends
BY AppAssumption DEF Logs!LogAssumption, Incs, Ends

LEMMA TextPairs ==
    ASSUME NEW text \in Text, NEW i \in 1..Len(text)
    PROVE  text[i][1] \in Nat /\ text[i][2] \in Nat
<1>1. text[i] \in Incs \X Ends
  BY DEF Text
<1> QED
  BY <1>1, Positions

LEMMA BytesAreConsecutive ==
    ASSUME NEW inc \in Incs, NEW from \in Ends, NEW to \in Ends, from <= to
    PROVE  /\ Logs!Bytes(inc, from, to) \in Text
           /\ Len(Logs!Bytes(inc, from, to)) = to - from
           /\ \A i \in 1..(to - from) : Logs!Bytes(inc, from, to)[i] = <<inc, from + i - 1>>
           /\ Consecutive(Logs!Bytes(inc, from, to), to)
<1> DEFINE n == to - from
           b == [i \in 1..n |-> <<inc, from + i - 1>>]
<1>1. from \in Nat /\ to \in Nat /\ n \in Nat
  BY Positions
<1>2. b \in [1..n -> Incs \X Ends]
  <2> SUFFICES ASSUME NEW i \in 1..n PROVE from + i - 1 \in Ends
    OBVIOUS
  <2>1. from + i - 1 \in Nat /\ from + i - 1 <= to
    BY <1>1
  <2> QED
    BY <2>1, Positions
<1>3. b \in Text
  BY <1>1, <1>2 DEF Text
<1>4. Len(b) = n
  BY <1>1, <1>2
<1>5. \A i \in 1..n : b[i] = <<inc, from + i - 1>>
  OBVIOUS
<1>6. Logs!Bytes(inc, from, to) = b
  BY DEF Logs!Bytes
<1>7. Consecutive(b, to)
  <2> HIDE DEF b
  <2>1. \A i \in 1..n : b[i][2] = from + i - 1
    BY <1>5
  <2>2. b # <<>> => n > 0
    BY <1>1, <1>3, <1>4 DEF Text
  <2> QED
    <3>1. ASSUME NEW i \in 2..n PROVE b[i][2] = b[i - 1][2] + 1
      <4>1. i \in 1..n /\ i - 1 \in 1..n /\ from + i - 1 = from + (i - 1) - 1 + 1
        BY <1>1
      <4>2. b[i][2] = from + i - 1 /\ b[i - 1][2] = from + (i - 1) - 1
        BY <2>1, <4>1
      <4> QED
        BY <4>1, <4>2
    <3>2. n > 0 => b[n][2] = to - 1
      <4>1. n > 0 => n \in 1..n /\ from + n - 1 = to - 1
        BY <1>1
      <4> QED
        BY <2>1, <4>1
    <3> QED
      BY <1>4, <2>2, <3>1, <3>2 DEF Consecutive
<1> QED
  BY <1>3, <1>4, <1>5, <1>6, <1>7

LEMMA Joined ==
    ASSUME NEW text \in Text, NEW b \in Text
    PROVE  /\ text \o b \in Text /\ Len(text \o b) = Len(text) + Len(b)
           /\ Len(text) \in Nat /\ Len(b) \in Nat
           /\ \A i \in 1..Len(text) : (text \o b)[i] = text[i]
           /\ \A i \in 1..Len(b) : (text \o b)[Len(text) + i] = b[i]
<1> DEFINE S == Incs \X Ends
<1>1. text \in Seq(S) /\ b \in Seq(S)
  BY DEF Text
<1> HIDE DEF S
<1>2. Len(text) \in Nat /\ Len(b) \in Nat
  BY <1>1
<1>3. /\ text \o b \in Seq(S) /\ Len(text \o b) = Len(text) + Len(b)
      /\ \A i \in 1..(Len(text) + Len(b)) :
            (text \o b)[i] = IF i <= Len(text) THEN text[i] ELSE b[i - Len(text)]
  BY <1>1, ConcatProperties
<1>4. \A i \in 1..Len(text) : (text \o b)[i] = text[i]
  BY <1>2, <1>3
<1>5. ASSUME NEW i \in 1..Len(b) PROVE (text \o b)[Len(text) + i] = b[i]
  <2>1. Len(text) + i \in 1..(Len(text) + Len(b)) /\ ~(Len(text) + i <= Len(text))
        /\ Len(text) + i - Len(text) = i
    BY <1>2
  <2> QED
    BY <1>3, <2>1
<1> QED
  BY <1>2, <1>3, <1>4, <1>5 DEF Text, S

LEMMA AppendedAreConsecutive ==
    ASSUME NEW text \in Text, NEW end \in Ends, Consecutive(text, end),
           NEW inc \in Incs, NEW to \in Ends, end < to
    PROVE  /\ text \o Logs!Bytes(inc, end, to) \in Text
           /\ Consecutive(text \o Logs!Bytes(inc, end, to), to)
<1> DEFINE b == Logs!Bytes(inc, end, to)
           n == to - end
<1>00. end \in Nat /\ to \in Nat
  BY Positions
<1>1. b \in Text /\ Len(b) = n /\ (\A i \in 1..n : b[i] = <<inc, end + i - 1>>)
  <2>1. end <= to
    BY <1>00
  <2> HIDE DEF n
  <2>2. n = to - end
    BY DEF n
  <2> QED
    BY <2>1, <2>2, BytesAreConsecutive, Zenon
<1> HIDE DEF b
<1>0. n \in Nat /\ n > 0 /\ n = to - end /\ end \in Nat /\ to \in Nat
  BY <1>00
<1> HIDE DEF n
<1>2. /\ text \o b \in Text /\ Len(text \o b) = Len(text) + n /\ Len(text) \in Nat
      /\ \A i \in 1..Len(text) : (text \o b)[i] = text[i]
      /\ \A i \in 1..n : (text \o b)[Len(text) + i] = b[i]
  BY <1>1, Joined
<1>3. \A i \in 1..n : (text \o b)[Len(text) + i][2] = end + i - 1
  <2> SUFFICES ASSUME NEW i \in 1..n PROVE (text \o b)[Len(text) + i][2] = end + i - 1
    OBVIOUS
  <2>1. (text \o b)[Len(text) + i] = <<inc, end + i - 1>>
    BY <1>1, <1>2
  <2> QED
    BY <2>1
<1>4. Len(text) > 0 => text[Len(text)][2] = end - 1
  BY DEF Consecutive
<1>5. ASSUME NEW i \in 2..(Len(text) + n) PROVE (text \o b)[i][2] = (text \o b)[i - 1][2] + 1
  <2>1. CASE i <= Len(text)
    BY <1>2, <2>1 DEF Consecutive
  <2>2. CASE i = Len(text) + 1
    <3>1. Len(text) \in 1..Len(text) /\ i - 1 = Len(text) /\ 1 \in 1..n
      BY <1>0, <1>2, <2>2
    <3>2. (text \o b)[i - 1][2] = end - 1
      BY <1>2, <1>4, <3>1
    <3>3. (text \o b)[i][2] = end
      <4>1. (text \o b)[Len(text) + 1][2] = end + 1 - 1
        BY <1>3, <3>1
      <4> QED
        BY <1>0, <2>2, <4>1
    <3> QED
      BY <1>0, <3>2, <3>3
  <2>3. CASE i > Len(text) + 1
    <3>1. /\ i - Len(text) \in 1..n /\ i - 1 - Len(text) \in 1..n
          /\ i = Len(text) + (i - Len(text)) /\ i - 1 = Len(text) + (i - 1 - Len(text))
      BY <1>0, <1>2, <2>3
    <3>2. (text \o b)[Len(text) + (i - Len(text))][2] = end + (i - Len(text)) - 1
      BY <1>3, <3>1
    <3>3. (text \o b)[Len(text) + (i - 1 - Len(text))][2] = end + (i - 1 - Len(text)) - 1
      BY <1>3, <3>1
    <3> QED
      BY <1>0, <1>2, <3>1, <3>2, <3>3
  <2> QED
    BY <1>0, <1>2, <2>1, <2>2, <2>3
<1>6. n \in 1..n /\ (text \o b)[Len(text) + n][2] = to - 1
  <2>1. n \in 1..n /\ end + n - 1 = to - 1
    BY <1>0
  <2> QED
    BY <1>3, <2>1
<1> QED
  BY <1>0, <1>2, <1>5, <1>6 DEF Consecutive, b

LEMMA BeforeIsWellFounded == IsWellFoundedOn(OpToRel(<, Nat), Nat)
BY NatLessThanWellFounded

LEMMA FirstOfPositions ==
    ASSUME NEW S, S \subseteq Nat, S # {}
    PROVE  /\ (CHOOSE p \in S : \A q \in S : p <= q) \in S
<1>1. PICK n \in S : \A m \in S : ~(<<m, n>> \in OpToRel(<, Nat))
  BY BeforeIsWellFounded, WFMin
<1>2. \A m \in S : n <= m
  <2> TAKE m \in S
  <2>1. <<m, n>> \in Nat \X Nat /\ <<m, n>>[1] = m /\ <<m, n>>[2] = n
    OBVIOUS
  <2>2. ~(m < n)
    BY <1>1, <2>1 DEF OpToRel
  <2> QED
    BY <2>2
<1> QED
  BY <1>2

TailFile == [inc : Incs, len : Ends, exists : BOOLEAN]
TailAnswer == [status : {200, 206, 416, 404}, inc : Incs, start : Ends, end : Ends, total : Ends]
TailLog == [status : {"idle", "loaded", "error"}, text : Text, start : Ends, end : Ends, fresh : BOOLEAN]
TailRead == [from : Ends, got : SUBSET TailAnswer]

TailTypes ==
    /\ file \in TailFile
    /\ log \in TailLog
    /\ cursor \in Ends
    /\ first \subseteq TailAnswer

(* A read of what was added starts where what is shown ends.               *)
Adds(r) ==
    /\ r \in TailRead
    /\ r.from = cursor
    /\ \A a \in r.got : a.status = 206 => a.start = r.from /\ a.start < a.end

TailInv ==
    /\ TailTypes
    /\ Consecutive(log.text, log.end)
    /\ Logs!IsLoaded(log) => cursor = log.end
    /\ first # {} => ~log.fresh
    /\ poll # "off" => Logs!IsLoaded(log)
    /\ more # <<>> => Logs!IsLoaded(log) /\ \E r : more = <<r>> /\ Adds(r)

LEMMA AnswersAreTyped ==
    ASSUME TailTypes, NEW code \in {200, 206, 416, 404}, NEW start \in Ends, NEW end \in Ends
    PROVE  /\ Logs!Answer(code, start, end) \in TailAnswer
           /\ Logs!Answer(code, start, end).status = code
           /\ Logs!Answer(code, start, end).start = start
           /\ Logs!Answer(code, start, end).end = end
           /\ Logs!Answer(code, start, end).inc = file.inc
BY DEF TailTypes, TailFile, Logs!Answer, TailAnswer

LEMMA RemoveTheOnlyOne == ASSUME NEW r PROVE Logs!RemoveAt(<<r>>, 1) = <<>>
BY DEF Logs!RemoveAt

LEMMA FirstTextIsConsecutive ==
    ASSUME AppAssumption, NEW a \in TailAnswer
    PROVE  Logs!FirstText(a) \in Text /\ Consecutive(Logs!FirstText(a), a.end)
<1> DEFINE ends == {p \in Newlines : a.start <= p /\ p < a.end}
           p == CHOOSE p \in ends : \A q \in ends : p <= q
<1>0. a.inc \in Incs /\ a.start \in Ends /\ a.end \in Ends /\ a.start \in Nat /\ a.end \in Nat
  <2>1. a.inc \in Incs /\ a.start \in Ends /\ a.end \in Ends
    BY DEF TailAnswer
  <2> QED
    BY <2>1, Positions
<1>1. CASE a.start = 0
  <2>1. 0 \in Ends /\ 0 <= a.end
    BY <1>0, Positions
  <2>2. Logs!Bytes(a.inc, 0, a.end) \in Text /\ Consecutive(Logs!Bytes(a.inc, 0, a.end), a.end)
    BY <1>0, <2>1, BytesAreConsecutive, Zenon
  <2>3. Logs!FirstText(a) = Logs!Bytes(a.inc, 0, a.end)
    BY <1>1 DEF Logs!FirstText
  <2> QED
    BY <2>2, <2>3, Zenon
<1>2. CASE a.start # 0 /\ ends = {}
  <2>1. Logs!FirstText(a) = <<>>
    BY <1>2 DEF Logs!FirstText
  <2> QED
    BY <2>1 DEF Text, Consecutive
<1>3. CASE a.start # 0 /\ ends # {}
  <2>1. ends \subseteq Nat
    BY DEF AppAssumption, Logs!LogAssumption
  <2>2. p \in ends
    <3> HIDE DEF ends
    <3> QED
      BY <1>3, <2>1, FirstOfPositions
  <2>3. 1 + p \in Ends /\ 1 + p <= a.end
    <3>1. p \in Nat /\ p < a.end
      <4> HIDE DEF p
      <4> QED
        BY <2>1, <2>2
    <3> HIDE DEF p
    <3>2. 1 + p \in Nat /\ 1 + p <= a.end
      BY <1>0, <3>1
    <3> QED
      BY <1>0, <3>2, Positions
  <2>4. Logs!FirstText(a) = Logs!Bytes(a.inc, 1 + p, a.end)
    BY <1>3 DEF Logs!FirstText
  <2> HIDE DEF p
  <2>5. Logs!Bytes(a.inc, 1 + p, a.end) \in Text /\ Consecutive(Logs!Bytes(a.inc, 1 + p, a.end), a.end)
    BY <1>0, <2>3, BytesAreConsecutive, Zenon
  <2> QED
    BY <2>4, <2>5, Zenon
<1> QED
  BY <1>1, <1>2, <1>3

LEMMA TailStart == Logs!Init => TailInv
<1> SUFFICES ASSUME Logs!Init PROVE TailInv
  OBVIOUS
<1>1. TailTypes
  BY Positions DEF Logs!Init, TailTypes, TailFile, TailLog, Logs!Empty, Text
<1>2. log.text = <<>> /\ ~log.fresh
  BY DEF Logs!Init, Logs!Empty
<1>3. Consecutive(log.text, log.end)
  BY <1>2 DEF Consecutive
<1> QED
  BY <1>1, <1>2, <1>3 DEF Logs!Init, TailInv, Logs!IsLoaded

(* Another question aborts everything under way.                           *)
LEMMA TailAsksAgain ==
    ASSUME TailInv, NEW whole, Logs!AskAgain(whole), UNCHANGED file
    PROVE  TailInv'
<1>1. ASSUME NEW l \in TailLog, NEW m, m = [l EXCEPT !.fresh = FALSE]
      PROVE  m \in TailLog /\ m.text = l.text /\ m.end = l.end /\ ~m.fresh
  BY <1>1 DEF TailLog
<1>2. log' \in TailLog /\ log'.text = log.text /\ log'.end = log.end /\ ~log'.fresh
  BY <1>1 DEF Logs!AskAgain, TailInv, TailTypes
<1>3. TailTypes'
  BY <1>2, Positions DEF Logs!AskAgain, TailInv, TailTypes
<1>4. Consecutive(log.text, log.end)'
  BY <1>2 DEF TailInv
<1> QED
  BY <1>2, <1>3, <1>4 DEF Logs!AskAgain, TailInv, Logs!IsLoaded

LEMMA ReadsMore ==
    ASSUME TailInv, Logs!ReadMore, Logs!IsLoaded(log), UNCHANGED <<cursor, log>>
    PROVE  (more # <<>> => Logs!IsLoaded(log) /\ \E r : more = <<r>> /\ Adds(r))'
<1>1. CASE more = <<>>
  <2>0. PICK r : r = [from |-> cursor, got |-> {}]
    OBVIOUS
  <2>1. r \in TailRead /\ r.from = cursor /\ r.got = {}
    BY <2>0 DEF TailInv, TailTypes, TailRead
  <2>2. more' = <<r>>
    BY <1>1, <2>0 DEF Logs!ReadMore
  <2>3. Adds(r)'
    BY <2>1 DEF Adds
  <2> QED
    BY <2>2, <2>3
<1>2. CASE more # <<>>
  <2>1. PICK r : more = <<r>> /\ Adds(r)
    BY <1>2 DEF TailInv
  <2>2. more' = <<r>>
    BY <1>2, <2>1 DEF Logs!ReadMore
  <2>3. Adds(r)'
    BY <2>1 DEF Adds
  <2> QED
    BY <2>2, <2>3
<1> QED
  BY <1>1, <1>2

(* What is left when a read is over.                                       *)
LEMMA ReadIsOver ==
    ASSUME TailInv, NEW i \in DOMAIN more, Logs!Done(i)
    PROVE  more' = <<>> /\ (poll' # "off" => Logs!IsLoaded(log))
<1>1. PICK r : more = <<r>>
  BY DEF TailInv
<1>2. i = 1
  BY <1>1
<1> QED
  BY <1>1, <1>2, RemoveTheOnlyOne DEF Logs!Done, TailInv

(* An answer about what was added.                                         *)
LEMMA MoreIsServed ==
    ASSUME AppAssumption, TailInv, Logs!ServeMore
    PROVE  \E r, q : \E a \in {Logs!From(r.from), Logs!Whole, Logs!Missing} :
              /\ more = <<r>> /\ Adds(r)
              /\ a \in TailAnswer /\ a.inc = file.inc
              /\ (a.status = 206 => a.start = r.from /\ a.start < a.end /\ a.end = file.len)
              /\ q = [from |-> r.from, got |-> {a}] /\ more' = <<q>>
<1> USE DEF TailInv
<1>1. PICK r : more = <<r>> /\ Adds(r)
  BY DEF Logs!ServeMore
<1>2. PICK a \in {Logs!From(r.from), Logs!Whole, Logs!Missing} : more' = [more EXCEPT ![1].got = {a}]
  <2>1. PICK i \in DOMAIN more :
            \E a \in IF file.exists THEN {Logs!From(more[i].from), Logs!Whole} ELSE {Logs!Missing} :
              more' = [more EXCEPT ![i].got = {a}]
    BY Zenon DEF Logs!ServeMore
  <2>2. i = 1 /\ more[i] = r
    BY <1>1
  <2> QED
    BY <2>1, <2>2, Zenon
<1>3. /\ a \in TailAnswer /\ a.inc = file.inc
      /\ (a.status = 206 => a.start = r.from /\ a.start < a.end /\ a.end = file.len)
  <2>1. r.from \in Ends /\ file.len \in Ends /\ 0 \in Ends
    BY <1>1, Positions DEF TailTypes, TailFile, Adds, TailRead
  <2>2. CASE a = Logs!Whole \/ a = Logs!Missing
    BY <2>1, <2>2, AnswersAreTyped DEF Logs!Whole, Logs!Missing
  <2>3. CASE a = Logs!From(r.from) /\ r.from < file.len
    <3>1. a = Logs!Answer(206, r.from, file.len)
      BY <2>3 DEF Logs!From
    <3> QED
      BY <2>1, <2>3, <3>1, AnswersAreTyped
  <2>4. CASE a = Logs!From(r.from) /\ ~(r.from < file.len)
    <3>1. a = Logs!Answer(416, 0, 0)
      BY <2>4 DEF Logs!From
    <3> QED
      BY <2>1, <3>1, AnswersAreTyped
  <2> QED
    BY <1>2, <2>2, <2>3, <2>4
<1>4. PICK q : q = [from |-> r.from, got |-> {a}]
  OBVIOUS
<1>5. more' = <<q>>
  <2>1. ASSUME NEW g PROVE [<<r>> EXCEPT ![1].got = g] = <<[from |-> r.from, got |-> g]>>
    <3>1. [r EXCEPT !.got = g] = [from |-> r.from, got |-> g]
      BY <1>1 DEF Adds, TailRead
    <3>2. PICK v : v = [r EXCEPT !.got = g]
      OBVIOUS
    <3>3. [<<r>> EXCEPT ![1] = v] = <<v>>
      OBVIOUS
    <3>4. <<r>>[1] = r
      OBVIOUS
    <3>5. [<<r>> EXCEPT ![1].got = g] = [<<r>> EXCEPT ![1] = v]
      BY <3>2, <3>4
    <3> QED
      BY <3>1, <3>2, <3>3, <3>5, Zenon
  <2> QED
    BY <1>1, <1>2, <1>4, <2>1, Zenon
<1> QED
  BY <1>1, <1>2, <1>3, <1>4, <1>5

LEMMA MoreComes ==
    ASSUME TailInv, Logs!MoreArrives
    PROVE  \E r : \E a \in r.got :
              /\ more = <<r>> /\ Adds(r)
              /\ a.status \in {200, 206}
              /\ log' = [log EXCEPT
                           !.text = IF a.status = 206 THEN @ \o Logs!Bytes(a.inc, a.start, a.end)
                                    ELSE Logs!Bytes(a.inc, 0, a.end),
                           !.start = IF a.status = 206 THEN @ ELSE 0,
                           !.end = a.end]
              /\ cursor' = a.end
              /\ Logs!Done(1)
              /\ UNCHANGED <<file, first, outgrown>>
<1>1. PICK r : more = <<r>> /\ Adds(r)
  BY DEF Logs!MoreArrives, TailInv
<1>2. PICK a \in r.got :
          /\ a.status \in {200, 206}
          /\ log' = [log EXCEPT
                       !.text = IF a.status = 206 THEN @ \o Logs!Bytes(a.inc, a.start, a.end)
                                ELSE Logs!Bytes(a.inc, 0, a.end),
                       !.start = IF a.status = 206 THEN @ ELSE 0,
                       !.end = a.end]
          /\ cursor' = a.end
          /\ Logs!Done(1)
          /\ UNCHANGED <<file, first, outgrown>>
  <2>1. PICK i \in DOMAIN more : \E a \in more[i].got :
            /\ a.status \in {200, 206}
            /\ log' = [log EXCEPT
                         !.text = IF a.status = 206 THEN @ \o Logs!Bytes(a.inc, a.start, a.end)
                                  ELSE Logs!Bytes(a.inc, 0, a.end),
                         !.start = IF a.status = 206 THEN @ ELSE 0,
                         !.end = a.end]
            /\ cursor' = a.end
            /\ Logs!Done(i)
            /\ UNCHANGED <<file, first, outgrown>>
    BY Zenon DEF Logs!MoreArrives
  <2>2. i = 1 /\ more[i] = r
    BY <1>1
  <2> QED
    BY <2>1, <2>2, Zenon
<1> QED
  BY <1>1, <1>2, Zenon

LEMMA TailNext == AppAssumption /\ TailInv /\ [Logs!Next]_tail => TailInv'
<1> SUFFICES ASSUME AppAssumption, TailInv, [Logs!Next]_tail PROVE TailInv'
  OBVIOUS
<1> USE DEF TailInv
<1>1. CASE UNCHANGED tail
  BY <1>1 DEF tail, TailTypes, Consecutive, Logs!IsLoaded, Adds
(* The run writes, ends and is redone: only the file changes.              *)
<1>2. CASE Logs!Write \/ Logs!RunEnds \/ Logs!RunIsRedone
  <2>1. file' \in TailFile
    <3> DEFINE inc == file.inc
               len == file.len
    <3>1. file \in [inc : Incs, len : Ends, exists : BOOLEAN]
      BY DEF TailTypes, TailFile
    <3>2. inc \in Incs /\ len \in Ends /\ inc \in Nat /\ len \in Nat
      BY <3>1, Positions
    <3>3. /\ [file EXCEPT !.len = len + 1] = [inc |-> inc, len |-> len + 1, exists |-> file.exists]
          /\ [file EXCEPT !.exists = TRUE] = [inc |-> inc, len |-> len, exists |-> TRUE]
      <4>1. ASSUME NEW f \in [inc : Incs, len : Ends, exists : BOOLEAN], NEW n, NEW e
            PROVE  /\ [f EXCEPT !.len = n] = [inc |-> f.inc, len |-> n, exists |-> f.exists]
                   /\ [f EXCEPT !.exists = e] = [inc |-> f.inc, len |-> f.len, exists |-> e]
        OBVIOUS
      <4> QED
        BY <3>1, <4>1, Zenon
    <3>4. len < MaxLength => len + 1 \in Ends
      BY <3>2, AppAssumption DEF Logs!LogAssumption, Ends
    <3>5. inc < MaxFiles => inc + 1 \in Incs
      BY <3>2, AppAssumption DEF Logs!LogAssumption, Incs
    <3>6. file.exists \in BOOLEAN
      BY <3>1
    <3> HIDE DEF inc, len
    <3>7. CASE Logs!Write
      <4>1. \/ len < MaxLength /\ file' = [inc |-> inc, len |-> len + 1, exists |-> file.exists]
            \/ file' = [inc |-> inc, len |-> len, exists |-> TRUE]
        BY <3>3, <3>7 DEF Logs!Write, len
      <4> QED
        <5>1. ASSUME NEW i \in Incs, NEW n \in Ends, NEW e \in BOOLEAN
              PROVE  [inc |-> i, len |-> n, exists |-> e] \in TailFile
          BY DEF TailFile
        <5>2. TRUE \in BOOLEAN
          OBVIOUS
        <5> QED
          BY <3>2, <3>4, <3>6, <4>1, <5>1, <5>2, Zenon
    <3>8. CASE Logs!RunIsRedone
      BY <3>2, <3>5, <3>8, Positions DEF Logs!RunIsRedone, TailFile, inc
    <3>9. CASE Logs!RunEnds
      BY <3>1, <3>9 DEF Logs!RunEnds, TailFile
    <3> QED
      BY <1>2, <3>7, <3>8, <3>9
  <2>2. UNCHANGED <<log, cursor, first, more, poll>>
    BY <1>2 DEF Logs!Write, Logs!RunEnds, Logs!RunIsRedone
  <2> QED
    BY <2>1, <2>2 DEF TailTypes, Consecutive, Logs!IsLoaded, Adds
<1>3. CASE Logs!LiveChanges
  <2>1. UNCHANGED <<file, log, cursor, first>>
    BY <1>3 DEF Logs!LiveChanges
  <2>2. (more # <<>> => Logs!IsLoaded(log) /\ \E r : more = <<r>> /\ Adds(r))'
    <3>1. CASE Logs!ReadMore /\ Logs!IsLoaded(log)
      BY <2>1, <3>1, ReadsMore
    <3>2. CASE UNCHANGED more
      BY <2>1, <3>2 DEF Adds
    <3> QED
      BY <1>3, <3>1, <3>2 DEF Logs!LiveChanges
  <2>3. poll' # "off" => Logs!IsLoaded(log)
    BY <1>3 DEF Logs!LiveChanges, Logs!Loop
  <2> QED
    BY <2>1, <2>2, <2>3 DEF TailTypes, Consecutive, Logs!IsLoaded
<1>4. CASE Logs!LoadAll \/ Logs!Retry
  BY <1>4, TailAsksAgain DEF Logs!LoadAll, Logs!Retry
<1>5. CASE Logs!ServeFirst
  <2>1. first' \subseteq TailAnswer
    <3>1. 0 \in Ends /\ file.len \in Ends /\ file.len \in Nat
      BY Positions DEF TailTypes, TailFile
    <3>2. Logs!Whole \in TailAnswer /\ Logs!Missing \in TailAnswer
      BY <3>1, AnswersAreTyped DEF Logs!Whole, Logs!Missing
    <3>3. Logs!FromEnd(InitialBytes) \in TailAnswer
      <4> DEFINE start == IF file.len > InitialBytes THEN file.len - InitialBytes ELSE 0
      <4>1. start \in Nat /\ start <= file.len
        BY <3>1 DEF AppAssumption, Logs!LogAssumption
      <4>2. start \in Ends
        BY <3>1, <4>1, Positions
      <4> HIDE DEF start
      <4> QED
        BY <3>1, <4>2, AnswersAreTyped DEF Logs!FromEnd, start
    <3> QED
      BY <1>5, <3>2, <3>3 DEF Logs!ServeFirst
  <2>2. UNCHANGED <<file, log, cursor, more, poll>> /\ ~log.fresh
    BY <1>5 DEF Logs!ServeFirst
  <2> QED
    BY <2>1, <2>2 DEF TailTypes, Consecutive, Logs!IsLoaded, Adds
<1>6. CASE Logs!FirstArrives
  <2>1. PICK a \in first :
            /\ log' = [status |-> "loaded", text |-> Logs!FirstText(a), start |-> a.start,
                       end |-> a.end, fresh |-> TRUE]
            /\ cursor' = a.end
            /\ first' = {}
            /\ UNCHANGED <<file, more>>
    BY <1>6, Zenon DEF Logs!FirstArrives
  <2>2. a \in TailAnswer /\ a.start \in Ends /\ a.end \in Ends
    BY DEF TailTypes, TailAnswer
  <2>3. Logs!FirstText(a) \in Text /\ Consecutive(Logs!FirstText(a), a.end)
    BY <2>2, FirstTextIsConsecutive
  <2>4. log' \in TailLog /\ log'.text = Logs!FirstText(a) /\ log'.end = a.end /\ Logs!IsLoaded(log')
    BY <2>1, <2>2, <2>3 DEF TailLog, Logs!IsLoaded
  <2>5. more' = <<>>
    BY <2>1 DEF Logs!IsLoaded
  <2> QED
    BY <2>1, <2>2, <2>3, <2>4, <2>5 DEF TailTypes
<1>7. CASE Logs!FirstFails
  <2>1. /\ ~log.fresh /\ first' = {} /\ UNCHANGED <<file, cursor, more, poll>>
        /\ log' = [Logs!Empty EXCEPT !.status = "error", !.fresh = TRUE]
    BY <1>7 DEF Logs!FirstFails
  <2>2. more = <<>> /\ poll = "off"
    BY <2>1 DEF Logs!IsLoaded
  <2>3. log' \in TailLog /\ log'.text = <<>> /\ log'.status = "error"
    <3>1. ASSUME NEW code, NEW b, NEW l, l = [Logs!Empty EXCEPT !.status = code, !.fresh = b]
          PROVE  l = [status |-> code, text |-> <<>>, start |-> 0, end |-> 0, fresh |-> b]
      BY <3>1 DEF Logs!Empty
    <3>3. log' = [status |-> "error", text |-> <<>>, start |-> 0, end |-> 0, fresh |-> TRUE]
      BY <2>1, <3>1, Zenon
    <3> QED
      BY <3>3, Positions DEF TailLog, Text
  <2>4. Consecutive(log.text, log.end)'
    BY <2>3 DEF Consecutive
  <2> QED
    BY <2>1, <2>2, <2>3, <2>4 DEF TailTypes, Logs!IsLoaded
<1>8. CASE Logs!Poll
  <2>1. Logs!IsLoaded(log) /\ Logs!ReadMore /\ UNCHANGED <<file, log, cursor, first>>
    BY <1>8 DEF Logs!Poll
  <2>2. (more # <<>> => Logs!IsLoaded(log) /\ \E r : more = <<r>> /\ Adds(r))'
    BY <2>1, ReadsMore
  <2> QED
    BY <2>1, <2>2 DEF TailTypes, Consecutive, Logs!IsLoaded
<1>9. CASE Logs!ServeMore
  <2>1. PICK r, q : \E a \in {Logs!From(r.from), Logs!Whole, Logs!Missing} :
            /\ more = <<r>> /\ Adds(r)
            /\ a \in TailAnswer /\ a.inc = file.inc
            /\ (a.status = 206 => a.start = r.from /\ a.start < a.end /\ a.end = file.len)
            /\ q = [from |-> r.from, got |-> {a}] /\ more' = <<q>>
    BY <1>9, MoreIsServed
  <2>6. UNCHANGED <<file, log, cursor, first, poll>>
    BY <1>9 DEF Logs!ServeMore
  <2>7. Adds(q)'
    BY <2>1, <2>6 DEF Adds, TailRead
  <2>8. Logs!IsLoaded(log)
    BY <2>1
  <2> QED
    BY <2>1, <2>6, <2>7, <2>8 DEF TailTypes, Consecutive, Logs!IsLoaded
<1>10. CASE Logs!MoreArrives
  <2>1. PICK r : \E a \in r.got :
            /\ more = <<r>> /\ Adds(r)
            /\ a.status \in {200, 206}
            /\ log' = [log EXCEPT
                         !.text = IF a.status = 206 THEN @ \o Logs!Bytes(a.inc, a.start, a.end)
                                  ELSE Logs!Bytes(a.inc, 0, a.end),
                         !.start = IF a.status = 206 THEN @ ELSE 0,
                         !.end = a.end]
            /\ cursor' = a.end
            /\ Logs!Done(1)
            /\ UNCHANGED <<file, first, outgrown>>
    BY <1>10, MoreComes, Zenon
  <2>2. PICK a \in r.got :
            /\ a.status \in {200, 206}
            /\ log' = [log EXCEPT
                         !.text = IF a.status = 206 THEN @ \o Logs!Bytes(a.inc, a.start, a.end)
                                  ELSE Logs!Bytes(a.inc, 0, a.end),
                         !.start = IF a.status = 206 THEN @ ELSE 0,
                         !.end = a.end]
            /\ cursor' = a.end
            /\ Logs!Done(1)
            /\ UNCHANGED <<file, first, outgrown>>
    BY <2>1, Zenon
  <2>3. /\ a \in TailAnswer /\ a.inc \in Incs /\ a.end \in Ends
        /\ (a.status = 206 => a.start = log.end /\ a.start < a.end)
    BY <2>1, <2>2 DEF Adds, TailRead, TailAnswer
  <2>4. more' = <<>> /\ (poll' # "off" => Logs!IsLoaded(log))
    <3>1. 1 \in DOMAIN more
      BY <2>1
    <3> QED
      BY <2>2, <3>1, ReadIsOver
  <2>5. log.text \in Text /\ log.end \in Ends /\ log.start \in Ends
    BY DEF TailTypes, TailLog
  <2>6. ASSUME NEW text \in Text, Consecutive(text, a.end), NEW start \in Ends,
               NEW l, l = [log EXCEPT !.text = text, !.start = start, !.end = a.end], log' = l
        PROVE  TailInv'
    <3>1. l = [status |-> log.status, text |-> text, start |-> start, end |-> a.end, fresh |-> log.fresh]
      BY <2>6 DEF TailTypes, TailLog
    <3>2. l \in TailLog /\ l.text = text /\ l.end = a.end /\ (Logs!IsLoaded(l) <=> Logs!IsLoaded(log))
      BY <2>3, <2>6, <3>1 DEF TailTypes, TailLog, Logs!IsLoaded
    <3>3. TailTypes'
      BY <2>2, <2>3, <2>6, <3>2 DEF TailTypes
    <3>4. Consecutive(log.text, log.end)'
      BY <2>6, <3>2
    <3> QED
      BY <2>1, <2>2, <2>4, <2>6, <3>2, <3>3, <3>4 DEF Logs!IsLoaded
  <2>7. CASE a.status = 206
    <3>1. PICK text : text = log.text \o Logs!Bytes(a.inc, a.start, a.end)
      OBVIOUS
    <3>2. text \in Text /\ Consecutive(text, a.end)
      BY <2>3, <2>5, <2>7, <3>1, AppendedAreConsecutive
    <3>3. log' = [log EXCEPT !.text = text, !.start = log.start, !.end = a.end]
      BY <2>2, <2>7, <3>1
    <3> QED
      BY <2>5, <2>6, <3>2, <3>3
  <2>8. CASE a.status # 206
    <3>1. PICK text : text = Logs!Bytes(a.inc, 0, a.end)
      OBVIOUS
    <3>2. text \in Text /\ Consecutive(text, a.end)
      <4>1. 0 \in Ends /\ 0 <= a.end
        <5>1. a.end \in Ends /\ a.end \in Nat /\ 0 \in Ends
          BY <2>3, Positions
        <5> QED
          BY <5>1
      <4> QED
        BY <2>3, <3>1, <4>1, BytesAreConsecutive, Zenon
    <3>3. log' = [log EXCEPT !.text = text, !.start = 0, !.end = a.end]
      BY <2>2, <2>8, <3>1
    <3> QED
      BY <2>6, <3>2, <3>3, Positions
  <2> QED
    BY <2>7, <2>8
<1>11. CASE Logs!NothingMore
  <2>1. PICK i \in DOMAIN more :
            /\ \/ Logs!AskAgain(all)
               \/ Logs!Done(i) /\ UNCHANGED <<log, cursor, first>>
            /\ UNCHANGED file
    BY <1>11 DEF Logs!NothingMore
  <2>2. CASE Logs!AskAgain(all)
    BY <2>1, <2>2, TailAsksAgain
  <2>3. CASE Logs!Done(i) /\ UNCHANGED <<log, cursor, first>>
    <3>1. more' = <<>> /\ (poll' # "off" => Logs!IsLoaded(log))
      BY <2>3, ReadIsOver
    <3> QED
      BY <2>1, <2>3, <3>1 DEF TailTypes, Consecutive, Logs!IsLoaded
  <2> QED
    BY <2>1, <2>2, <2>3
<1>12. CASE Logs!MoreFails
  <2>1. PICK i \in DOMAIN more : Logs!Done(i) /\ UNCHANGED <<file, log, cursor, first>>
    BY <1>12 DEF Logs!MoreFails
  <2>2. more' = <<>> /\ (poll' # "off" => Logs!IsLoaded(log))
    BY <2>1, ReadIsOver
  <2> QED
    BY <2>1, <2>2 DEF TailTypes, Consecutive, Logs!IsLoaded
<1> QED
  BY <1>1, <1>2, <1>3, <1>4, <1>5, <1>6, <1>7, <1>8, <1>9, <1>10, <1>11, <1>12 DEF Logs!Next, tail

(* Whose bytes they are: what is shown, and what is about to be, comes     *)
(* from the log as it is or as it was, the older first - and from one file *)
(* unless a redone log was longer than what had been read.                 *)
InOrder(text) == \A i \in 2..Len(text) : text[i - 1][1] <= text[i][1]
NoneAfter(text, inc) == \A i \in 1..Len(text) : text[i][1] <= inc
OnlyOf(text, inc) == \A i \in 1..Len(text) : text[i][1] = inc

AnswersTo(reads) == UNION {reads[i].got : i \in DOMAIN reads}
AddedAnswers == AnswersTo(more)

FilesInv ==
    /\ InOrder(log.text) /\ NoneAfter(log.text, file.inc)
    /\ \A a \in first \cup AddedAnswers : a.inc <= file.inc
    /\ \A a \in AddedAnswers : a.status = 206 => NoneAfter(log.text, a.inc)
    /\ outgrown \in BOOLEAN
    /\ ~outgrown =>
          /\ \E inc \in Incs : OnlyOf(log.text, inc)
          /\ \A a \in AddedAnswers : a.status = 206 => OnlyOf(log.text, a.inc)
          /\ \A e \in Logs!ReadEnds : e[1] # file.inc => file.len <= e[2]

LEMMA ReadEndsAre ==
    Logs!ReadEnds = (IF log.fresh /\ log.text # <<>> THEN {<<log.text[Len(log.text)][1], cursor>>} ELSE {})
                    \cup {<<a.inc, a.end>> : a \in {b \in first \cup AddedAnswers : b.end > 0}}
BY Zenon DEF Logs!ReadEnds, Logs!Last, AddedAnswers, AnswersTo

LEMMA BytesOfOne ==
    ASSUME NEW inc \in Incs, NEW from \in Ends, NEW to \in Ends, from <= to
    PROVE  /\ InOrder(Logs!Bytes(inc, from, to))
           /\ OnlyOf(Logs!Bytes(inc, from, to), inc) /\ NoneAfter(Logs!Bytes(inc, from, to), inc)
<1> DEFINE b == Logs!Bytes(inc, from, to)
<1>1. inc \in Nat /\ to - from \in Nat
  BY Positions
<1>2. Len(b) = to - from /\ \A i \in 1..(to - from) : b[i] = <<inc, from + i - 1>>
  BY BytesAreConsecutive, Zenon
<1> HIDE DEF b
<1>3. \A i \in 1..Len(b) : b[i][1] = inc
  BY <1>2
<1>4. \A i \in 2..Len(b) : i \in 1..Len(b) /\ i - 1 \in 1..Len(b)
  BY <1>1, <1>2
<1>5. InOrder(b)
  BY <1>1, <1>3, <1>4 DEF InOrder
<1> QED
  BY <1>1, <1>3, <1>5 DEF OnlyOf, NoneAfter, b

(* Bytes added of a file no older than the rest.                           *)
LEMMA JoinedInOrder ==
    ASSUME NEW text \in Text, NEW b \in Text, NEW inc \in Incs,
           InOrder(text), NoneAfter(text, inc), OnlyOf(b, inc)
    PROVE  /\ InOrder(text \o b) /\ NoneAfter(text \o b, inc)
           /\ OnlyOf(text, inc) => OnlyOf(text \o b, inc)
<1> DEFINE t == text \o b
           n == Len(text)
<1>1. inc \in Nat
  BY Positions
<1>2. /\ n \in Nat /\ Len(b) \in Nat /\ Len(t) = n + Len(b)
      /\ \A i \in 1..n : t[i] = text[i]
      /\ \A i \in 1..Len(b) : t[n + i] = b[i]
  BY Joined
<1> HIDE DEF t, n
<1>3. \A i \in 1..Len(t) : i \in 1..n \/ (i > n /\ t[i][1] = inc)
  <2> TAKE i \in 1..Len(t)
  <2> SUFFICES ASSUME i > n PROVE t[i][1] = inc
    BY <1>2
  <2>1. i - n \in 1..Len(b) /\ i = n + (i - n)
    BY <1>2
  <2>2. t[n + (i - n)] = b[i - n]
    BY <1>2, <2>1
  <2> QED
    BY <2>1, <2>2 DEF OnlyOf
<1>4. NoneAfter(t, inc)
  BY <1>1, <1>2, <1>3 DEF NoneAfter, n
<1>5. ASSUME NEW i \in 2..Len(t) PROVE t[i - 1][1] <= t[i][1]
  <2>1. i \in 1..Len(t) /\ i - 1 \in 1..Len(t)
    BY <1>2
  <2>2. CASE i \in 1..n
    <3>1. i \in 2..n /\ i - 1 \in 1..n
      BY <1>2, <2>2
    <3> QED
      BY <1>2, <2>2, <3>1 DEF InOrder, n
  <2>3. CASE t[i][1] = inc
    BY <1>4, <2>1, <2>3 DEF NoneAfter
  <2> QED
    BY <1>3, <2>1, <2>2, <2>3
<1>6. OnlyOf(text, inc) => OnlyOf(t, inc)
  BY <1>2, <1>3 DEF OnlyOf, n
<1> QED
  BY <1>4, <1>5, <1>6 DEF InOrder, t

LEMMA FirstTextIsOfOne ==
    ASSUME AppAssumption, NEW a \in TailAnswer
    PROVE  /\ InOrder(Logs!FirstText(a)) /\ OnlyOf(Logs!FirstText(a), a.inc)
           /\ NoneAfter(Logs!FirstText(a), a.inc)
<1> DEFINE ends == {p \in Newlines : a.start <= p /\ p < a.end}
           p == CHOOSE p \in ends : \A q \in ends : p <= q
<1>0. a.inc \in Incs /\ a.start \in Ends /\ a.end \in Ends /\ a.start \in Nat /\ a.end \in Nat
  <2>1. a.inc \in Incs /\ a.start \in Ends /\ a.end \in Ends
    BY DEF TailAnswer
  <2> QED
    BY <2>1, Positions
<1>1. Logs!FirstText(a) = <<>> \/ \E from \in Ends : from <= a.end /\ Logs!FirstText(a) = Logs!Bytes(a.inc, from, a.end)
  <2>1. CASE a.start = 0
    <3>1. 0 \in Ends /\ 0 <= a.end
      BY <1>0, Positions
    <3> QED
      BY <2>1, <3>1 DEF Logs!FirstText
  <2>2. CASE a.start # 0 /\ ends = {}
    BY <2>2 DEF Logs!FirstText
  <2>3. CASE a.start # 0 /\ ends # {}
    <3>1. ends \subseteq Nat
      BY DEF AppAssumption, Logs!LogAssumption
    <3>2. p \in ends
      <4> HIDE DEF ends
      <4> QED
        BY <2>3, <3>1, FirstOfPositions
    <3>3. p \in Nat /\ p < a.end
      <4> HIDE DEF p
      <4> QED
        BY <3>1, <3>2
    <3>4. Logs!FirstText(a) = Logs!Bytes(a.inc, 1 + p, a.end)
      BY <2>3 DEF Logs!FirstText
    <3> HIDE DEF p
    <3>5. 1 + p \in Nat /\ 1 + p <= a.end
      BY <1>0, <3>3
    <3>6. 1 + p \in Ends
      BY <1>0, <3>5, Positions
    <3> QED
      BY <3>4, <3>5, <3>6
  <2> QED
    BY <2>1, <2>2, <2>3
<1>2. CASE Logs!FirstText(a) = <<>>
  BY <1>2 DEF InOrder, OnlyOf, NoneAfter
<1> QED
  BY <1>0, <1>1, <1>2, BytesOfOne, Zenon

(* What is shown or under way only shrinks.                                *)
LEMMA NothingComes ==
    ASSUME FilesInv, UNCHANGED <<file, outgrown>>, log'.text \in {log.text, <<>>},
           log'.fresh => log'.text = <<>> \/ (log.fresh /\ cursor' = cursor),
           first' \subseteq first, AddedAnswers' \subseteq AddedAnswers
    PROVE  FilesInv'
<1>1. log'.text = log.text \/ log'.text = <<>>
  OBVIOUS
<1>2. \A inc : (NoneAfter(log.text, inc) => NoneAfter(log'.text, inc))
           /\ (OnlyOf(log.text, inc) => OnlyOf(log'.text, inc))
  BY <1>1 DEF NoneAfter, OnlyOf
<1>3. InOrder(log'.text)
  BY <1>1 DEF InOrder, FilesInv
<1>4. Logs!ReadEnds' \subseteq Logs!ReadEnds
  <2>1. Logs!ReadEnds' = (IF log'.fresh /\ log'.text # <<>> THEN {<<log'.text[Len(log'.text)][1], cursor'>>} ELSE {})
                    \cup {<<a.inc, a.end>> : a \in {b \in first' \cup AddedAnswers' : b.end > 0}}
    BY Zenon DEF Logs!ReadEnds, Logs!Last, AddedAnswers, AnswersTo
  <2> HIDE DEF AddedAnswers
  <2> QED
    BY <1>1, <2>1, ReadEndsAre
<1> QED
  BY <1>2, <1>3, <1>4 DEF FilesInv

LEMMA AnswersToOne ==
    /\ AnswersTo(<<>>) = {}
    /\ \A r : AnswersTo(<<r>>) = r.got
BY DEF AnswersTo

LEMMA AddedAnswersAre ==
    /\ more = <<>> => AddedAnswers = {}
    /\ \A r : more = <<r>> => AddedAnswers = r.got
BY AnswersToOne, Zenon DEF AddedAnswers

(* A read that is over, or one more.                                       *)
LEMMA FewerAnswers ==
    ASSUME TailInv, \/ UNCHANGED more
                    \/ Logs!ReadMore
                    \/ \E i \in DOMAIN more : Logs!Done(i)
                    \/ more' = <<>>
    PROVE  AddedAnswers' \subseteq AddedAnswers
<1>1. (more' = <<>> => AddedAnswers' = {}) /\ \A r : more' = <<r>> => AddedAnswers' = r.got
  BY AnswersToOne, Zenon DEF AddedAnswers
<1>2. CASE UNCHANGED more
  BY <1>2 DEF AddedAnswers
<1>3. CASE Logs!ReadMore /\ more = <<>>
  <2>1. PICK r : r = [from |-> cursor, got |-> {}]
    OBVIOUS
  <2>2. more' = <<r>> /\ r.got = {}
    BY <1>3, <2>1 DEF Logs!ReadMore
  <2> QED
    BY <1>1, <2>2
<1>4. CASE Logs!ReadMore /\ more # <<>>
  BY <1>2, <1>4 DEF Logs!ReadMore
<1>5. CASE \E i \in DOMAIN more : Logs!Done(i)
  BY <1>1, <1>5, ReadIsOver
<1> QED
  BY <1>1, <1>2, <1>3, <1>4, <1>5

LEMMA FilesStart == AppAssumption /\ Logs!Init => FilesInv
<1> SUFFICES ASSUME AppAssumption, Logs!Init PROVE FilesInv
  OBVIOUS
<1>1. log.text = <<>> /\ ~log.fresh /\ first = {} /\ more = <<>> /\ outgrown = FALSE
  BY DEF Logs!Init, Logs!Empty
<1>2. AddedAnswers = {}
  BY <1>1, AddedAnswersAre
<1>3. Logs!ReadEnds = {}
  BY <1>1, <1>2, ReadEndsAre
<1>4. InOrder(log.text) /\ \A inc : NoneAfter(log.text, inc) /\ OnlyOf(log.text, inc)
  BY <1>1 DEF InOrder, NoneAfter, OnlyOf
<1> QED
  BY <1>1, <1>2, <1>3, <1>4, Positions DEF FilesInv

LEMMA FilesNext == AppAssumption /\ TailInv /\ FilesInv /\ [Logs!Next]_tail => FilesInv'
<1> SUFFICES ASSUME AppAssumption, TailInv, FilesInv, [Logs!Next]_tail PROVE FilesInv'
  OBVIOUS
<1>0. /\ file.inc \in Incs /\ file.inc \in Nat /\ file.len \in Nat /\ cursor \in Nat
      /\ log.text \in Text /\ log.end \in Ends /\ log.end \in Nat
      /\ first \subseteq TailAnswer
  BY Positions DEF TailInv, TailTypes, TailFile, TailLog
<1>1. AddedAnswers \subseteq TailAnswer
  <2>1. CASE more = <<>>
    BY <2>1, AddedAnswersAre
  <2>2. CASE more # <<>>
    BY <2>2, AddedAnswersAre DEF TailInv, Adds, TailRead
  <2> QED
    BY <2>1, <2>2
<1>2. \A a \in first \cup AddedAnswers : a \in TailAnswer /\ a.inc \in Incs /\ a.inc \in Nat /\ a.end \in Ends /\ a.end \in Nat
  <2>1. ASSUME NEW a \in TailAnswer PROVE a.inc \in Incs /\ a.end \in Ends
    BY DEF TailAnswer
  <2> QED
    BY <1>0, <1>1, <2>1, Positions
<1>3. Logs!ReadEnds' = (IF log'.fresh /\ log'.text # <<>> THEN {<<log'.text[Len(log'.text)][1], cursor'>>} ELSE {})
                \cup {<<a.inc, a.end>> : a \in {b \in first' \cup AddedAnswers' : b.end > 0}}
  BY Zenon DEF Logs!ReadEnds, Logs!Last, AddedAnswers, AnswersTo
<1>4. /\ (more' = <<>> => AddedAnswers' = {}) /\ \A r : more' = <<r>> => AddedAnswers' = r.got
  BY AnswersToOne, Zenon DEF AddedAnswers
<1> HIDE DEF AddedAnswers
<1>5. CASE UNCHANGED tail
  <2>1. UNCHANGED <<file, log, cursor, first, more, outgrown>>
    BY <1>5 DEF tail
  <2> QED
    BY <2>1, FewerAnswers, NothingComes, Zenon
<1>6. CASE Logs!Write
  <2>1. /\ UNCHANGED <<log, cursor, first, more>> /\ file'.inc = file.inc
        /\ outgrown' = (outgrown \/ \E e \in Logs!ReadEnds : e[1] # file.inc /\ file'.len > e[2])
    BY <1>6 DEF Logs!Write, TailInv, TailTypes, TailFile
  <2>2. UNCHANGED AddedAnswers /\ UNCHANGED Logs!ReadEnds
    BY <2>1 DEF AddedAnswers, Logs!ReadEnds
  <2>3. file'.len \in Nat
    <3>1. TailInv'
      BY <1>6, TailNext
    <3> QED
      BY <3>1, Positions DEF TailInv, TailTypes, TailFile
  <2>4. \A e \in Logs!ReadEnds : e[2] \in Nat
    BY <1>0, <1>2, ReadEndsAre
  <2>5. outgrown' \in BOOLEAN
    BY <2>1 DEF FilesInv
  <2>6. ~outgrown' => ~outgrown /\ \A e \in Logs!ReadEnds : e[1] # file.inc => file'.len <= e[2]
    <3>1. ~outgrown' => ~outgrown /\ \A e \in Logs!ReadEnds : e[1] # file.inc => ~(file'.len > e[2])
      BY <2>1, Zenon
    <3>2. \A e \in Logs!ReadEnds : ~(file'.len > e[2]) => file'.len <= e[2]
      BY <2>3, <2>4
    <3> QED
      BY <3>1, <3>2, Zenon
  <2>7. /\ InOrder(log.text)' /\ NoneAfter(log.text, file.inc)'
        /\ \A a \in first' \cup AddedAnswers' : a.inc <= file'.inc
        /\ \A a \in AddedAnswers' : a.status = 206 => NoneAfter(log.text, a.inc)'
    BY <2>1, <2>2 DEF FilesInv
  <2> QED
    BY <2>1, <2>2, <2>5, <2>6, <2>7 DEF FilesInv
<1>7. CASE Logs!RunIsRedone
  <2>1. /\ UNCHANGED <<log, cursor, first, more, outgrown>>
        /\ file'.inc = file.inc + 1 /\ file'.len = 0
    BY <1>7 DEF Logs!RunIsRedone
  <2>2. UNCHANGED AddedAnswers /\ UNCHANGED Logs!ReadEnds
    BY <2>1 DEF AddedAnswers, Logs!ReadEnds
  <2>3. \A e \in Logs!ReadEnds : e[2] \in Nat
    BY <1>0, <1>2, ReadEndsAre
  <2>4. NoneAfter(log.text, file.inc + 1)
    <3>1. \A i \in 1..Len(log.text) : log.text[i][1] \in Nat
      BY <1>0, TextPairs
    <3> QED
      BY <1>0, <3>1 DEF FilesInv, NoneAfter
  <2>5. \A a \in first \cup AddedAnswers : a.inc <= file.inc + 1
    BY <1>0, <1>2 DEF FilesInv
  <2> QED
    BY <2>1, <2>2, <2>3, <2>4, <2>5 DEF FilesInv
<1>8. CASE Logs!RunEnds \/ Logs!LiveChanges \/ Logs!Poll
  <2>1. UNCHANGED <<file, log, cursor, first, outgrown>> /\ (UNCHANGED more \/ Logs!ReadMore)
    BY <1>8 DEF Logs!RunEnds, Logs!LiveChanges, Logs!Poll
  <2> QED
    BY <2>1, FewerAnswers, NothingComes, Zenon
<1>9. ASSUME Logs!AskAgain(all'), UNCHANGED <<file, outgrown>> PROVE FilesInv'
  <2>1. log'.text = log.text /\ ~log'.fresh /\ first' = {} /\ more' = <<>>
    BY <1>9 DEF Logs!AskAgain, TailInv, TailTypes, TailLog
  <2>2. AddedAnswers' = {}
    BY <1>4, <2>1
  <2> QED
    BY <1>9, <2>1, <2>2, NothingComes
<1>10. CASE Logs!LoadAll \/ Logs!Retry
  <2>1. Logs!AskAgain(all') /\ UNCHANGED <<file, outgrown>>
    BY <1>10 DEF Logs!LoadAll, Logs!Retry, Logs!AskAgain
  <2> QED
    BY <1>9, <2>1
<1>11. CASE Logs!ServeFirst
  <2>1. /\ ~log.fresh /\ UNCHANGED <<file, log, cursor, more, outgrown>>
        /\ \E a \in {Logs!Missing, Logs!Whole, Logs!FromEnd(InitialBytes)} : first' = {a}
    BY <1>11 DEF Logs!ServeFirst
  <2>2. PICK a \in {Logs!Missing, Logs!Whole, Logs!FromEnd(InitialBytes)} : first' = {a}
    BY <2>1
  <2>3. a.inc = file.inc
    BY <2>2 DEF Logs!Missing, Logs!Whole, Logs!FromEnd, Logs!Answer
  <2>4. more = <<>> /\ AddedAnswers' = {} /\ AddedAnswers = {}
    BY <1>4, <2>1, AddedAnswersAre DEF TailInv, Logs!IsLoaded
  <2>5. \A e \in Logs!ReadEnds' : e[1] = file.inc
    BY <1>3, <2>1, <2>2, <2>3, <2>4
  <2> QED
    <3>1. \A b \in first' \cup AddedAnswers' : b.inc <= file.inc
      BY <1>0, <2>2, <2>3, <2>4
    <3>2. ~outgrown => \A e \in Logs!ReadEnds' : e[1] # file.inc => file.len <= e[2]
      BY <2>5
    <3> QED
      BY <2>1, <2>4, <3>1, <3>2 DEF FilesInv
<1>12. CASE Logs!FirstFails
  <2>1. /\ first' = {} /\ UNCHANGED <<file, cursor, more, outgrown>>
        /\ log' = [Logs!Empty EXCEPT !.status = "error", !.fresh = TRUE]
    BY <1>12 DEF Logs!FirstFails
  <2>2. log'.text = <<>>
    BY <2>1 DEF Logs!Empty
  <2>3. AddedAnswers' \subseteq AddedAnswers
    BY <2>1, FewerAnswers
  <2> QED
    BY <2>1, <2>2, <2>3, NothingComes, Zenon
<1>13. CASE Logs!FirstArrives
  <2>1. PICK a \in first :
            /\ log' = [status |-> "loaded", text |-> Logs!FirstText(a), start |-> a.start,
                       end |-> a.end, fresh |-> TRUE]
            /\ cursor' = a.end
            /\ first' = {}
            /\ UNCHANGED <<file, more, outgrown>>
    BY <1>13, Zenon DEF Logs!FirstArrives
  <2>2. a \in TailAnswer /\ a.inc \in Incs /\ a.inc \in Nat /\ a.end \in Nat /\ a.inc <= file.inc
    BY <1>2 DEF FilesInv
  <2>3. log'.text = Logs!FirstText(a) /\ log'.text \in Text /\ Consecutive(log'.text, a.end)
    BY <2>1, <2>2, FirstTextIsConsecutive
  <2>4. InOrder(log'.text) /\ OnlyOf(log'.text, a.inc) /\ NoneAfter(log'.text, a.inc)
    BY <2>2, <2>3, FirstTextIsOfOne
  <2>5. NoneAfter(log'.text, file.inc)
    BY <1>0, <2>2, <2>4 DEF OnlyOf, NoneAfter
  <2>6. AddedAnswers' = {}
    BY <1>4, <2>1 DEF TailInv, Logs!IsLoaded
  <2>7. Logs!ReadEnds' \subseteq Logs!ReadEnds
    <3>1. CASE log'.text = <<>>
      BY <1>3, <2>1, <2>6, <3>1
    <3>2. CASE log'.text # <<>>
      <4> DEFINE n == Len(log'.text)
      <4>1. n \in 1..n
        BY <2>3, <3>2 DEF Text
      <4>2. log'.text[n][1] = a.inc /\ log'.text[n][2] = a.end - 1 /\ log'.text[n][2] \in Nat
        BY <2>3, <2>4, <3>2, <4>1, TextPairs DEF OnlyOf, Consecutive
      <4>3. a.end > 0
        BY <2>2, <4>2
      <4>4. <<a.inc, a.end>> \in Logs!ReadEnds
        BY <4>3, ReadEndsAre
      <4> QED
        BY <1>3, <2>1, <2>6, <4>2, <4>4
    <3> QED
      BY <3>1, <3>2
  <2> QED
    BY <2>1, <2>2, <2>4, <2>5, <2>6, <2>7 DEF FilesInv
<1>14. CASE Logs!ServeMore
  <2>1. PICK r, q : \E a \in {Logs!From(r.from), Logs!Whole, Logs!Missing} :
            /\ more = <<r>> /\ Adds(r)
            /\ a \in TailAnswer /\ a.inc = file.inc
            /\ (a.status = 206 => a.start = r.from /\ a.start < a.end /\ a.end = file.len)
            /\ q = [from |-> r.from, got |-> {a}] /\ more' = <<q>>
    BY <1>14, MoreIsServed
  <2>2. PICK a : /\ a.inc = file.inc
                 /\ (a.status = 206 => a.start = r.from /\ a.start < a.end /\ a.end = file.len)
                 /\ q = [from |-> r.from, got |-> {a}]
    BY <2>1
  <2>3. UNCHANGED <<file, log, cursor, first, outgrown>>
    BY <1>14 DEF Logs!ServeMore
  <2>4. AddedAnswers' = {a}
    BY <1>4, <2>1, <2>2
  <2>5. log.fresh /\ r.from = cursor
    BY <2>1 DEF TailInv, Logs!IsLoaded, Adds
  <2>6. ~outgrown => \A e \in Logs!ReadEnds' : e[1] # file.inc => file.len <= e[2]
    <3>1. \A e \in Logs!ReadEnds' : e \in Logs!ReadEnds \/ e[1] = file.inc
      BY <1>3, <2>2, <2>3, <2>4, ReadEndsAre
    <3> QED
      BY <3>1 DEF FilesInv
  <2>7. ASSUME ~outgrown, a.status = 206 PROVE OnlyOf(log.text, a.inc)
    <3>1. CASE log.text = <<>>
      BY <3>1 DEF OnlyOf
    <3>2. CASE log.text # <<>>
      <4> DEFINE n == Len(log.text)
      <4>1. n \in 1..n
        BY <1>0, <3>2 DEF Text
      <4>2. <<log.text[n][1], cursor>> \in Logs!ReadEnds
        BY <2>5, <3>2, ReadEndsAre
      <4>3. cursor < file.len
        BY <2>2, <2>5, <2>7
      <4>4. log.text[n][1] # file.inc => file.len <= cursor
        BY <2>7, <4>2 DEF FilesInv
      <4>5. log.text[n][1] = file.inc
        BY <1>0, <4>3, <4>4
      <4>6. PICK inc \in Incs : OnlyOf(log.text, inc)
        BY <2>7 DEF FilesInv
      <4>7. log.text[n][1] = inc
        BY <4>1, <4>6 DEF OnlyOf
      <4> QED
        BY <2>2, <4>5, <4>6, <4>7
    <3> QED
      BY <3>1, <3>2
  <2>8. NoneAfter(log.text, a.inc)
    BY <2>2 DEF FilesInv
  <2>9. \A b \in first' \cup AddedAnswers' : b.inc <= file.inc
    BY <1>0, <2>2, <2>3, <2>4 DEF FilesInv
  <2> QED
    BY <2>2, <2>3, <2>4, <2>6, <2>7, <2>8, <2>9 DEF FilesInv
<1>15. CASE Logs!MoreArrives
  <2>1. PICK r : \E a \in r.got :
            /\ more = <<r>> /\ Adds(r)
            /\ a.status \in {200, 206}
            /\ log' = [log EXCEPT
                         !.text = IF a.status = 206 THEN @ \o Logs!Bytes(a.inc, a.start, a.end)
                                  ELSE Logs!Bytes(a.inc, 0, a.end),
                         !.start = IF a.status = 206 THEN @ ELSE 0,
                         !.end = a.end]
            /\ cursor' = a.end
            /\ Logs!Done(1)
            /\ UNCHANGED <<file, first, outgrown>>
    BY <1>15, MoreComes
  <2>2. PICK a \in r.got :
            /\ a.status \in {200, 206}
            /\ log' = [log EXCEPT
                         !.text = IF a.status = 206 THEN @ \o Logs!Bytes(a.inc, a.start, a.end)
                                  ELSE Logs!Bytes(a.inc, 0, a.end),
                         !.start = IF a.status = 206 THEN @ ELSE 0,
                         !.end = a.end]
            /\ cursor' = a.end
            /\ Logs!Done(1)
            /\ UNCHANGED <<file, first, outgrown>>
    BY <2>1, Zenon
  <2>3. a \in AddedAnswers
    BY <2>1, AddedAnswersAre
  <2>4. a.inc \in Incs /\ a.inc \in Nat /\ a.end \in Ends /\ a.end \in Nat /\ a.inc <= file.inc
    BY <1>2, <2>3 DEF FilesInv
  <2>5. AddedAnswers' = {}
    <3>1. 1 \in DOMAIN more
      BY <2>1
    <3> QED
      BY <1>4, <2>2, <3>1, ReadIsOver
  <2>6. ASSUME NEW text \in Text, InOrder(text), NoneAfter(text, a.inc), text # <<>> => a.end > 0,
               ~outgrown => OnlyOf(text, a.inc), text # <<>> => text[Len(text)][1] = a.inc,
               log'.text = text
        PROVE  FilesInv'
    <3>1. NoneAfter(text, file.inc)
      <4>1. \A i \in 1..Len(text) : text[i][1] \in Nat
        BY TextPairs
      <4> QED
        BY <1>0, <2>4, <2>6, <4>1 DEF NoneAfter
    <3>2. Logs!ReadEnds' \subseteq Logs!ReadEnds
      <4>1. text # <<>> => <<a.inc, a.end>> \in Logs!ReadEnds
        BY <2>3, <2>6, ReadEndsAre
      <4>2. Logs!ReadEnds' \subseteq {<<b.inc, b.end>> : b \in {c \in first \cup AddedAnswers : c.end > 0}}
                                 \cup (IF text # <<>> THEN {<<a.inc, a.end>>} ELSE {})
        <5>1. first' = first /\ cursor' = a.end /\ log'.text = text
          BY <2>2, <2>6
        <5>2. {<<b.inc, b.end>> : b \in {c \in first' \cup AddedAnswers' : c.end > 0}}
              \subseteq {<<b.inc, b.end>> : b \in {c \in first \cup AddedAnswers : c.end > 0}}
          BY <2>5, <5>1
        <5>3. text # <<>> => <<text[Len(text)][1], cursor'>> = <<a.inc, a.end>>
          BY <2>6, <5>1
        <5> QED
          BY <1>3, <5>1, <5>2, <5>3
      <4> QED
        BY <4>1, <4>2, ReadEndsAre
    <3> QED
      BY <2>2, <2>4, <2>5, <2>6, <3>1, <3>2 DEF FilesInv
  <2>7. CASE a.status = 206
    <3>1. a.start = log.end /\ a.start < a.end /\ a.start \in Nat /\ a.start \in Ends
      BY <1>0, <2>1, <2>7, Positions DEF TailInv, Adds
    <3>2. PICK b : b = Logs!Bytes(a.inc, a.start, a.end)
      OBVIOUS
    <3>3. a.start <= a.end
      BY <2>4, <3>1
    <3>4. b \in Text /\ Len(b) = a.end - a.start /\ OnlyOf(b, a.inc)
      BY <2>4, <3>1, <3>2, <3>3, BytesAreConsecutive, BytesOfOne, Zenon
    <3>5. PICK text : text = log.text \o b
      OBVIOUS
    <3>6. log'.text = text
      BY <2>2, <2>7, <3>2, <3>5 DEF TailInv, TailTypes, TailLog
    <3>7. NoneAfter(log.text, a.inc) /\ InOrder(log.text) /\ (~outgrown => OnlyOf(log.text, a.inc))
      BY <2>3, <2>7 DEF FilesInv
    <3>8. text \in Text /\ InOrder(text) /\ NoneAfter(text, a.inc) /\ (~outgrown => OnlyOf(text, a.inc))
      BY <1>0, <2>4, <3>4, <3>5, <3>7, JoinedInOrder, Joined
    <3>9. text[Len(text)][1] = a.inc
      <4>1. Len(text) = Len(log.text) + Len(b) /\ \A i \in 1..Len(b) : text[Len(log.text) + i] = b[i]
        BY <1>0, <3>4, <3>5, Joined
      <4>2. Len(b) \in 1..Len(b)
        BY <2>4, <3>1, <3>4
      <4> QED
        BY <3>4, <4>1, <4>2 DEF OnlyOf
    <3>10. a.end > 0
      BY <2>4, <3>1
    <3> QED
      BY <2>6, <3>6, <3>8, <3>9, <3>10
  <2>8. CASE a.status # 206
    <3>1. 0 \in Ends /\ 0 <= a.end
      BY <2>4, Positions
    <3>2. PICK b : b = Logs!Bytes(a.inc, 0, a.end)
      OBVIOUS
    <3>3. b \in Text /\ Len(b) = a.end - 0 /\ InOrder(b) /\ OnlyOf(b, a.inc) /\ NoneAfter(b, a.inc)
      BY <2>4, <3>1, <3>2, BytesAreConsecutive, BytesOfOne, Zenon
    <3>4. log'.text = b
      BY <2>2, <2>8, <3>2 DEF TailInv, TailTypes, TailLog
    <3>5. b # <<>> => a.end > 0 /\ b[Len(b)][1] = a.inc
      BY <2>4, <3>3 DEF OnlyOf, Text
    <3> QED
      BY <2>6, <3>3, <3>4, <3>5
  <2> QED
    BY <2>7, <2>8
<1>16. CASE Logs!NothingMore
  <2>1. PICK i \in DOMAIN more :
            /\ \/ Logs!AskAgain(all)
               \/ Logs!Done(i) /\ UNCHANGED <<log, cursor, first>>
            /\ UNCHANGED <<file, outgrown>>
    BY <1>16 DEF Logs!NothingMore
  <2>2. CASE Logs!AskAgain(all)
    <3>1. Logs!AskAgain(all')
      BY <2>2 DEF Logs!AskAgain
    <3> QED
      BY <1>9, <2>1, <3>1
  <2>3. CASE Logs!Done(i) /\ UNCHANGED <<log, cursor, first>>
    <3>1. AddedAnswers' \subseteq AddedAnswers
      BY <2>3, FewerAnswers
    <3> QED
      BY <2>1, <2>3, <3>1, NothingComes, Zenon
  <2> QED
    BY <2>1, <2>2, <2>3
<1>17. CASE Logs!MoreFails
  <2>1. PICK i \in DOMAIN more : Logs!Done(i) /\ UNCHANGED <<file, log, cursor, first, outgrown>>
    BY <1>17 DEF Logs!MoreFails
  <2>2. AddedAnswers' \subseteq AddedAnswers
    BY <2>1, FewerAnswers
  <2> QED
    BY <2>1, <2>2, NothingComes, Zenon
<1> QED
  BY <1>5, <1>6, <1>7, <1>8, <1>10, <1>11, <1>12, <1>13, <1>14, <1>15, <1>16, <1>17 DEF Logs!Next

(* useLogTail (readMore, current.busy, current.end): whatever the polls,   *)
(* the last read, a new question and a redone run come between, the log    *)
(* that is shown has no hole and nothing twice, up to the next read.  It   *)
(* is of one file, unless a redone log was longer than what had been read. *)
THEOREM LogIsWhole == AppSpec => []NoHoleNothingTwice
<1> DEFINE Inv == TailInv /\ FilesInv
<1>1. AppInit => Inv
  BY TailStart, FilesStart, AppAssumption DEF AppInit
<1>2. Inv /\ [AppNext]_app => Inv'
  BY TailNext, FilesNext, StepsOfParts, AppAssumption
<1>3. Inv => NoHoleNothingTwice
  <2> SUFFICES ASSUME Inv PROVE Logs!NoHoleNothingTwice
    BY DEF NoHoleNothingTwice
  <2>1. /\ \A i \in 2..Len(log.text) : log.text[i][2] = log.text[i - 1][2] + 1
        /\ log.text # <<>> => Logs!Last(log.text)[2] = log.end - 1
        /\ Logs!IsLoaded(log) => cursor = log.end
    BY DEF TailInv, TailTypes, TailLog, Text, Consecutive, Logs!Last
  <2>2. log.text \in Text
    BY DEF TailInv, TailTypes, TailLog
  <2>3. ASSUME NEW i \in 2..Len(log.text)
        PROVE  /\ log.text[i][1] >= log.text[i - 1][1]
               /\ outgrown \/ log.text[i][1] = log.text[i - 1][1]
    <3>1. i \in 1..Len(log.text) /\ i - 1 \in 1..Len(log.text)
      BY <2>2 DEF Text
    <3>2. log.text[i][1] \in Nat /\ log.text[i - 1][1] \in Nat
      BY <2>2, <3>1, TextPairs
    <3>3. log.text[i - 1][1] <= log.text[i][1]
      BY DEF FilesInv, InOrder
    <3>4. outgrown \/ log.text[i][1] = log.text[i - 1][1]
      BY <3>1 DEF FilesInv, OnlyOf
    <3> QED
      BY <3>2, <3>3, <3>4
  <2> QED
    BY <2>1, <2>3 DEF Logs!NoHoleNothingTwice
<1> QED
  BY <1>1, <1>2, <1>3, PTL DEF AppSpec

(* The rest of the page's variables.                                       *)
Flags == /\ running \in BOOLEAN /\ live \in BOOLEAN /\ all \in BOOLEAN
         /\ poll \in {"off", "timer", "reading"} /\ lost \in 0..MaxReadFailures
         /\ outgrown \in BOOLEAN

LEMMA FlagsStay == Flags /\ [Logs!Next]_tail => Flags'
<1> SUFFICES ASSUME Flags, [Logs!Next]_tail PROVE Flags'
  OBVIOUS
<1>1. UNCHANGED poll \/ poll' \in {"off", "timer", "reading"}
  BY DEF tail, Logs!Next, Logs!Write, Logs!RunEnds, Logs!RunIsRedone, Logs!LiveChanges, Logs!LoadAll, Logs!Retry,
     Logs!ServeFirst, Logs!FirstArrives, Logs!FirstFails, Logs!Poll, Logs!ServeMore, Logs!MoreArrives,
     Logs!NothingMore, Logs!MoreFails, Logs!AskAgain, Logs!Done, Logs!Loop
<1>2. UNCHANGED lost \/ (lost < MaxReadFailures /\ lost' = lost + 1)
  BY DEF tail, Logs!Next, Logs!Write, Logs!RunEnds, Logs!RunIsRedone, Logs!LiveChanges, Logs!LoadAll, Logs!Retry,
     Logs!ServeFirst, Logs!FirstArrives, Logs!FirstFails, Logs!Poll, Logs!ServeMore, Logs!MoreArrives,
     Logs!NothingMore, Logs!MoreFails
<1>3. /\ running' \in {running, TRUE, FALSE} /\ live' \in {live, running} /\ all' \in {all, TRUE}
  BY DEF tail, Logs!Next, Logs!Write, Logs!RunEnds, Logs!RunIsRedone, Logs!LiveChanges, Logs!LoadAll, Logs!Retry,
     Logs!ServeFirst, Logs!FirstArrives, Logs!FirstFails, Logs!Poll, Logs!ServeMore, Logs!MoreArrives,
     Logs!NothingMore, Logs!MoreFails, Logs!AskAgain
<1>4. lost' \in 0..MaxReadFailures
  BY <1>2, AppAssumption DEF Flags, Logs!LogAssumption
<1>5. poll' \in {"off", "timer", "reading"}
  BY <1>1 DEF Flags
<1>6. running' \in BOOLEAN /\ live' \in BOOLEAN /\ all' \in BOOLEAN
  BY <1>3 DEF Flags
<1>7. UNCHANGED outgrown \/ outgrown' \in BOOLEAN
  BY DEF tail, Logs!Next, Logs!Write, Logs!RunEnds, Logs!RunIsRedone, Logs!LiveChanges, Logs!LoadAll, Logs!Retry,
     Logs!ServeFirst, Logs!FirstArrives, Logs!FirstFails, Logs!Poll, Logs!ServeMore, Logs!MoreArrives,
     Logs!NothingMore, Logs!MoreFails
<1> QED
  BY <1>4, <1>5, <1>6, <1>7 DEF Flags

LEMMA TailShapes == AppSpec => []Logs!TypeOK
<1>1. AppInit => TailInv /\ Flags
  <2>1. AppInit => TailInv
    BY TailStart DEF AppInit
  <2>2. AppInit => Flags
    <3> SUFFICES ASSUME Logs!Init PROVE Flags
      BY DEF AppInit
    <3>1. 0 \in 0..MaxReadFailures
      BY AppAssumption DEF Logs!LogAssumption
    <3> QED
      BY <3>1 DEF Logs!Init, Flags
  <2> QED
    BY <2>1, <2>2
<1>2. TailInv /\ Flags /\ [AppNext]_app => TailInv' /\ Flags'
  BY TailNext, FlagsStay, StepsOfParts, AppAssumption
<1>3. TailInv /\ Flags => Logs!TypeOK
  <2> SUFFICES ASSUME TailInv, Flags PROVE Logs!TypeOK
    OBVIOUS
  <2>1. more \in Seq(TailRead)
    <3>1. CASE more = <<>>
      BY <3>1
    <3>2. CASE more # <<>>
      <4>1. PICK q \in TailRead : more = <<q>>
        BY <3>2 DEF TailInv, Adds
      <4> HIDE DEF TailRead
      <4> QED
        BY <4>1
    <3> QED
      BY <3>1, <3>2
  <2>2. log.text \in Text /\ log.start \in Ends /\ log.end \in Ends /\ log.fresh \in BOOLEAN /\ log.status \in {"idle", "loaded", "error"}
    BY DEF TailInv, TailTypes, TailLog
  <2>3. TailAnswer = Logs!Answers /\ Text = Seq(Logs!TextBytes)
    BY DEF TailAnswer, Logs!Answers, Text, Logs!TextBytes, Incs, Ends
  <2>4. TailRead = [from : 0..MaxLength, got : SUBSET Logs!Answers]
    BY <2>3 DEF TailRead, Ends
  <2>5. file \in [inc : 1..MaxFiles, len : 0..MaxLength, exists : BOOLEAN] /\ cursor \in 0..MaxLength /\ first \subseteq Logs!Answers
    BY <2>3 DEF TailInv, TailTypes, TailFile, Incs, Ends
  <2> QED
    BY <2>1, <2>2, <2>3, <2>4, <2>5 DEF Flags, Logs!TypeOK, Ends
<1> QED
  BY <1>1, <1>2, <1>3, PTL DEF AppSpec

-----------------------------------------------------------------------------
(***************************************************************************)
(* BatchesEditor: the document and its backup, then the saves.             *)
(***************************************************************************)
IsDoc(d) == d = [status |-> d.status, base |-> d.base, draft |-> d.draft, saving |-> d.saving]

Backup(d) == IF d.draft = d.base THEN {} ELSE {[draft |-> d.draft, base |-> d.base]}

Survives(t) == \E kept \in backup : kept.draft = t

DocInv ==
    /\ IsDoc(doc)
    /\ \A k \in backup : k.draft # k.base /\ k.base \in seen
    /\ \A j, k \in backup : j = k
    /\ doc.status = "ready" => /\ doc.base \in seen /\ backup = Backup(doc)
                               /\ typed \subseteq {doc.draft} \ {doc.base}
    /\ \A t \in typed : Survives(t)

IsSave(s) ==
    s = [n |-> s.n, at |-> s.at, base |-> s.base, content |-> s.content,
         read |-> s.read, fresh |-> s.fresh, here |-> s.here]

(* What a save that is fresh would replace was seen, or it will notice.    *)
GoodSave(s) ==
    /\ IsSave(s)
    /\ s.fresh \in BOOLEAN
    /\ s.at = "check" => s.base \in seen
    /\ s.at = "check" /\ s.fresh /\ s.read # {} => s.read = {batches} \/ batches \in seen
    /\ s.at = "server" /\ s.fresh => batches \in seen
    /\ s.at = "answered" => s.content \in seen

KnownConflict ==
    /\ conflict = [server |-> conflict.server, fresh |-> conflict.fresh]
    /\ conflict.fresh \in BOOLEAN
    /\ conflict.server \subseteq seen
    /\ conflict.server # {} /\ conflict.fresh => batches \in seen

SavesInv ==
    /\ \A s \in saves : GoodSave(s)
    /\ KnownConflict

DraftsInv == DocInv /\ SavesInv

LEMMA DraftsStart == Drafts!Init => DraftsInv
<1> SUFFICES ASSUME Drafts!Init PROVE DraftsInv
  OBVIOUS
<1>1. doc = [status |-> "closed", base |-> NoText, draft |-> NoText, saving |-> FALSE]
  BY DEF Drafts!Init, Drafts!Closed
<1>2. DocInv
  BY <1>1 DEF Drafts!Init, DocInv, IsDoc
<1>3. conflict = [server |-> {}, fresh |-> TRUE]
  BY DEF Drafts!Init, Drafts!NoConflict
<1>4. SavesInv
  BY <1>3 DEF Drafts!Init, SavesInv, KnownConflict
<1> QED
  BY <1>2, <1>4 DEF DraftsInv

(* One document with some fields replaced.                                 *)
DocOf(status_, base_, draft_, saving_) ==
    [status |-> status_, base |-> base_, draft |-> draft_, saving |-> saving_]

LEMMA DocReplaced ==
    ASSUME NEW d, IsDoc(d), NEW v
    PROVE  /\ [d EXCEPT !.status = v] = DocOf(v, d.base, d.draft, d.saving)
           /\ [d EXCEPT !.draft = v] = DocOf(d.status, d.base, v, d.saving)
           /\ [d EXCEPT !.base = v] = DocOf(d.status, v, d.draft, d.saving)
           /\ [d EXCEPT !.saving = v] = DocOf(d.status, d.base, d.draft, v)
<1>1. PICK a, b, c, e : d = [status |-> a, base |-> b, draft |-> c, saving |-> e]
  BY DEF IsDoc
<1>2. d.base = b /\ d.draft = c /\ d.saving = e /\ d.status = a
  BY <1>1
<1>3. [d EXCEPT !.status = v] = DocOf(v, d.base, d.draft, d.saving)
  BY <1>1, <1>2 DEF DocOf
<1>4. [d EXCEPT !.draft = v] = DocOf(d.status, d.base, v, d.saving)
  BY <1>1, <1>2 DEF DocOf
<1>5. [d EXCEPT !.base = v] = DocOf(d.status, v, d.draft, d.saving)
  BY <1>1, <1>2 DEF DocOf
<1>6. [d EXCEPT !.saving = v] = DocOf(d.status, d.base, d.draft, v)
  BY <1>1, <1>2 DEF DocOf
<1> QED
  BY <1>3, <1>4, <1>5, <1>6, Zenon

Saving(d, v) == [d EXCEPT !.saving = v]
Based(d, v, w) == [d EXCEPT !.base = v, !.draft = w]
SavedAs(d, v, w) == [d EXCEPT !.saving = v, !.base = w]
Opened(d, v, w, x) == [d EXCEPT !.status = v, !.base = w, !.draft = x]

LEMMA DocBecomes ==
    ASSUME NEW d, IsDoc(d)
    PROVE  /\ \A v : Saving(d, v) = DocOf(d.status, d.base, d.draft, v)
           /\ \A v, w : Based(d, v, w) = DocOf(d.status, v, w, d.saving)
           /\ \A v, w : SavedAs(d, v, w) = DocOf(d.status, w, d.draft, v)
           /\ \A v, w, x : Opened(d, v, w, x) = DocOf(v, w, x, d.saving)
<1>1. ASSUME NEW v PROVE Saving(d, v) = DocOf(d.status, d.base, d.draft, v)
  BY DocReplaced DEF Saving
<1>2. ASSUME NEW v, NEW w PROVE Based(d, v, w) = DocOf(d.status, v, w, d.saving)
  <2>1. Based(d, v, w) = [[d EXCEPT !.base = v] EXCEPT !.draft = w]
    BY DEF Based
  <2>2. ASSUME NEW m, m = DocOf(d.status, v, d.draft, d.saving)
        PROVE  [m EXCEPT !.draft = w] = DocOf(d.status, v, w, d.saving)
    BY <2>2 DEF DocOf
  <2> QED
    BY <2>1, <2>2, DocReplaced, Zenon
<1>3. ASSUME NEW v, NEW w PROVE SavedAs(d, v, w) = DocOf(d.status, w, d.draft, v)
  <2>1. PICK m : m = [d EXCEPT !.saving = v]
    OBVIOUS
  <2>2. m = DocOf(d.status, d.base, d.draft, v)
    BY <2>1, DocReplaced
  <2>3. [m EXCEPT !.base = w] = DocOf(d.status, w, d.draft, v)
    BY <2>2 DEF DocOf
  <2>4. SavedAs(d, v, w) = [m EXCEPT !.base = w]
    BY <2>1 DEF SavedAs
  <2> QED
    BY <2>3, <2>4, Zenon
<1>4. ASSUME NEW v, NEW w, NEW x PROVE Opened(d, v, w, x) = DocOf(v, w, x, d.saving)
  <2>1. Opened(d, v, w, x) = [[[d EXCEPT !.status = v] EXCEPT !.base = w] EXCEPT !.draft = x]
    BY DEF Opened
  <2>2. ASSUME NEW m, m = DocOf(v, d.base, d.draft, d.saving)
        PROVE  [m EXCEPT !.base = w] = DocOf(v, w, d.draft, d.saving)
    BY <2>2 DEF DocOf
  <2>3. ASSUME NEW m, m = DocOf(v, w, d.draft, d.saving)
        PROVE  [m EXCEPT !.draft = x] = DocOf(v, w, x, d.saving)
    BY <2>3 DEF DocOf
  <2>4. [d EXCEPT !.status = v] = DocOf(v, d.base, d.draft, d.saving)
    BY DocReplaced
  <2>5. [[d EXCEPT !.status = v] EXCEPT !.base = w] = DocOf(v, w, d.draft, d.saving)
    BY <2>2, <2>4, Zenon
  <2> QED
    BY <2>1, <2>3, <2>5, Zenon
<1> QED
  BY <1>1, <1>2, <1>3, <1>4, Zenon

LEMMA DocOfIs ==
    ASSUME NEW a, NEW b, NEW c, NEW e
    PROVE  /\ IsDoc(DocOf(a, b, c, e))
           /\ DocOf(a, b, c, e).status = a /\ DocOf(a, b, c, e).base = b
           /\ DocOf(a, b, c, e).draft = c /\ DocOf(a, b, c, e).saving = e
BY DEF IsDoc, DocOf

(* The effect that backs up drafts.                                        *)
LEMMA BackedUp ==
    ASSUME DocInv, NEW a, NEW b, NEW c, NEW e, Drafts!Becomes(DocOf(a, b, c, e)),
           seen \subseteq seen',
           a = "ready" => b \in seen' /\ typed' \subseteq {c} \ {b},
           a # "ready" => \A t \in typed' : Survives(t)
    PROVE  DocInv'
<1>1. /\ doc' = DocOf(a, b, c, e)
      /\ backup' = IF a # "ready" THEN backup
                   ELSE IF c = b THEN {} ELSE {[draft |-> c, base |-> b]}
  BY DocOfIs DEF Drafts!Becomes
<1>2. IsDoc(doc') /\ doc'.status = a /\ doc'.base = b /\ doc'.draft = c
  BY <1>1, DocOfIs
<1>3. CASE a # "ready"
  BY <1>1, <1>2, <1>3 DEF DocInv, Survives, IsDoc
<1>4. CASE a = "ready" /\ c = b
  <2>1. backup' = {} /\ typed' = {}
    BY <1>1, <1>4
  <2>2. backup' = Backup(doc')
    BY <1>2, <1>4, <2>1 DEF Backup
  <2> QED
    BY <1>2, <1>4, <2>1, <2>2 DEF DocInv, Backup, IsDoc
<1>5. CASE a = "ready" /\ c # b
  <2>1. PICK k : k = [draft |-> c, base |-> b]
    OBVIOUS
  <2>2. backup' = {k} /\ k.draft = c /\ k.base = b
    BY <1>1, <1>5, <2>1
  <2>3. backup' = Backup(doc')
    BY <1>2, <1>5, <2>1, <2>2 DEF Backup
  <2> QED
    BY <1>2, <1>5, <2>2, <2>3 DEF DocInv, Backup, IsDoc, Survives
<1> QED
  BY <1>3, <1>4, <1>5

(* The document keeps its promise.                                         *)
LEMMA DocNext == DocInv /\ SavesInv /\ [Drafts!Next]_drafts => DocInv'
<1> SUFFICES ASSUME DocInv, SavesInv, [Drafts!Next]_drafts PROVE DocInv'
  OBVIOUS
<1>0. IsDoc(doc)
  BY DEF DocInv
<1>s. PICK st, ba, dr, sa : st = doc.status /\ ba = doc.base /\ dr = doc.draft /\ sa = doc.saving
  OBVIOUS
<1>1. CASE UNCHANGED <<doc, backup, typed>> /\ seen \subseteq seen'
  BY <1>1 DEF DocInv, Survives, IsDoc, Backup
(* Nothing but a flag, or a status that is not "ready".                    *)
<1>2. ASSUME NEW a, NEW e, Drafts!Becomes(DocOf(a, ba, dr, e)), a = st \/ a # "ready",
             UNCHANGED typed, seen \subseteq seen'
      PROVE  DocInv'
  <2>1. a = "ready" => ba \in seen' /\ typed' \subseteq {dr} \ {ba}
    BY <1>s, <1>2 DEF DocInv
  <2>2. a # "ready" => \A t \in typed' : Survives(t)
    BY <1>2 DEF DocInv
  <2> QED
    BY <1>2, <2>1, <2>2, BackedUp
<1>3. CASE Drafts!Load
  <2>1. Drafts!Becomes([doc EXCEPT !.status = "loading"]) /\ UNCHANGED <<typed, seen>>
    BY <1>3 DEF Drafts!Load
  <2>2. [doc EXCEPT !.status = "loading"] = DocOf("loading", ba, dr, sa)
    BY <1>0, <1>s, DocReplaced, Zenon
  <2>3. Drafts!Becomes(DocOf("loading", ba, dr, sa))
    BY <2>1, <2>2, Zenon
  <2> QED
    BY <1>2, <2>1, <2>3
<1>4. CASE Drafts!LoadFails
  <2>1. Drafts!Becomes([doc EXCEPT !.status = "error"]) /\ UNCHANGED <<typed, seen>>
    BY <1>4 DEF Drafts!LoadFails
  <2>2. [doc EXCEPT !.status = "error"] = DocOf("error", ba, dr, sa)
    BY <1>0, <1>s, DocReplaced, Zenon
  <2>3. Drafts!Becomes(DocOf("error", ba, dr, sa))
    BY <2>1, <2>2, Zenon
  <2> QED
    BY <1>2, <2>1, <2>3
<1>5. CASE Drafts!Save \/ Drafts!Overwrite
  <2>1. Drafts!Becomes([doc EXCEPT !.saving = TRUE]) /\ UNCHANGED <<typed, seen>>
    BY <1>5 DEF Drafts!Save, Drafts!Overwrite
  <2>2. [doc EXCEPT !.saving = TRUE] = DocOf(st, ba, dr, TRUE)
    <3>1. [doc EXCEPT !.saving = TRUE] = Saving(doc, TRUE)
      BY DEF Saving
    <3> QED
      BY <1>0, <1>s, <3>1, DocBecomes, Zenon
  <2>3. Drafts!Becomes(DocOf(st, ba, dr, TRUE))
    BY <2>1, <2>2, Zenon
  <2> QED
    BY <1>2, <2>1, <2>3
<1>6. CASE Drafts!FindsConflict \/ Drafts!WriteFails
  <2>1. /\ Drafts!Becomes([doc EXCEPT !.saving = FALSE]) \/ UNCHANGED <<doc, backup>>
        /\ UNCHANGED typed /\ seen \subseteq seen'
    BY <1>6 DEF Drafts!FindsConflict, Drafts!WriteFails
  <2>2. [doc EXCEPT !.saving = FALSE] = DocOf(st, ba, dr, FALSE)
    <3>1. [doc EXCEPT !.saving = FALSE] = Saving(doc, FALSE)
      BY DEF Saving
    <3> QED
      BY <1>0, <1>s, <3>1, DocBecomes, Zenon
  <2>3. Drafts!Becomes(DocOf(st, ba, dr, FALSE)) \/ UNCHANGED <<doc, backup>>
    BY <2>1, <2>2, Zenon
  <2> QED
    BY <1>1, <1>2, <2>1, <2>3
(* The file arrives: a draft comes back with what it was based on.         *)
<1>7. CASE Drafts!LoadArrives
  <2>1. PICK content :
          LET left == {kept \in backup : kept.draft # content} IN
          /\ Drafts!Becomes(IF left # {} THEN Drafts!Loaded(content, CHOOSE kept \in left : TRUE)
                            ELSE [doc EXCEPT !.status = "ready", !.base = content, !.draft = content])
          /\ seen' = IF left # {} THEN seen ELSE seen \cup {content}
          /\ typed' = typed \ {content}
    BY <1>7, Zenon DEF Drafts!LoadArrives
  <2> DEFINE left == {kept \in backup : kept.draft # content}
  <2>2. CASE left # {}
    <3>1. PICK k : k = CHOOSE kept \in left : TRUE
      OBVIOUS
    <3>2. k \in backup
      BY <2>2, <3>1
    <3>3. Drafts!Becomes([doc EXCEPT !.status = "ready", !.base = k.base, !.draft = k.draft]) /\ UNCHANGED seen
      BY <2>1, <2>2, <3>1 DEF Drafts!Loaded
    <3>4. [doc EXCEPT !.status = "ready", !.base = k.base, !.draft = k.draft] = DocOf("ready", k.base, k.draft, sa)
      <4>1. [doc EXCEPT !.status = "ready", !.base = k.base, !.draft = k.draft] = Opened(doc, "ready", k.base, k.draft)
        BY DEF Opened
      <4> QED
        BY <1>0, <1>s, <4>1, DocBecomes, Zenon
    <3>5. k.base \in seen /\ typed' \subseteq {k.draft} \ {k.base}
      BY <2>1, <3>2 DEF DocInv, Survives
    <3>6. Drafts!Becomes(DocOf("ready", k.base, k.draft, sa))
      BY <3>3, <3>4, Zenon
    <3> QED
      BY <3>3, <3>5, <3>6, BackedUp
  <2>3. CASE left = {}
    <3>1. Drafts!Becomes([doc EXCEPT !.status = "ready", !.base = content, !.draft = content])
      BY <2>1, <2>3, Zenon
    <3>2. [doc EXCEPT !.status = "ready", !.base = content, !.draft = content] = DocOf("ready", content, content, sa)
      <4>1. [doc EXCEPT !.status = "ready", !.base = content, !.draft = content] = Opened(doc, "ready", content, content)
        BY DEF Opened
      <4> QED
        BY <1>0, <1>s, <4>1, DocBecomes, Zenon
    <3>3. content \in seen' /\ seen \subseteq seen' /\ typed' = {}
      BY <2>1, <2>3 DEF DocInv, Survives
    <3>4. Drafts!Becomes(DocOf("ready", content, content, sa))
      BY <3>1, <3>2, Zenon
    <3> QED
      BY <3>3, <3>4, BackedUp
  <2> QED
    BY <2>2, <2>3
<1>8. CASE Drafts!Types
  <2>1. PICK t : Drafts!Becomes([doc EXCEPT !.draft = t]) /\ typed' = {t} \ {doc.base}
                 /\ UNCHANGED seen /\ doc.status = "ready"
    BY <1>8 DEF Drafts!Types
  <2>2. Drafts!Becomes(DocOf(st, ba, t, sa))
    BY <1>0, <1>s, <2>1, DocReplaced, Zenon
  <2>3. st = "ready" /\ ba \in seen' /\ seen \subseteq seen' /\ typed' \subseteq {t} \ {ba}
    BY <1>s, <2>1 DEF DocInv
  <2> QED
    BY <2>2, <2>3, BackedUp
<1>9. CASE Drafts!Discard
  <2>1. Drafts!Becomes([doc EXCEPT !.draft = doc.base]) /\ typed' = {} /\ UNCHANGED seen
        /\ doc.status = "ready"
    BY <1>9 DEF Drafts!Discard
  <2>2. Drafts!Becomes(DocOf(st, ba, ba, sa))
    BY <1>0, <1>s, <2>1, DocReplaced, Zenon
  <2>3. st = "ready" /\ ba \in seen' /\ seen \subseteq seen'
    BY <1>s, <2>1 DEF DocInv
  <2> QED
    BY <2>1, <2>2, <2>3, BackedUp
<1>10. CASE Drafts!Undo
  <2>1. PICK t : Drafts!Becomes([doc EXCEPT !.draft = t]) /\ UNCHANGED seen
                 /\ typed' = IF doc.status = "ready" THEN {t} \ {doc.base} ELSE typed
    BY <1>10 DEF Drafts!Undo
  <2>2. Drafts!Becomes(DocOf(st, ba, t, sa))
    BY <1>0, <1>s, <2>1, DocReplaced, Zenon
  <2>3. st = "ready" => ba \in seen' /\ typed' \subseteq {t} \ {ba}
    BY <1>s, <2>1 DEF DocInv
  <2>4. seen \subseteq seen' /\ (st # "ready" => \A x \in typed' : Survives(x))
    BY <1>s, <2>1 DEF DocInv
  <2> QED
    BY <2>2, <2>3, <2>4, BackedUp
(* What was saved is what the draft is based on.                           *)
<1>11. CASE Drafts!WriteEnds
  <2>1. PICK s \in saves :
          /\ s.at = "answered" /\ UNCHANGED seen
          /\ \/ Drafts!Becomes(Drafts!Written(s.content)) /\ typed' = typed \ {s.content}
             \/ UNCHANGED <<doc, backup, typed>>
    BY <1>11 DEF Drafts!WriteEnds
  <2>2. PICK c : c = s.content
    OBVIOUS
  <2>3. c \in seen
    BY <2>1, <2>2 DEF SavesInv, GoodSave
  <2>4. CASE Drafts!Becomes(Drafts!Written(c)) /\ typed' = typed \ {c}
    <3>1. Drafts!Becomes([doc EXCEPT !.saving = FALSE, !.base = c])
      BY <2>4 DEF Drafts!Written
    <3>2. Drafts!Becomes(DocOf(st, c, dr, FALSE))
      <4>1. [doc EXCEPT !.saving = FALSE, !.base = c] = SavedAs(doc, FALSE, c)
        BY DEF SavedAs
      <4> QED
        BY <1>0, <1>s, <3>1, <4>1, DocBecomes, Zenon
    <3>3. /\ st = "ready" => c \in seen' /\ typed' \subseteq {dr} \ {c}
          /\ seen \subseteq seen'
          /\ \A t \in typed' : Survives(t)
      BY <1>s, <2>1, <2>3, <2>4 DEF DocInv
    <3> QED
      BY <3>2, <3>3, BackedUp
  <2> QED
    BY <1>1, <2>1, <2>2, <2>4
<1>12. CASE Drafts!KeepEditing
  <2>1. PICK v \in conflict.server : Drafts!Becomes([doc EXCEPT !.base = v]) /\ typed' = typed \ {v}
                                     /\ UNCHANGED seen
    BY <1>12 DEF Drafts!KeepEditing
  <2>2. Drafts!Becomes(DocOf(st, v, dr, sa))
    BY <1>0, <1>s, <2>1, DocReplaced, Zenon
  <2>3. /\ st = "ready" => v \in seen' /\ typed' \subseteq {dr} \ {v}
        /\ seen \subseteq seen'
        /\ \A t \in typed' : Survives(t)
    BY <1>s, <2>1 DEF DocInv, SavesInv, KnownConflict
  <2> QED
    BY <2>2, <2>3, BackedUp
<1>13. CASE Drafts!UseSaved
  <2>1. PICK v \in conflict.server : Drafts!Becomes([doc EXCEPT !.base = v, !.draft = v]) /\ typed' = {}
                                     /\ UNCHANGED seen
    BY <1>13 DEF Drafts!UseSaved
  <2>2. Drafts!Becomes(DocOf(st, v, v, sa))
    <3>1. [doc EXCEPT !.base = v, !.draft = v] = Based(doc, v, v)
      BY DEF Based
    <3> QED
      BY <1>0, <1>s, <2>1, <3>1, DocBecomes, Zenon
  <2>3. v \in seen' /\ seen \subseteq seen'
    BY <2>1 DEF SavesInv, KnownConflict
  <2> QED
    BY <2>1, <2>2, <2>3, BackedUp
<1>14. CASE Drafts!Leaves
  <2>1. doc' = Drafts!Closed /\ UNCHANGED <<backup, typed, seen>>
    BY <1>14 DEF Drafts!Leaves
  <2>2. IsDoc(doc') /\ doc'.status = "closed"
    BY <2>1 DEF Drafts!Closed, IsDoc
  <2> QED
    BY <2>1, <2>2 DEF DocInv, Survives, IsDoc
<1>15. CASE \/ Drafts!LoadIsRead \/ Drafts!CheckIsRead \/ Drafts!WriteBegins \/ Drafts!Handled
            \/ Drafts!ClosesDialog \/ Drafts!OtherSaves
  BY <1>1, <1>15 DEF Drafts!LoadIsRead, Drafts!CheckIsRead, Drafts!WriteBegins, Drafts!Handled,
                     Drafts!ClosesDialog, Drafts!OtherSaves
<1>16. CASE UNCHANGED drafts
  BY <1>1, <1>16 DEF drafts
<1> QED
  BY <1>3, <1>4, <1>5, <1>6, <1>7, <1>8, <1>9, <1>10, <1>11, <1>12, <1>13, <1>14, <1>15, <1>16 DEF Drafts!Next

(* One save with some fields replaced.                                     *)
SaveOf(n, at, base, content, read, fresh, here) ==
    [n |-> n, at |-> at, base |-> base, content |-> content, read |-> read, fresh |-> fresh, here |-> here]

LEMMA SaveReplaced ==
    ASSUME NEW s, IsSave(s), NEW v
    PROVE  /\ [s EXCEPT !.at = v] = SaveOf(s.n, v, s.base, s.content, s.read, s.fresh, s.here)
           /\ [s EXCEPT !.read = v] = SaveOf(s.n, s.at, s.base, s.content, v, s.fresh, s.here)
           /\ [s EXCEPT !.fresh = v] = SaveOf(s.n, s.at, s.base, s.content, s.read, v, s.here)
           /\ [s EXCEPT !.here = v] = SaveOf(s.n, s.at, s.base, s.content, s.read, s.fresh, v)
<1>1. PICK a, b, c, d, e, f, g :
         s = [n |-> a, at |-> b, base |-> c, content |-> d, read |-> e, fresh |-> f, here |-> g]
  BY DEF IsSave
<1>2. s.n = a /\ s.at = b /\ s.base = c /\ s.content = d /\ s.read = e /\ s.fresh = f /\ s.here = g
  BY <1>1
<1>3. [s EXCEPT !.at = v] = SaveOf(s.n, v, s.base, s.content, s.read, s.fresh, s.here)
  BY <1>1, <1>2 DEF SaveOf
<1>4. [s EXCEPT !.read = v] = SaveOf(s.n, s.at, s.base, s.content, v, s.fresh, s.here)
  BY <1>1, <1>2 DEF SaveOf
<1>5. [s EXCEPT !.fresh = v] = SaveOf(s.n, s.at, s.base, s.content, s.read, v, s.here)
  BY <1>1, <1>2 DEF SaveOf
<1>6. [s EXCEPT !.here = v] = SaveOf(s.n, s.at, s.base, s.content, s.read, s.fresh, v)
  BY <1>1, <1>2 DEF SaveOf
<1> QED
  BY <1>3, <1>4, <1>5, <1>6, Zenon

LEMMA SaveOfIs ==
    ASSUME NEW n, NEW at, NEW base, NEW content, NEW read, NEW fresh, NEW here,
           NEW s, s = SaveOf(n, at, base, content, read, fresh, here)
    PROVE  /\ IsSave(s) /\ s.at = at /\ s.base = base /\ s.content = content
           /\ s.read = read /\ s.fresh = fresh /\ s.here = here
BY DEF SaveOf, IsSave

Unsure(s, v) == [s EXCEPT !.fresh = v]
Left(s, v) == [s EXCEPT !.here = v]
Sent(s, v, w) == [s EXCEPT !.at = v, !.fresh = w]

LEMMA SaveBecomes ==
    ASSUME NEW s, IsSave(s)
    PROVE  /\ \A v : Unsure(s, v) = SaveOf(s.n, s.at, s.base, s.content, s.read, v, s.here)
           /\ \A v : Left(s, v) = SaveOf(s.n, s.at, s.base, s.content, s.read, s.fresh, v)
           /\ \A v, w : Sent(s, v, w) = SaveOf(s.n, v, s.base, s.content, s.read, w, s.here)
<1>1. ASSUME NEW v PROVE Unsure(s, v) = SaveOf(s.n, s.at, s.base, s.content, s.read, v, s.here)
  BY SaveReplaced DEF Unsure
<1>2. ASSUME NEW v PROVE Left(s, v) = SaveOf(s.n, s.at, s.base, s.content, s.read, s.fresh, v)
  BY SaveReplaced DEF Left
<1>3. ASSUME NEW v, NEW w PROVE Sent(s, v, w) = SaveOf(s.n, v, s.base, s.content, s.read, w, s.here)
  <2>1. Sent(s, v, w) = [[s EXCEPT !.at = v] EXCEPT !.fresh = w]
    BY DEF Sent
  <2>2. ASSUME NEW m, m = SaveOf(s.n, v, s.base, s.content, s.read, s.fresh, s.here)
        PROVE  [m EXCEPT !.fresh = w] = SaveOf(s.n, v, s.base, s.content, s.read, w, s.here)
    BY <2>2 DEF SaveOf
  <2> QED
    BY <2>1, <2>2, SaveReplaced, Zenon
<1> QED
  BY <1>1, <1>2, <1>3, Zenon

LEMMA GoodStays ==
    ASSUME NEW s, GoodSave(s), UNCHANGED batches, seen \subseteq seen'
    PROVE  GoodSave(s)'
BY DEF GoodSave

LEMMA KnownStays ==
    ASSUME KnownConflict, UNCHANGED <<batches, conflict>>, seen \subseteq seen'
    PROVE  KnownConflict'
BY DEF KnownConflict

LEMMA NothingIsKnown == conflict' = Drafts!NoConflict => KnownConflict'
<1> SUFFICES ASSUME conflict' = Drafts!NoConflict PROVE KnownConflict'
  OBVIOUS
<1>1. conflict' = [server |-> {}, fresh |-> TRUE]
  BY DEF Drafts!NoConflict
<1> QED
  BY <1>1 DEF KnownConflict

(* One save moves.                                                         *)
LEMMA OneSaveMoves ==
    ASSUME SavesInv, NEW s \in saves, NEW t, GoodSave(t)', Drafts!Moves(s, t),
           UNCHANGED batches, seen \subseteq seen', KnownConflict'
    PROVE  SavesInv'
BY GoodStays DEF SavesInv, Drafts!Moves

LEMMA SavesNext == DocInv /\ SavesInv /\ [Drafts!Next]_drafts => SavesInv'
<1> SUFFICES ASSUME DocInv, SavesInv, [Drafts!Next]_drafts PROVE SavesInv'
  OBVIOUS
<1>0. KnownConflict /\ \A s \in saves : GoodSave(s)
  BY DEF SavesInv
<1>1. ASSUME UNCHANGED <<batches, saves>>, seen \subseteq seen',
             UNCHANGED conflict \/ conflict' = Drafts!NoConflict
      PROVE  SavesInv'
  BY <1>0, <1>1, GoodStays, KnownStays, NothingIsKnown DEF SavesInv
<1>2. CASE UNCHANGED drafts
  BY <1>1, <1>2 DEF drafts
<1>3. CASE \/ Drafts!Load \/ Drafts!LoadIsRead \/ Drafts!LoadArrives \/ Drafts!LoadFails
           \/ Drafts!Types \/ Drafts!Discard \/ Drafts!Undo
           \/ Drafts!KeepEditing \/ Drafts!UseSaved \/ Drafts!ClosesDialog
  <2>1. CASE Drafts!LoadArrives
    <3>1. UNCHANGED <<batches, saves, conflict>> /\ seen \subseteq seen'
      BY <2>1 DEF Drafts!LoadArrives
    <3> QED
      BY <1>1, <3>1
  <2>2. CASE ~Drafts!LoadArrives
    BY <1>1, <1>3, <2>2 DEF Drafts!Load, Drafts!LoadIsRead, Drafts!LoadFails, Drafts!Types, Drafts!Discard,
                      Drafts!Undo, Drafts!KeepEditing, Drafts!UseSaved, Drafts!ClosesDialog
  <2> QED
    BY <2>1, <2>2
(* A new save, at the check or at the server.                              *)
<1>4. ASSUME NEW at, NEW content, NEW fresh \in BOOLEAN, Drafts!With(at, content, fresh),
             at = "check" => doc.base \in seen,
             at = "server" /\ fresh => batches \in seen, at # "answered",
             UNCHANGED <<batches, seen>>, KnownConflict'
      PROVE  SavesInv'
  <2>1. PICK n : saves' = saves \cup {SaveOf(n, at, doc.base, content, {}, fresh, TRUE)}
    BY <1>4 DEF Drafts!With, SaveOf
  <2>2. PICK s, base, read, here :
            s = SaveOf(n, at, base, content, read, fresh, here) /\ base = doc.base /\ read = {} /\ here = TRUE
    OBVIOUS
  <2>3. IsSave(s) /\ s.at = at /\ s.base = doc.base /\ s.read = {} /\ s.fresh = fresh
    BY <2>2 DEF SaveOf, IsSave
  <2>4. GoodSave(s)'
    BY <1>4, <2>3 DEF GoodSave, IsSave
  <2>5. saves' = saves \cup {s}
    BY <2>1, <2>2, Zenon
  <2> QED
    BY <1>0, <1>4, <2>5, <2>4, GoodStays DEF SavesInv
<1>5. CASE Drafts!Save
  <2>1. PICK fresh : fresh = TRUE
    OBVIOUS
  <2>2. Drafts!With("check", doc.draft, fresh) /\ doc.base \in seen /\ UNCHANGED <<batches, seen, conflict>>
    BY <1>5, <2>1 DEF Drafts!Save, DocInv
  <2>3. KnownConflict'
    BY <1>0, <2>2, KnownStays
  <2> QED
    BY <1>4, <2>1, <2>2, <2>3
<1>6. CASE Drafts!Overwrite
  <2>1. /\ conflict.server # {} /\ Drafts!With("server", doc.draft, conflict.fresh)
        /\ conflict' = Drafts!NoConflict /\ UNCHANGED <<batches, seen>>
    BY <1>6 DEF Drafts!Overwrite
  <2>2. PICK fresh : fresh = conflict.fresh
    OBVIOUS
  <2>3. fresh \in BOOLEAN /\ (fresh => batches \in seen)
    BY <1>0, <2>1, <2>2 DEF KnownConflict
  <2>4. KnownConflict'
    BY <2>1, NothingIsKnown
  <2> QED
    BY <1>4, <2>1, <2>2, <2>3, <2>4
<1>7. CASE Drafts!CheckIsRead
  <2>1. PICK s \in saves : /\ s.at = "check" /\ s.read = {}
                           /\ Drafts!Moves(s, [s EXCEPT !.read = {batches}])
                           /\ UNCHANGED <<batches, seen, conflict>>
    BY <1>7 DEF Drafts!CheckIsRead
  <2>2. PICK t : t = SaveOf(s.n, s.at, s.base, s.content, {batches}, s.fresh, s.here)
    OBVIOUS
  <2>3. GoodSave(s)
    BY <1>0
  <2>4. IsSave(t) /\ t.at = "check" /\ t.base = s.base /\ t.read = {batches} /\ t.fresh = s.fresh
    BY <2>1, <2>2, SaveOfIs
  <2>5. GoodSave(t)'
    BY <2>1, <2>3, <2>4 DEF GoodSave, IsSave
  <2>6. Drafts!Moves(s, t)
    <3>1. [s EXCEPT !.read = {batches}] = t
      BY <2>2, <2>3, SaveReplaced DEF GoodSave
    <3> QED
      BY <2>1, <3>1, Zenon
  <2>7. KnownConflict'
    BY <1>0, <2>1, KnownStays
  <2> QED
    BY <2>1, <2>5, <2>6, <2>7, OneSaveMoves
<1>8. CASE Drafts!WriteBegins
  <2>1. PICK s \in saves :
          /\ s.at = "check"
          /\ \/ s.read = {s.base} /\ Drafts!Moves(s, [s EXCEPT !.at = "server"])
             \/ s.read = {} /\ Drafts!Moves(s, [s EXCEPT !.at = "server", !.fresh = FALSE])
          /\ UNCHANGED <<batches, seen, conflict>>
    BY <1>8 DEF Drafts!WriteBegins
  <2>2. GoodSave(s) /\ IsSave(s)
    BY <1>0 DEF GoodSave
  <2>3. PICK fresh \in BOOLEAN : /\ fresh => s.fresh /\ s.read = {s.base}
                                 /\ Drafts!Moves(s, SaveOf(s.n, "server", s.base, s.content, s.read, fresh, s.here))
    <3>1. CASE s.read = {s.base} /\ Drafts!Moves(s, [s EXCEPT !.at = "server"])
      <4>1. [s EXCEPT !.at = "server"] = SaveOf(s.n, "server", s.base, s.content, s.read, s.fresh, s.here)
        BY <2>2, SaveReplaced, Zenon
      <4>2. Drafts!Moves(s, SaveOf(s.n, "server", s.base, s.content, s.read, s.fresh, s.here))
        BY <3>1, <4>1, Zenon
      <4>3. s.fresh \in BOOLEAN
        BY <2>2 DEF GoodSave
      <4> QED
        BY <3>1, <4>2, <4>3
    <3>2. CASE Drafts!Moves(s, [s EXCEPT !.at = "server", !.fresh = FALSE])
      <4>1. [s EXCEPT !.at = "server", !.fresh = FALSE] = Sent(s, "server", FALSE)
        BY DEF Sent
      <4>2. Drafts!Moves(s, SaveOf(s.n, "server", s.base, s.content, s.read, FALSE, s.here))
        BY <2>2, <3>2, <4>1, SaveBecomes, Zenon
      <4> QED
        BY <4>2, Zenon
    <3> QED
      BY <2>1, <3>1, <3>2
  <2>4. PICK t : t = SaveOf(s.n, "server", s.base, s.content, s.read, fresh, s.here)
    OBVIOUS
  <2>5. IsSave(t) /\ t.at = "server" /\ t.fresh = fresh
    BY <2>4, SaveOfIs
  <2>6. fresh => batches \in seen
    BY <2>1, <2>2, <2>3 DEF GoodSave
  <2>7. GoodSave(t)'
    BY <2>1, <2>5, <2>6 DEF GoodSave, IsSave
  <2>8. KnownConflict'
    BY <1>0, <2>1, KnownStays
  <2> QED
    BY <2>1, <2>3, <2>4, <2>7, <2>8, OneSaveMoves
<1>9. CASE Drafts!FindsConflict
  <2>1. PICK s \in saves : \E found \in s.read :
          /\ s.at = "check" /\ saves' = saves \ {s} /\ UNCHANGED batches
          /\ \/ /\ conflict' = [server |-> {found}, fresh |-> s.fresh]
                /\ seen' = seen \cup {found}
             \/ UNCHANGED <<conflict, seen>>
    BY <1>9 DEF Drafts!FindsConflict
  <2>2. PICK found \in s.read :
             \/ /\ conflict' = [server |-> {found}, fresh |-> s.fresh]
                /\ seen' = seen \cup {found}
             \/ UNCHANGED <<conflict, seen>>
    BY <2>1
  <2>3. seen \subseteq seen' /\ \A x \in saves' : GoodSave(x)'
    BY <1>0, <2>1, <2>2, GoodStays
  <2>4. KnownConflict'
    <3>1. CASE conflict' = [server |-> {found}, fresh |-> s.fresh] /\ seen' = seen \cup {found}
      <4>1. s.fresh => s.read = {batches} \/ batches \in seen
        BY <1>0, <2>1, <2>2 DEF GoodSave
      <4>2. conflict'.server = {found} /\ conflict'.fresh = s.fresh
        BY <3>1
      <4>4. s.fresh \in BOOLEAN
        BY <1>0 DEF GoodSave
      <4>3. found \in seen' /\ (s.fresh => batches' \in seen')
        BY <2>1, <2>2, <3>1, <4>1
      <4> QED
        BY <3>1, <4>2, <4>3, <4>4 DEF KnownConflict
    <3>2. CASE UNCHANGED <<conflict, seen>>
      BY <1>0, <2>1, <3>2, KnownStays
    <3> QED
      BY <2>2, <3>1, <3>2
  <2> QED
    BY <2>3, <2>4 DEF SavesInv
(* What the server writes was written by a user who sees it.               *)
<1>10. CASE Drafts!Handled
  <2>1. PICK s \in saves :
          /\ batches' = s.content /\ seen' = seen \cup {s.content} /\ UNCHANGED conflict
          /\ Drafts!Moves(s, [s EXCEPT !.at = "answered"])
    BY <1>10 DEF Drafts!Handled
  <2>2. batches' \in seen' /\ seen \subseteq seen'
    BY <2>1
  <2>3. ASSUME NEW x \in saves PROVE GoodSave(x)'
    BY <1>0, <2>2 DEF GoodSave
  <2>4. IsSave(s) /\ s.fresh \in BOOLEAN
    BY <1>0 DEF GoodSave
  <2>5. PICK t : t = SaveOf(s.n, "answered", s.base, s.content, s.read, s.fresh, s.here)
    OBVIOUS
  <2>6. IsSave(t) /\ t.at = "answered" /\ t.content = s.content /\ t.fresh = s.fresh
    BY <2>5, SaveOfIs
  <2>7. GoodSave(t)'
    BY <2>1, <2>4, <2>6 DEF GoodSave, IsSave
  <2>8. [s EXCEPT !.at = "answered"] = t
    BY <2>4, <2>5, SaveReplaced, Zenon
  <2>9. saves' = (saves \ {s}) \cup {t}
    BY <2>1, <2>8 DEF Drafts!Moves
  <2>10. KnownConflict'
    BY <1>0, <2>1, <2>2 DEF KnownConflict
  <2> QED
    BY <2>3, <2>7, <2>9, <2>10 DEF SavesInv
<1>11. CASE Drafts!WriteEnds \/ Drafts!WriteFails
  <2>1. saves' \subseteq saves /\ UNCHANGED <<batches, conflict, seen>>
    BY <1>11 DEF Drafts!WriteEnds, Drafts!WriteFails
  <2> QED
    BY <1>0, <2>1, GoodStays, KnownStays DEF SavesInv
<1>12. CASE Drafts!Leaves
  <2>1. /\ \A x \in saves' : \E s \in saves : x = [s EXCEPT !.here = FALSE]
        /\ conflict' = Drafts!NoConflict /\ UNCHANGED <<batches, seen>>
    BY <1>12 DEF Drafts!Leaves
  <2>2. ASSUME NEW x \in saves' PROVE GoodSave(x)'
    <3>1. PICK s \in saves : x = [s EXCEPT !.here = FALSE]
      BY <2>1
    <3>2. GoodSave(s) /\ IsSave(s)
      BY <1>0 DEF GoodSave
    <3>3. x = Left(s, FALSE)
      BY <3>1 DEF Left
    <3>4. x = SaveOf(s.n, s.at, s.base, s.content, s.read, s.fresh, FALSE)
      BY <3>2, <3>3, SaveBecomes, Zenon
    <3>5. /\ IsSave(x) /\ x.at = s.at /\ x.base = s.base /\ x.content = s.content
          /\ x.read = s.read /\ x.fresh = s.fresh
      BY <3>4 DEF SaveOf, IsSave
    <3> QED
      BY <2>1, <3>2, <3>5 DEF GoodSave, IsSave
  <2> QED
    BY <2>1, <2>2, NothingIsKnown DEF SavesInv
<1>13. CASE Drafts!OtherSaves
  <2>1. /\ saves' = {[s EXCEPT !.fresh = s.fresh /\ s.at = "check" /\ s.read = {}] : s \in saves}
        /\ conflict' = IF conflict.server = {} THEN conflict ELSE [conflict EXCEPT !.fresh = FALSE]
        /\ UNCHANGED seen
    BY <1>13 DEF Drafts!OtherSaves
  <2>2. ASSUME NEW x \in saves' PROVE GoodSave(x)'
    <3>1. PICK s \in saves : x = [s EXCEPT !.fresh = s.fresh /\ s.at = "check" /\ s.read = {}]
      BY <2>1
    <3>2. PICK v \in BOOLEAN : v = (s.fresh /\ s.at = "check" /\ s.read = {})
      OBVIOUS
    <3>3. GoodSave(s) /\ IsSave(s)
      BY <1>0 DEF GoodSave
    <3>4. x = Unsure(s, v)
      BY <3>1, <3>2 DEF Unsure
    <3>5. x = SaveOf(s.n, s.at, s.base, s.content, s.read, v, s.here)
      BY <3>3, <3>4, SaveBecomes, Zenon
    <3>6. /\ IsSave(x) /\ x.at = s.at /\ x.base = s.base /\ x.content = s.content
          /\ x.read = s.read /\ x.fresh = v
      BY <3>5 DEF SaveOf, IsSave
    <3>7. v => s.at = "check" /\ s.read = {}
      BY <3>2
    <3> QED
      BY <2>1, <3>3, <3>6, <3>7 DEF GoodSave, IsSave
  <2>3. KnownConflict'
    <3>1. CASE conflict.server = {}
      BY <1>0, <2>1, <3>1 DEF KnownConflict
    <3>2. CASE conflict.server # {}
      <4>1. ASSUME NEW c, NEW a, NEW b, NEW v, c = [server |-> a, fresh |-> b]
            PROVE  [c EXCEPT !.fresh = v] = [server |-> a, fresh |-> v]
        BY <4>1
      <4>2. conflict' = [server |-> conflict.server, fresh |-> FALSE]
        BY <1>0, <2>1, <3>2, <4>1, Zenon DEF KnownConflict
      <4> QED
        BY <1>0, <2>1, <4>2 DEF KnownConflict
    <3> QED
      BY <3>1, <3>2
  <2> QED
    BY <2>2, <2>3 DEF SavesInv
<1> QED
  BY <1>2, <1>3, <1>5, <1>6, <1>7, <1>8, <1>9, <1>10, <1>11, <1>12, <1>13 DEF Drafts!Next

(* "Unsaved changes are kept in the browser": what users wrote, and        *)
(* neither saved nor discarded, is in the editor or comes back with it,    *)
(* though the file is loaded again, and left during a save.                *)
THEOREM NothingTypedIsLost == AppSpec => []DraftsSurvive
<1>1. AppInit => DraftsInv
  BY DraftsStart DEF AppInit
<1>2. DraftsInv /\ [AppNext]_app => DraftsInv'
  BY DocNext, SavesNext, StepsOfParts DEF DraftsInv
<1>3. DraftsInv => DraftsSurvive
  BY DEF DraftsInv, DocInv, Survives, DraftsSurvive, Drafts!DraftsSurvive
<1> QED
  BY <1>1, <1>2, <1>3, PTL DEF AppSpec

(* "Don't overwrite changes someone else saved": a save that looked, and   *)
(* after whose look nobody else saved, replaces a text its users know.     *)
THEOREM SavesKnowWhatTheyReplace == AppSpec => []OverwritesKnown
<1>1. AppInit => DraftsInv
  BY DraftsStart DEF AppInit
<1>2. DraftsInv /\ [AppNext]_app => DraftsInv'
  BY DocNext, SavesNext, StepsOfParts DEF DraftsInv
<1>3. DraftsInv => OverwritesKnown
  BY DEF DraftsInv, SavesInv, GoodSave, OverwritesKnown, Drafts!OverwritesKnown
<1> QED
  BY <1>1, <1>2, <1>3, PTL DEF AppSpec

(* What the editor, its backup, its requests and its dialog can hold; an   *)
(* undo, a dialog or a save of the page say that a file was loaded.        *)
DocShape ==
    /\ doc.status \in {"closed", "loading", "ready", "error"} /\ doc.saving \in BOOLEAN
    /\ doc.base \in Texts \cup {NoText} /\ doc.draft \in Texts \cup {NoText}
    /\ doc.status = "ready" => doc.base \in Texts
    /\ doc.base \in Texts <=> doc.draft \in Texts
    /\ backup \subseteq [draft : Texts, base : Texts]

SaveShape(s) ==
    /\ s.n \in 1..MaxSaves /\ s.at \in {"check", "server", "answered"} /\ s.base \in Texts /\ s.content \in Texts
    /\ s.read \subseteq Texts /\ s.fresh \in BOOLEAN /\ s.here \in BOOLEAN

TextShape ==
    /\ batches \in Texts /\ loads \subseteq [n : 1..2, read : SUBSET Texts]
    /\ conflict.server \subseteq Texts
    /\ undo \subseteq Texts /\ typed \subseteq Texts /\ seen \subseteq Texts

CountShape == others \in 0..MaxOthers /\ acts \in 0..MaxActs

Shows == conflict.server # {} \/ undo # {} \/ \E s \in saves : s.here

DraftShapes ==
    /\ DraftsInv /\ DocShape /\ TextShape /\ CountShape
    /\ \A s \in saves : SaveShape(s)
    /\ Shows => doc.base \in Texts

LEMMA DraftShapesStart == Drafts!Init => DraftShapes
<1> SUFFICES ASSUME Drafts!Init PROVE DraftShapes
  OBVIOUS
<1>1. DraftsInv
  BY DraftsStart
<1>2. doc = [status |-> "closed", base |-> NoText, draft |-> NoText, saving |-> FALSE]
  BY DEF Drafts!Init, Drafts!Closed
<1>3. conflict = [server |-> {}, fresh |-> TRUE]
  BY DEF Drafts!Init, Drafts!NoConflict
<1>4. doc.status = "closed" /\ doc.base = NoText /\ doc.draft = NoText /\ doc.saving \in BOOLEAN /\ conflict.server = {}
  BY <1>2, <1>3
<1>5. DocShape
  BY <1>4 DEF Drafts!Init, DocShape
<1>6. TextShape /\ ~Shows /\ \A s \in saves : SaveShape(s)
  BY <1>4 DEF Drafts!Init, TextShape, Shows
<1>7. CountShape
  BY AppAssumption DEF Drafts!DraftsAssumption, Drafts!Init, CountShape
<1> QED
  BY <1>1, <1>5, <1>6, <1>7 DEF DraftShapes

LEMMA ShapeBecomes ==
    ASSUME DocShape, NEW a \in {"closed", "loading", "ready", "error"}, NEW b, NEW c, NEW e \in BOOLEAN,
           Drafts!Becomes(DocOf(a, b, c, e)),
           \/ b = doc.base /\ c = doc.draft /\ (a = doc.status \/ a # "ready")
           \/ b \in Texts /\ c \in Texts
    PROVE  DocShape' /\ (doc.base \in Texts => doc'.base \in Texts)
<1>1. /\ doc' = DocOf(a, b, c, e)
      /\ backup' = IF a # "ready" THEN backup
                   ELSE IF c = b THEN {} ELSE {[draft |-> c, base |-> b]}
  <2>1. PICK d : d = DocOf(a, b, c, e)
    OBVIOUS
  <2>2. d.status = a /\ d.base = b /\ d.draft = c
    BY <2>1, DocOfIs
  <2>3. Drafts!Becomes(d)
    BY <2>1
  <2> QED
    BY <2>1, <2>2, <2>3 DEF Drafts!Becomes
<1>2. doc'.status = a /\ doc'.base = b /\ doc'.draft = c /\ doc'.saving = e
  BY <1>1, DocOfIs
<1>3. a = "ready" => b \in Texts /\ c \in Texts
  BY DEF DocShape
<1>4. backup' \subseteq [draft : Texts, base : Texts]
  BY <1>1, <1>3 DEF DocShape
<1> QED
  BY <1>2, <1>3, <1>4 DEF DocShape

LEMMA DocShapeNext ==
    ASSUME DraftShapes, [Drafts!Next]_drafts
    PROVE  DocShape' /\ (doc.base \in Texts => doc'.base \in Texts \/ Drafts!Leaves)
<1> DEFINE ShapeHeld == DocShape' /\ (doc.base \in Texts => doc'.base \in Texts \/ Drafts!Leaves)
<1>0. DocShape /\ IsDoc(doc) /\ DocInv /\ SavesInv /\ TextShape
  BY DEF DraftShapes, DraftsInv, DocInv
<1>s. PICK st, ba, dr, sa : st = doc.status /\ ba = doc.base /\ dr = doc.draft /\ sa = doc.saving
  OBVIOUS
<1>t. /\ st \in {"closed", "loading", "ready", "error"} /\ sa \in BOOLEAN
      /\ st = "ready" => ba \in Texts /\ dr \in Texts
      /\ ba \in Texts => dr \in Texts
      /\ Shows => ba \in Texts
  BY <1>0, <1>s DEF DocShape, DraftShapes
<1>1. CASE UNCHANGED <<doc, backup>>
  BY <1>0, <1>1 DEF DocShape
<1>2. ASSUME NEW a \in {st, "loading", "error"}, NEW e \in BOOLEAN, Drafts!Becomes(DocOf(a, ba, dr, e))
      PROVE  ShapeHeld
  <2>1. a \in {"closed", "loading", "ready", "error"} /\ (a = st \/ a # "ready")
    BY <1>t
  <2> QED
    BY <1>0, <1>2, <1>s, <2>1, ShapeBecomes
<1>3. ASSUME NEW a \in {st, "ready"}, NEW b \in Texts, NEW c \in Texts, Drafts!Becomes(DocOf(a, b, c, sa))
      PROVE  ShapeHeld
  <2>1. a \in {"closed", "loading", "ready", "error"}
    BY <1>t
  <2> QED
    BY <1>0, <1>3, <1>t, <2>1, ShapeBecomes
<1>4. CASE Drafts!Load
  <2>1. [doc EXCEPT !.status = "loading"] = DocOf("loading", ba, dr, sa)
    BY <1>0, <1>s, DocReplaced, Zenon
  <2>2. Drafts!Becomes(DocOf("loading", ba, dr, sa))
    BY <1>4, <2>1, Zenon DEF Drafts!Load
  <2> QED
    BY <1>2, <1>t, <2>2
<1>5. CASE Drafts!LoadFails
  <2>1. [doc EXCEPT !.status = "error"] = DocOf("error", ba, dr, sa)
    BY <1>0, <1>s, DocReplaced, Zenon
  <2>2. Drafts!Becomes(DocOf("error", ba, dr, sa))
    BY <1>5, <2>1, Zenon DEF Drafts!LoadFails
  <2> QED
    BY <1>2, <1>t, <2>2
<1>6. CASE Drafts!Save \/ Drafts!Overwrite
  <2>1. Drafts!Becomes(Saving(doc, TRUE))
    BY <1>6 DEF Drafts!Save, Drafts!Overwrite, Saving
  <2>2. Drafts!Becomes(DocOf(st, ba, dr, TRUE))
    BY <1>0, <1>s, <2>1, DocBecomes, Zenon
  <2>3. TRUE \in BOOLEAN /\ st \in {st, "loading", "error"}
    OBVIOUS
  <2> QED
    BY <1>2, <2>2, <2>3, Zenon
<1>7. CASE Drafts!FindsConflict \/ Drafts!WriteFails
  <2>1. Drafts!Becomes(Saving(doc, FALSE)) \/ UNCHANGED <<doc, backup>>
    BY <1>7 DEF Drafts!FindsConflict, Drafts!WriteFails, Saving
  <2>2. CASE Drafts!Becomes(Saving(doc, FALSE))
    <3>1. Drafts!Becomes(DocOf(st, ba, dr, FALSE))
      BY <1>0, <1>s, <2>2, DocBecomes, Zenon
    <3>2. FALSE \in BOOLEAN /\ st \in {st, "loading", "error"}
      OBVIOUS
    <3> QED
      BY <1>2, <3>1, <3>2, Zenon
  <2> QED
    BY <1>1, <2>1, <2>2
<1>8. CASE Drafts!LoadArrives
  <2>1. PICK l \in loads : \E content \in l.read :
          LET left == {kept \in backup : kept.draft # content} IN
          Drafts!Becomes(IF left # {} THEN Drafts!Loaded(content, CHOOSE kept \in left : TRUE)
                         ELSE [doc EXCEPT !.status = "ready", !.base = content, !.draft = content])
    BY <1>8, Zenon DEF Drafts!LoadArrives
  <2>2. PICK content \in l.read :
          LET left == {kept \in backup : kept.draft # content} IN
          Drafts!Becomes(IF left # {} THEN Drafts!Loaded(content, CHOOSE kept \in left : TRUE)
                         ELSE [doc EXCEPT !.status = "ready", !.base = content, !.draft = content])
    BY <2>1
  <2> DEFINE left == {kept \in backup : kept.draft # content}
  <2>3. content \in Texts
    BY <1>0 DEF TextShape
  <2>4. CASE left # {}
    <3>1. PICK k : k = CHOOSE kept \in left : TRUE
      OBVIOUS
    <3>2. k \in backup
      BY <2>4, <3>1
    <3>3. Drafts!Becomes(Opened(doc, "ready", k.base, k.draft))
      BY <2>2, <2>4, <3>1 DEF Drafts!Loaded, Opened
    <3>4. Drafts!Becomes(DocOf("ready", k.base, k.draft, sa))
      BY <1>0, <1>s, <3>3, DocBecomes, Zenon
    <3>5. k.base \in Texts /\ k.draft \in Texts
      BY <1>0, <3>2 DEF DocShape
    <3> QED
      BY <1>3, <3>4, <3>5
  <2>5. CASE left = {}
    <3>1. Drafts!Becomes(Opened(doc, "ready", content, content))
      BY <2>2, <2>5, Zenon DEF Opened
    <3>2. Drafts!Becomes(DocOf("ready", content, content, sa))
      BY <1>0, <1>s, <3>1, DocBecomes, Zenon
    <3> QED
      BY <1>3, <2>3, <3>2
  <2> QED
    BY <2>4, <2>5
<1>9. ASSUME NEW v \in Texts, ba \in Texts, Drafts!Becomes([doc EXCEPT !.draft = v]) PROVE ShapeHeld
  <2>1. Drafts!Becomes(DocOf(st, ba, v, sa))
    BY <1>0, <1>9, <1>s, DocReplaced, Zenon
  <2> QED
    BY <1>3, <1>9, <2>1
<1>10. CASE Drafts!Types
  BY <1>9, <1>10, <1>s, <1>t DEF Drafts!Types
<1>11. CASE Drafts!Discard
  BY <1>9, <1>11, <1>s, <1>t DEF Drafts!Discard
<1>12. CASE Drafts!Undo
  <2>1. PICK v \in undo : Drafts!Becomes([doc EXCEPT !.draft = v])
    BY <1>12 DEF Drafts!Undo
  <2>2. v \in Texts /\ ba \in Texts
    BY <1>0, <1>t DEF TextShape, Shows
  <2> QED
    BY <1>9, <2>1, <2>2
<1>13. CASE Drafts!WriteEnds
  <2>1. PICK s \in saves : \/ s.here /\ Drafts!Becomes(Drafts!Written(s.content))
                          \/ UNCHANGED <<doc, backup>>
    BY <1>13 DEF Drafts!WriteEnds
  <2>2. PICK c : c = s.content
    OBVIOUS
  <2>3. CASE s.here /\ Drafts!Becomes(Drafts!Written(c))
    <3>1. Drafts!Becomes(SavedAs(doc, FALSE, c))
      BY <2>3 DEF Drafts!Written, SavedAs
    <3>2. Drafts!Becomes(DocOf(st, c, dr, FALSE))
      BY <1>0, <1>s, <3>1, DocBecomes, Zenon
    <3>3. c \in Texts /\ dr \in Texts
      BY <1>t, <2>2, <2>3 DEF DraftShapes, SaveShape, Shows
    <3>4. PICK e \in BOOLEAN : e = FALSE
      OBVIOUS
    <3> QED
      BY <1>0, <1>t, <3>2, <3>3, <3>4, ShapeBecomes
  <2> QED
    BY <1>1, <2>1, <2>2, <2>3
<1>14. CASE Drafts!KeepEditing
  <2>1. PICK v \in conflict.server : Drafts!Becomes([doc EXCEPT !.base = v])
    BY <1>14 DEF Drafts!KeepEditing
  <2>2. Drafts!Becomes(DocOf(st, v, dr, sa))
    BY <1>0, <1>s, <2>1, DocReplaced, Zenon
  <2>3. v \in Texts /\ dr \in Texts
    BY <1>0, <1>t DEF TextShape, Shows
  <2> QED
    BY <1>3, <2>2, <2>3
<1>15. CASE Drafts!UseSaved
  <2>1. PICK v \in conflict.server : Drafts!Becomes([doc EXCEPT !.base = v, !.draft = v])
    BY <1>15 DEF Drafts!UseSaved
  <2>2. Drafts!Becomes(Based(doc, v, v))
    BY <2>1 DEF Based
  <2>3. Drafts!Becomes(DocOf(st, v, v, sa))
    BY <1>0, <1>s, <2>2, DocBecomes, Zenon
  <2>4. v \in Texts
    BY <1>0 DEF TextShape
  <2> QED
    BY <1>3, <2>3, <2>4
<1>16. CASE Drafts!Leaves
  <2>1. doc' = [status |-> "closed", base |-> NoText, draft |-> NoText, saving |-> FALSE] /\ UNCHANGED backup
    BY <1>16 DEF Drafts!Leaves, Drafts!Closed
  <2>2. doc'.status = "closed" /\ doc'.base = NoText /\ doc'.draft = NoText /\ doc'.saving \in BOOLEAN
    BY <2>1
  <2> QED
    BY <1>0, <1>16, <2>1, <2>2 DEF DocShape
<1>17. CASE \/ Drafts!LoadIsRead \/ Drafts!CheckIsRead \/ Drafts!WriteBegins \/ Drafts!Handled
            \/ Drafts!ClosesDialog \/ Drafts!OtherSaves \/ UNCHANGED drafts
  BY <1>1, <1>17 DEF Drafts!LoadIsRead, Drafts!CheckIsRead, Drafts!WriteBegins, Drafts!Handled,
                     Drafts!ClosesDialog, Drafts!OtherSaves, drafts
<1> QED
  BY <1>4, <1>5, <1>6, <1>7, <1>8, <1>10, <1>11, <1>12, <1>13, <1>14, <1>15, <1>16, <1>17 DEF Drafts!Next

(* A save with some fields replaced keeps its shape.                       *)
LEMMA SaveOfShapes ==
    ASSUME NEW s, SaveShape(s), NEW at \in {"check", "server", "answered"}, NEW read \in SUBSET Texts,
           NEW fresh \in BOOLEAN, NEW here \in BOOLEAN,
           NEW q, q = SaveOf(s.n, at, s.base, s.content, read, fresh, here)
    PROVE  SaveShape(q) /\ (q.here => here)
<1>1. q.n = s.n /\ q.at = at /\ q.base = s.base /\ q.content = s.content /\ q.read = read /\ q.fresh = fresh /\ q.here = here
  BY DEF SaveOf
<1> QED
  BY <1>1 DEF SaveShape

LEMMA SaveShapesNext ==
    ASSUME DraftShapes, [Drafts!Next]_drafts
    PROVE  \A s \in saves' : SaveShape(s) /\ (s.here => doc.base \in Texts)
<1> DEFINE Sound(s) == SaveShape(s) /\ (s.here => doc.base \in Texts)
<1>0. /\ \A s \in saves : IsSave(s) /\ Sound(s)
      /\ TextShape /\ DocShape /\ conflict.fresh \in BOOLEAN /\ (Shows => doc.base \in Texts)
  BY DEF DraftShapes, DraftsInv, SavesInv, GoodSave, KnownConflict, Shows
<1>1. CASE saves' \subseteq saves
  BY <1>0, <1>1
<1>2. ASSUME NEW s \in saves, NEW q, SaveShape(q), q.here => s.here, Drafts!Moves(s, q)
      PROVE  \A x \in saves' : Sound(x)
  BY <1>0, <1>2 DEF Drafts!Moves
<1>3. ASSUME NEW at \in {"check", "server"}, NEW content \in Texts, NEW fresh \in BOOLEAN,
             Drafts!With(at, content, fresh), doc.base \in Texts
      PROVE  \A x \in saves' : Sound(x)
  <2>1. PICK n \in 1..MaxSaves : saves' = saves \cup {SaveOf(n, at, doc.base, content, {}, fresh, TRUE)}
    BY <1>3 DEF Drafts!With, SaveOf
  <2>a. PICK here \in BOOLEAN : here = TRUE
    OBVIOUS
  <2>b. PICK read \in SUBSET Texts : read = {}
    OBVIOUS
  <2>c. PICK base : base = doc.base
    OBVIOUS
  <2>d. PICK q : q = SaveOf(n, at, base, content, read, fresh, here)
    OBVIOUS
  <2>2. here = TRUE /\ base = doc.base /\ read = {} /\ q = SaveOf(n, at, base, content, read, fresh, here)
    BY <2>a, <2>b, <2>c, <2>d
  <2>3. /\ q.n = n /\ q.at = at /\ q.base = base /\ q.content = content /\ q.read = read
        /\ q.fresh = fresh /\ q.here = here
    BY <2>2 DEF SaveOf
  <2>4. SaveShape(q)
    BY <1>3, <2>2, <2>3 DEF SaveShape
  <2>5. saves' = saves \cup {q}
    BY <2>1, <2>2, Zenon
  <2> QED
    BY <1>0, <1>3, <2>4, <2>5
<1>4. CASE Drafts!Save
  <2>1. PICK fresh \in BOOLEAN : fresh = TRUE
    OBVIOUS
  <2>2. Drafts!With("check", doc.draft, fresh) /\ doc.base \in Texts /\ doc.draft \in Texts
    BY <1>0, <1>4, <2>1 DEF Drafts!Save, DocShape
  <2> QED
    BY <1>3, <2>2
<1>5. CASE Drafts!Overwrite
  <2>1. PICK fresh \in BOOLEAN : fresh = conflict.fresh
    BY <1>0
  <2>2. Drafts!With("server", doc.draft, fresh) /\ doc.base \in Texts /\ doc.draft \in Texts
    BY <1>0, <1>5, <2>1 DEF Drafts!Overwrite, DocShape, Shows
  <2> QED
    BY <1>3, <2>2
<1>6. ASSUME NEW s \in saves, NEW at \in {"check", "server", "answered"}, NEW read \in SUBSET Texts, NEW fresh \in BOOLEAN,
             Drafts!Moves(s, SaveOf(s.n, at, s.base, s.content, read, fresh, s.here))
      PROVE  \A x \in saves' : Sound(x)
  <2>1. PICK q : q = SaveOf(s.n, at, s.base, s.content, read, fresh, s.here)
    OBVIOUS
  <2>2. SaveShape(s) /\ s.here \in BOOLEAN
    BY <1>0 DEF SaveShape
  <2>3. SaveShape(q) /\ (q.here => s.here)
    BY <1>6, <2>1, <2>2, SaveOfShapes
  <2>4. Drafts!Moves(s, q)
    BY <1>6, <2>1
  <2> QED
    BY <1>2, <2>3, <2>4
<1>7. CASE Drafts!CheckIsRead
  <2>1. PICK s \in saves : Drafts!Moves(s, [s EXCEPT !.read = {batches}])
    BY <1>7 DEF Drafts!CheckIsRead
  <2>2. Drafts!Moves(s, SaveOf(s.n, s.at, s.base, s.content, {batches}, s.fresh, s.here))
    BY <1>0, <2>1, SaveReplaced, Zenon
  <2>3. /\ s.at \in {"check", "server", "answered"} /\ s.fresh \in BOOLEAN /\ {batches} \in SUBSET Texts
    BY <1>0 DEF SaveShape, TextShape
  <2> QED
    BY <1>6, <2>2, <2>3
<1>8. CASE Drafts!WriteBegins
  <2>1. PICK s \in saves : \/ Drafts!Moves(s, [s EXCEPT !.at = "server"])
                          \/ Drafts!Moves(s, Sent(s, "server", FALSE))
    BY <1>8 DEF Drafts!WriteBegins, Sent
  <2>2. \/ Drafts!Moves(s, SaveOf(s.n, "server", s.base, s.content, s.read, s.fresh, s.here))
        \/ Drafts!Moves(s, SaveOf(s.n, "server", s.base, s.content, s.read, FALSE, s.here))
    BY <1>0, <2>1, SaveReplaced, SaveBecomes, Zenon
  <2>3. s.fresh \in BOOLEAN /\ s.read \in SUBSET Texts
    BY <1>0 DEF SaveShape
  <2>4. PICK fresh \in BOOLEAN : Drafts!Moves(s, SaveOf(s.n, "server", s.base, s.content, s.read, fresh, s.here))
    BY <2>2, <2>3, Zenon
  <2> QED
    BY <1>6, <2>3, <2>4
<1>9. CASE Drafts!Handled
  <2>1. PICK s \in saves : Drafts!Moves(s, [s EXCEPT !.at = "answered"])
    BY <1>9 DEF Drafts!Handled
  <2>2. Drafts!Moves(s, SaveOf(s.n, "answered", s.base, s.content, s.read, s.fresh, s.here))
    BY <1>0, <2>1, SaveReplaced, Zenon
  <2>3. s.fresh \in BOOLEAN /\ s.read \in SUBSET Texts
    BY <1>0 DEF SaveShape
  <2> QED
    BY <1>6, <2>2, <2>3
<1>10. CASE Drafts!Leaves
  <2>1. ASSUME NEW q \in saves' PROVE Sound(q)
    <3>1. PICK s \in saves : q = Left(s, FALSE)
      BY <1>10 DEF Drafts!Leaves, Left
    <3>2. PICK here \in BOOLEAN : here = FALSE
      OBVIOUS
    <3>3. q = SaveOf(s.n, s.at, s.base, s.content, s.read, s.fresh, here)
      BY <1>0, <3>1, <3>2, SaveBecomes, Zenon
    <3>4. /\ SaveShape(s) /\ s.at \in {"check", "server", "answered"} /\ s.fresh \in BOOLEAN /\ s.read \in SUBSET Texts
      BY <1>0 DEF SaveShape
    <3>5. SaveShape(q) /\ (q.here => here)
      BY <3>3, <3>4, SaveOfShapes
    <3> QED
      BY <3>2, <3>5
  <2> QED
    BY <2>1
<1>11. CASE Drafts!OtherSaves
  <2>1. ASSUME NEW q \in saves' PROVE Sound(q)
    <3>1. PICK s \in saves : q = [s EXCEPT !.fresh = s.fresh /\ s.at = "check" /\ s.read = {}]
      BY <1>11 DEF Drafts!OtherSaves
    <3>2. PICK fresh \in BOOLEAN : fresh = (s.fresh /\ s.at = "check" /\ s.read = {})
      OBVIOUS
    <3>3. q = SaveOf(s.n, s.at, s.base, s.content, s.read, fresh, s.here)
      <4>1. q = Unsure(s, fresh)
        BY <3>1, <3>2 DEF Unsure
      <4> QED
        BY <1>0, <4>1, SaveBecomes, Zenon
    <3>4. /\ SaveShape(s) /\ s.at \in {"check", "server", "answered"} /\ s.here \in BOOLEAN /\ s.read \in SUBSET Texts
      BY <1>0 DEF SaveShape
    <3>5. SaveShape(q) /\ (q.here => s.here)
      BY <3>3, <3>4, SaveOfShapes
    <3> QED
      BY <1>0, <3>5
  <2> QED
    BY <2>1
<1>12. CASE Drafts!FindsConflict \/ Drafts!WriteEnds \/ Drafts!WriteFails
  BY <1>1, <1>12 DEF Drafts!FindsConflict, Drafts!WriteEnds, Drafts!WriteFails
<1>13. CASE \/ Drafts!Load \/ Drafts!LoadIsRead \/ Drafts!LoadArrives \/ Drafts!LoadFails
            \/ Drafts!Types \/ Drafts!Discard \/ Drafts!Undo
            \/ Drafts!KeepEditing \/ Drafts!UseSaved \/ Drafts!ClosesDialog \/ UNCHANGED drafts
  <2>1. UNCHANGED saves
    <3>1. CASE Drafts!LoadArrives
      BY <3>1 DEF Drafts!LoadArrives
    <3> QED
      BY <1>13, <3>1 DEF Drafts!Load, Drafts!LoadIsRead, Drafts!LoadFails, Drafts!Types, Drafts!Discard,
                         Drafts!Undo, Drafts!KeepEditing, Drafts!UseSaved, Drafts!ClosesDialog, drafts
  <2> QED
    BY <1>1, <2>1
<1> QED
  BY <1>4, <1>5, <1>7, <1>8, <1>9, <1>10, <1>11, <1>12, <1>13 DEF Drafts!Next

(* The texts that are read, typed, seen and offered are texts.             *)
LEMMA TextShapeNext ==
    ASSUME DraftShapes, [Drafts!Next]_drafts
    PROVE  TextShape' /\ (conflict'.server # {} \/ undo' # {} => doc.base \in Texts)
<1>0. /\ \A s \in saves : SaveShape(s)
      /\ TextShape /\ DocShape /\ (conflict.server # {} \/ undo # {} => doc.base \in Texts)
      /\ \A s \in saves : s.here => doc.base \in Texts
      /\ conflict = [server |-> conflict.server, fresh |-> conflict.fresh]
  BY DEF DraftShapes, DraftsInv, SavesInv, KnownConflict, Shows
<1>1. UNCHANGED batches \/ batches' \in Texts
  <2>1. CASE Drafts!Handled
    BY <1>0, <2>1 DEF Drafts!Handled, SaveShape
  <2>2. CASE Drafts!OtherSaves
    BY <2>2 DEF Drafts!OtherSaves
  <2>3. CASE ~Drafts!Handled /\ ~Drafts!OtherSaves
    <3>1. CASE Drafts!LoadArrives
      BY <3>1 DEF Drafts!LoadArrives
    <3> QED
      BY <2>3, <3>1 DEF Drafts!Next, drafts, Drafts!Load, Drafts!LoadIsRead, Drafts!LoadFails, Drafts!Types, Drafts!Discard,
         Drafts!Undo, Drafts!Save, Drafts!CheckIsRead, Drafts!WriteBegins, Drafts!FindsConflict, Drafts!WriteEnds,
         Drafts!WriteFails, Drafts!KeepEditing, Drafts!UseSaved, Drafts!Overwrite, Drafts!ClosesDialog, Drafts!Leaves
  <2> QED
    BY <2>1, <2>2, <2>3
<1>2. batches' \in Texts
  BY <1>0, <1>1 DEF TextShape
<1>3. loads' \subseteq [n : 1..2, read : SUBSET Texts]
  <2>1. CASE Drafts!LoadIsRead
    <3>1. PICK l \in loads : loads' = (loads \ {l}) \cup {[l EXCEPT !.read = {batches}]}
      BY <2>1 DEF Drafts!LoadIsRead
    <3>2. l \in [n : 1..2, read : SUBSET Texts] /\ {batches} \in SUBSET Texts
      BY <1>0 DEF TextShape
    <3>3. [l EXCEPT !.read = {batches}] \in [n : 1..2, read : SUBSET Texts]
      BY <3>2
    <3> QED
      BY <1>0, <3>1, <3>3 DEF TextShape
  <2>2. CASE Drafts!Load
    <3>1. PICK n \in 1..2 : loads' = loads \cup {[n |-> n, read |-> {}]}
      BY <2>2 DEF Drafts!Load
    <3>2. [n |-> n, read |-> {}] \in [n : 1..2, read : SUBSET Texts]
      OBVIOUS
    <3> QED
      BY <1>0, <3>1, <3>2 DEF TextShape
  <2>3. CASE Drafts!LoadArrives \/ Drafts!LoadFails \/ Drafts!Leaves
    <3>1. loads' \subseteq loads
      BY <2>3 DEF Drafts!LoadArrives, Drafts!LoadFails, Drafts!Leaves
    <3> QED
      BY <1>0, <3>1 DEF TextShape
  <2>4. CASE ~(Drafts!LoadIsRead \/ Drafts!Load \/ Drafts!LoadArrives \/ Drafts!LoadFails \/ Drafts!Leaves)
    <3>1. UNCHANGED loads
      BY <2>4 DEF Drafts!Next, drafts, Drafts!Types, Drafts!Discard,
         Drafts!Undo, Drafts!Save, Drafts!CheckIsRead, Drafts!WriteBegins, Drafts!FindsConflict, Drafts!WriteEnds, Drafts!Handled,
         Drafts!WriteFails, Drafts!KeepEditing, Drafts!UseSaved, Drafts!Overwrite, Drafts!ClosesDialog, Drafts!OtherSaves
    <3> QED
      BY <1>0, <3>1 DEF TextShape
  <2> QED
    BY <2>1, <2>2, <2>3, <2>4
<1>4. typed' \subseteq Texts /\ seen' \subseteq Texts
  <2>1. CASE Drafts!LoadArrives
    <3>1. \E l \in loads : \E content \in l.read : seen' \subseteq seen \cup {content} /\ typed' \subseteq typed
      BY <2>1 DEF Drafts!LoadArrives
    <3> QED
      BY <1>0, <3>1 DEF TextShape
  <2>2. CASE Drafts!FindsConflict
    <3>1. \E s \in saves : \E text \in s.read : seen' \subseteq seen \cup {text} /\ typed' = typed
      BY <2>2 DEF Drafts!FindsConflict
    <3> QED
      BY <1>0, <3>1 DEF TextShape, SaveShape
  <2>3. CASE Drafts!Handled
    BY <1>0, <2>3 DEF Drafts!Handled, TextShape, SaveShape
  <2>4. CASE Drafts!Undo
    <3>1. \E v \in undo : typed' \subseteq typed \cup {v} /\ seen' = seen
      BY <2>4 DEF Drafts!Undo
    <3> QED
      BY <1>0, <3>1 DEF TextShape
  <2>5. CASE Drafts!Types
    BY <1>0, <2>5 DEF Drafts!Types, TextShape
  <2>6. CASE ~(Drafts!LoadArrives \/ Drafts!FindsConflict \/ Drafts!Handled \/ Drafts!Undo \/ Drafts!Types)
    <3>1. typed' \subseteq typed /\ seen' = seen
      BY <2>6 DEF Drafts!Next, drafts, Drafts!Load, Drafts!LoadIsRead, Drafts!LoadFails, Drafts!Discard,
         Drafts!Save, Drafts!CheckIsRead, Drafts!WriteBegins, Drafts!WriteEnds,
         Drafts!WriteFails, Drafts!KeepEditing, Drafts!UseSaved, Drafts!Overwrite, Drafts!ClosesDialog, Drafts!Leaves,
         Drafts!OtherSaves
    <3> QED
      BY <1>0, <3>1 DEF TextShape
  <2> QED
    BY <2>1, <2>2, <2>3, <2>4, <2>5, <2>6
(* The dialog and the toast offer texts of a page that loaded one.         *)
<1>5. undo' \subseteq Texts /\ (undo' # {} => doc.base \in Texts)
  <2>1. CASE Drafts!Discard
    BY <1>0, <2>1 DEF Drafts!Discard, DocShape
  <2>2. CASE Drafts!UseSaved
    BY <1>0, <2>2 DEF Drafts!UseSaved, DocShape
  <2>3. CASE ~(Drafts!Discard \/ Drafts!UseSaved)
    <3>1. undo' \subseteq undo
      <4>1. CASE Drafts!LoadArrives
        BY <4>1 DEF Drafts!LoadArrives
      <4> QED
        BY <2>3, <4>1 DEF Drafts!Next, drafts, Drafts!Load, Drafts!LoadIsRead, Drafts!LoadFails, Drafts!Types,
         Drafts!Undo, Drafts!Save, Drafts!CheckIsRead, Drafts!WriteBegins, Drafts!FindsConflict, Drafts!WriteEnds, Drafts!Handled,
         Drafts!WriteFails, Drafts!KeepEditing, Drafts!Overwrite, Drafts!ClosesDialog, Drafts!Leaves, Drafts!OtherSaves
    <3> QED
      BY <1>0, <3>1 DEF TextShape
  <2> QED
    BY <2>1, <2>2, <2>3
<1>6. conflict'.server \subseteq Texts /\ (conflict'.server # {} => doc.base \in Texts)
  <2>0. ASSUME conflict' = Drafts!NoConflict PROVE conflict'.server = {}
    BY <2>0 DEF Drafts!NoConflict
  <2>1. CASE Drafts!FindsConflict
    <3>1. PICK s \in saves : \E text \in s.read :
             \/ s.here /\ conflict' = [server |-> {text}, fresh |-> s.fresh]
             \/ conflict' = conflict
      BY <2>1 DEF Drafts!FindsConflict
    <3>2. CASE conflict' = conflict
      BY <1>0, <3>2 DEF TextShape
    <3>3. CASE conflict' # conflict
      <4>1. PICK text \in s.read : s.here /\ conflict' = [server |-> {text}, fresh |-> s.fresh]
        BY <3>1, <3>3
      <4>2. conflict'.server = {text} /\ text \in Texts
        BY <1>0, <4>1 DEF SaveShape
      <4> QED
        BY <1>0, <4>1, <4>2
    <3> QED
      BY <3>2, <3>3
  <2>2. CASE Drafts!OtherSaves
    <3>1. conflict'.server = conflict.server
      BY <1>0, <2>2 DEF Drafts!OtherSaves
    <3> QED
      BY <1>0, <3>1 DEF TextShape
  <2>3. CASE ~(Drafts!FindsConflict \/ Drafts!OtherSaves)
    <3>1. conflict' = conflict \/ conflict' = Drafts!NoConflict
      <4>1. CASE Drafts!LoadArrives
        BY <4>1 DEF Drafts!LoadArrives
      <4> QED
        BY <2>3, <4>1 DEF Drafts!Next, drafts, Drafts!Load, Drafts!LoadIsRead, Drafts!LoadFails, Drafts!Types, Drafts!Discard,
         Drafts!Undo, Drafts!Save, Drafts!CheckIsRead, Drafts!WriteBegins, Drafts!WriteEnds, Drafts!Handled,
         Drafts!WriteFails, Drafts!KeepEditing, Drafts!UseSaved, Drafts!Overwrite, Drafts!ClosesDialog, Drafts!Leaves
    <3> QED
      BY <1>0, <2>0, <3>1 DEF TextShape
  <2> QED
    BY <2>1, <2>2, <2>3
<1> QED
  BY <1>2, <1>3, <1>4, <1>5, <1>6 DEF TextShape

LEMMA CountShapeNext == CountShape /\ [Drafts!Next]_drafts => CountShape'
<1> SUFFICES ASSUME CountShape, [Drafts!Next]_drafts PROVE CountShape'
  OBVIOUS
<1>1. UNCHANGED others \/ (others < MaxOthers /\ others' = others + 1)
  <2>1. CASE Drafts!LoadArrives
    BY <2>1 DEF Drafts!LoadArrives
  <2> QED
    BY <2>1 DEF Drafts!Next, drafts, Drafts!Load, Drafts!LoadIsRead, Drafts!LoadFails, Drafts!Types, Drafts!Discard,
         Drafts!Undo, Drafts!Save, Drafts!CheckIsRead, Drafts!WriteBegins, Drafts!FindsConflict, Drafts!WriteEnds, Drafts!Handled,
         Drafts!WriteFails, Drafts!KeepEditing, Drafts!UseSaved, Drafts!Overwrite, Drafts!ClosesDialog, Drafts!Leaves,
         Drafts!OtherSaves
<1>2. UNCHANGED acts \/ (acts < MaxActs /\ acts' = acts + 1)
  <2>1. CASE Drafts!LoadArrives
    BY <2>1 DEF Drafts!LoadArrives
  <2> QED
    BY <2>1 DEF Drafts!Next, drafts, Drafts!Load, Drafts!LoadIsRead, Drafts!LoadFails, Drafts!Types, Drafts!Discard,
         Drafts!Undo, Drafts!Save, Drafts!CheckIsRead, Drafts!WriteBegins, Drafts!FindsConflict, Drafts!WriteEnds, Drafts!Handled,
         Drafts!WriteFails, Drafts!KeepEditing, Drafts!UseSaved, Drafts!Overwrite, Drafts!ClosesDialog, Drafts!Leaves,
         Drafts!OtherSaves, Drafts!Acts
<1> QED
  BY <1>1, <1>2, AppAssumption DEF Drafts!DraftsAssumption, CountShape

LEMMA DraftShapesNext == DraftShapes /\ [Drafts!Next]_drafts => DraftShapes'
<1> SUFFICES ASSUME DraftShapes, [Drafts!Next]_drafts PROVE DraftShapes'
  OBVIOUS
<1>1. DraftsInv'
  BY DocNext, SavesNext DEF DraftShapes, DraftsInv
<1>2. DocShape' /\ TextShape' /\ CountShape' /\ \A s \in saves' : SaveShape(s)
  BY DocShapeNext, TextShapeNext, CountShapeNext, SaveShapesNext DEF DraftShapes
<1>3. ASSUME Shows' PROVE doc'.base \in Texts
  <2>1. doc.base \in Texts
    BY <1>3, TextShapeNext, SaveShapesNext DEF Shows
  <2>2. ASSUME Drafts!Leaves PROVE FALSE
    <3>1. conflict' = [server |-> {}, fresh |-> TRUE] /\ undo' = {}
      BY <2>2 DEF Drafts!Leaves, Drafts!NoConflict
    <3>2. PICK q \in saves' : q.here
      BY <1>3, <3>1 DEF Shows
    <3>3. PICK s \in saves : q = Left(s, FALSE)
      BY <2>2 DEF Drafts!Leaves, Left
    <3>4. IsSave(s)
      BY DEF DraftShapes, DraftsInv, SavesInv, GoodSave
    <3>5. q = SaveOf(s.n, s.at, s.base, s.content, s.read, s.fresh, FALSE)
      BY <3>3, <3>4, SaveBecomes, Zenon
    <3> QED
      BY <3>2, <3>5 DEF SaveOf
  <2> QED
    BY <2>1, <2>2, DocShapeNext
<1> QED
  BY <1>1, <1>2, <1>3 DEF DraftShapes

LEMMA EditorShapes == AppSpec => []Drafts!TypeOK
<1>1. AppInit => DraftShapes
  BY DraftShapesStart DEF AppInit
<1>2. DraftShapes /\ [AppNext]_app => DraftShapes'
  BY DraftShapesNext, StepsOfParts
<1>3. DraftShapes => Drafts!TypeOK
  <2> SUFFICES ASSUME DraftShapes PROVE Drafts!TypeOK
    OBVIOUS
  <2>1. Cardinality(backup) <= 1
    <3>1. \A j, k \in backup : j = k
      BY DEF DraftShapes, DraftsInv, DocInv
    <3>2. CASE backup = {}
      BY <3>2, FS_EmptySet
    <3>3. CASE backup # {}
      <4>1. PICK k : backup = {k}
        BY <3>1, <3>3
      <4> QED
        BY <4>1, FS_Singleton
    <3> QED
      BY <3>2, <3>3
  <2>2. doc \in [status : {"closed", "loading", "ready", "error"},
                base : Texts \cup {NoText}, draft : Texts \cup {NoText}, saving : BOOLEAN]
    BY DEF DraftShapes, DraftsInv, DocInv, IsDoc, DocShape
  <2>3. saves \subseteq [n : 1..MaxSaves, at : {"check", "server", "answered"}, base : Texts, content : Texts,
                        read : SUBSET Texts, fresh : BOOLEAN, here : BOOLEAN]
    <3> SUFFICES ASSUME NEW s \in saves
                 PROVE  s \in [n : 1..MaxSaves, at : {"check", "server", "answered"}, base : Texts, content : Texts,
                               read : SUBSET Texts, fresh : BOOLEAN, here : BOOLEAN]
      OBVIOUS
    <3>1. IsSave(s) /\ SaveShape(s)
      BY DEF DraftShapes, DraftsInv, SavesInv, GoodSave
    <3> QED
      BY <3>1 DEF IsSave, SaveShape
  <2>4. conflict \in [server : SUBSET Texts, fresh : BOOLEAN]
    BY DEF DraftShapes, DraftsInv, SavesInv, KnownConflict, TextShape
  <2>5. doc.status = "ready" => doc.base \in Texts /\ doc.draft \in Texts
    BY DEF DraftShapes, DocShape
  <2>6. backup \subseteq [draft : Texts, base : Texts]
    BY DEF DraftShapes, DocShape
  <2>7. /\ batches \in Texts /\ loads \subseteq [n : 1..2, read : SUBSET Texts]
        /\ undo \subseteq Texts /\ typed \subseteq Texts /\ seen \subseteq Texts
    BY DEF DraftShapes, TextShape
  <2>8. others \in 0..MaxOthers /\ acts \in 0..MaxActs
    BY DEF DraftShapes, CountShape
  <2>9. Drafts!Cardinality(backup) = Cardinality(backup)
    BY Zenon DEF Drafts!Cardinality, Cardinality
  <2> QED
    BY <2>1, <2>2, <2>3, <2>4, <2>5, <2>6, <2>7, <2>8, <2>9 DEF Drafts!TypeOK
<1> QED
  BY <1>1, <1>2, <1>3, PTL DEF AppSpec

-----------------------------------------------------------------------------
(***************************************************************************)
(* Milestones: the list that is shown, and what the server saved.          *)
(***************************************************************************)
IsList(list) == list \in [DOMAIN list -> Stars!Milestone]

IsAction(j) ==
    /\ j = [id |-> j.id, kind |-> j.kind, many |-> j.many, label |-> j.label, of |-> j.of,
            answers |-> j.answers]
    /\ j.kind \in {"favorite", "edit", "remove"}
    /\ j.kind = "edit" => j.label \in Labels
    /\ j.kind = "favorite" => ~j.many /\ \E m : DOMAIN j.of = {m}
    /\ IsList(j.of)
    /\ \A m \in DOMAIN j.answers : j.answers[m] \subseteq Stars!Milestone

(* An action that will ask for the list again when it ends.                *)
AsksAgain(j) == j.kind # "favorite" /\ (j.many \/ Stars!Answered(j) # {})

(* A favorite under way: shown as it will be, saved as it was or will be.  *)
Toggled(j, m, sh, sv) ==
    /\ sh[m].favorite = ~j.of[m].favorite
    /\ sv[m].favorite = IF m \in Stars!Answered(j) THEN ~j.of[m].favorite ELSE j.of[m].favorite

Favorites(js) == {j \in js : j.kind = "favorite"}

Agrees(sh, sv, js) ==
    /\ DOMAIN sh = DOMAIN sv
    /\ \A m \in DOMAIN sv : sh[m].label = sv[m].label
    /\ \A m \in DOMAIN sv : (\A j \in Favorites(js) : m \notin DOMAIN j.of)
                                => sh[m].favorite = sv[m].favorite
    /\ \A j \in Favorites(js) :
          DOMAIN j.of \subseteq DOMAIN sh /\ \A m \in DOMAIN j.of : Toggled(j, m, sh, sv)
    /\ \A i, j \in Favorites(js) : DOMAIN i.of \cap DOMAIN j.of # {} => i = j

(* Either an action, or a reading of the list that is under way, will put  *)
(* it right; or it is right but for the favorites under way.               *)
Right(sh, sv, js, on, read) ==
    \/ \E j \in js : AsksAgain(j)
    \/ on /\ Favorites(js) = {} /\ read \subseteq {sv}
    \/ ~on /\ Agrees(sh, sv, js)

StarTypes ==
    /\ IsList(saved) /\ IsList(shown)
    /\ \A j \in jobs : IsAction(j)
    /\ refetch = [on |-> refetch.on, read |-> refetch.read] /\ refetch.on \in BOOLEAN
    /\ \A list \in refetch.read : IsList(list)

StarsInv ==
    /\ StarTypes
    /\ orderly => /\ refetch.on => Favorites(jobs) = {}
                  /\ Right(shown, saved, jobs, refetch.on, refetch.read)

LEMMA StarsStart == Stars!Init => StarsInv
<1> SUFFICES ASSUME Stars!Init PROVE StarsInv
  OBVIOUS
<1>1. IsList(saved)
  <2>1. PICK l \in Labels : saved = [m \in Ids |-> [favorite |-> FALSE, label |-> l]]
    BY DEF Stars!Init
  <2>2. [favorite |-> FALSE, label |-> l] \in Stars!Milestone
    BY DEF Stars!Milestone
  <2> QED
    BY <2>1, <2>2 DEF IsList
<1>2. shown = saved /\ jobs = {} /\ refetch = [on |-> FALSE, read |-> {}] /\ ~refetch.on
  BY DEF Stars!Init, Stars!Quiet
<1>3. Agrees(shown, saved, jobs)
  BY <1>2 DEF Agrees, Favorites
<1> QED
  BY <1>1, <1>2, <1>3 DEF StarsInv, StarTypes, Right

LEMMA SameMilestone ==
    ASSUME NEW x \in Stars!Milestone, NEW y \in Stars!Milestone, x.favorite = y.favorite, x.label = y.label
    PROVE  x = y
BY DEF Stars!Milestone

LEMMA MilestoneChanged ==
    ASSUME NEW x \in Stars!Milestone
    PROVE  /\ x.favorite \in BOOLEAN /\ x.label \in Labels
           /\ \A v \in BOOLEAN : /\ [x EXCEPT !.favorite = v] \in Stars!Milestone
                                 /\ [x EXCEPT !.favorite = v].favorite = v
                                 /\ [x EXCEPT !.favorite = v].label = x.label
           /\ \A l \in Labels : /\ [x EXCEPT !.label = l] \in Stars!Milestone
                                /\ [x EXCEPT !.label = l].label = l
                                /\ [x EXCEPT !.label = l].favorite = x.favorite
BY DEF Stars!Milestone

LEMMA ListWith ==
    ASSUME NEW list, IsList(list), NEW m \in DOMAIN list, NEW x \in Stars!Milestone,
           NEW r, r = Stars!With(list, m, x)
    PROVE  /\ IsList(r) /\ DOMAIN r = DOMAIN list /\ r[m] = x
           /\ \A i \in DOMAIN list : i # m => r[i] = list[i]
BY DEF Stars!With, IsList

LEMMA ListWithout ==
    ASSUME NEW list, IsList(list), NEW S, NEW r, r = Stars!Restrict(list, DOMAIN list \ S)
    PROVE  IsList(r) /\ (S \cap DOMAIN list = {} => r = list)
BY DEF Stars!Restrict, IsList

LEMMA ActionHandled ==
    ASSUME NEW j, IsAction(j), NEW m \in DOMAIN j.of \ DOMAIN j.answers, NEW a \in SUBSET Stars!Milestone,
           NEW r, r = [j EXCEPT !.answers = Stars!With(@, m, a)]
    PROVE  /\ IsAction(r) /\ r.kind = j.kind /\ r.many = j.many /\ r.of = j.of
           /\ Stars!Answered(r) = IF a = {} THEN Stars!Answered(j) ELSE Stars!Answered(j) \cup {m}
<1>1. PICK w : w = Stars!With(j.answers, m, a)
  OBVIOUS
<1>2. r = [j EXCEPT !.answers = w]
  BY <1>1
<1>3. PICK k, t, o, i, l, s : j = [id |-> i, kind |-> k, many |-> t, label |-> l, of |-> o, answers |-> s]
  BY DEF IsAction
<1>4. r = [id |-> i, kind |-> k, many |-> t, label |-> l, of |-> o, answers |-> w]
  BY <1>2, <1>3
<1>5. /\ DOMAIN w = DOMAIN j.answers \cup {m} /\ w[m] = a
      /\ \A n \in DOMAIN j.answers : n # m => w[n] = j.answers[n]
  BY <1>1 DEF Stars!With
<1>6. r.kind = j.kind /\ r.of = j.of /\ r.label = j.label /\ r.answers = w /\ r.id = i /\ r.many = t
  BY <1>3, <1>4
<1>7. IsAction(r)
  BY <1>3, <1>4, <1>5, <1>6 DEF IsAction
<1>8. Stars!Answered(r) = IF a = {} THEN Stars!Answered(j) ELSE Stars!Answered(j) \cup {m}
  BY <1>5, <1>6 DEF Stars!Answered
<1> QED
  BY <1>6, <1>7, <1>8

LEMMA ToggleKeeps ==
    ASSUME StarsInv, NEW m \in Ids, Stars!ToggleFavorite(m)
    PROVE  StarsInv'
<1>1. PICK r : r = [id |-> done + 1, kind |-> "favorite", many |-> FALSE, label |-> shown[m].label,
                    of |-> Stars!Restrict(shown, {m}), answers |-> Stars!Empty]
  OBVIOUS
<1>2. /\ m \in DOMAIN shown /\ jobs' = jobs \cup {r}
      /\ shown' = Stars!Starred(shown, m, ~shown[m].favorite)
      /\ orderly' = (orderly /\ ~refetch.on /\ \A j \in jobs : m \notin DOMAIN j.of)
      /\ UNCHANGED <<saved, refetch>>
  BY <1>1 DEF Stars!ToggleFavorite, Stars!Begin
<1>3. IsList(shown) /\ shown[m] \in Stars!Milestone
  BY <1>2 DEF StarsInv, StarTypes, IsList
<1>4. DOMAIN r.of = {m} /\ r.of[m] = shown[m] /\ r.kind = "favorite" /\ IsList(r.of)
  BY <1>1, <1>3 DEF Stars!Restrict, IsList
<1>5. DOMAIN r.answers = {} /\ Stars!Answered(r) = {}
  BY <1>1 DEF Stars!Empty, Stars!Answered
<1>6. IsAction(r)
  BY <1>1, <1>4, <1>5 DEF IsAction
<1>7. PICK x : x = [shown[m] EXCEPT !.favorite = ~shown[m].favorite]
  OBVIOUS
<1>8. x \in Stars!Milestone /\ x.favorite = ~shown[m].favorite /\ x.label = shown[m].label
  <2>1. (~shown[m].favorite) \in BOOLEAN
    OBVIOUS
  <2> QED
    BY <1>3, <1>7, <2>1, MilestoneChanged
<1>9. shown' = Stars!With(shown, m, x)
  BY <1>2, <1>7 DEF Stars!Starred
<1>10. /\ IsList(shown') /\ DOMAIN shown' = DOMAIN shown /\ shown'[m] = x
       /\ \A i \in DOMAIN shown : i # m => shown'[i] = shown[i]
  BY <1>2, <1>3, <1>8, <1>9, ListWith
<1>11. StarTypes'
  BY <1>2, <1>6, <1>10 DEF StarsInv, StarTypes
<1>12. ASSUME orderly' PROVE (\E j \in jobs : AsksAgain(j)) \/ Agrees(shown, saved, jobs)
  BY <1>2, <1>12 DEF StarsInv, Right
<1>13. ASSUME orderly', Agrees(shown, saved, jobs) PROVE Agrees(shown', saved', jobs')
  <2>1. \A j \in jobs : m \notin DOMAIN j.of
    BY <1>2, <1>13
  <2>2. Favorites(jobs') = Favorites(jobs) \cup {r}
    BY <1>2, <1>4 DEF Favorites
  <2>3. Favorites(jobs) \subseteq jobs
    BY DEF Favorites
  <2>4. Toggled(r, m, shown', saved')
    <3>1. saved[m].favorite = shown[m].favorite
      BY <1>2, <1>13, <2>1, <2>3 DEF Agrees
    <3> QED
      BY <1>2, <1>4, <1>5, <1>8, <1>10, <3>1 DEF Toggled
  <2>5. ASSUME NEW j \in Favorites(jobs), NEW n \in DOMAIN j.of PROVE Toggled(j, n, shown', saved')
    <3>1. n # m /\ n \in DOMAIN shown /\ Toggled(j, n, shown, saved)
      BY <1>13, <2>1, <2>3, <2>5 DEF Agrees
    <3> QED
      BY <1>2, <1>10, <3>1 DEF Toggled
  <2>6. \A n \in DOMAIN saved : shown'[n].label = saved[n].label
    BY <1>8, <1>10, <1>13 DEF Agrees
  <2>7. ASSUME NEW n \in DOMAIN saved, \A j \in Favorites(jobs') : n \notin DOMAIN j.of
        PROVE  shown'[n].favorite = saved[n].favorite
    <3>1. n # m /\ \A j \in Favorites(jobs) : n \notin DOMAIN j.of
      BY <1>4, <2>2, <2>7
    <3>2. shown'[n] = shown[n]
      BY <1>10, <1>13, <3>1 DEF Agrees
    <3> QED
      BY <1>13, <3>1, <3>2 DEF Agrees
  <2>8. ASSUME NEW i \in Favorites(jobs'), NEW j \in Favorites(jobs'), DOMAIN i.of \cap DOMAIN j.of # {}
        PROVE  i = j
    <3>1. CASE i = r \/ j = r
      BY <1>4, <2>1, <2>2, <2>3, <2>8, <3>1
    <3>2. CASE i \in Favorites(jobs) /\ j \in Favorites(jobs)
      BY <1>13, <2>8, <3>2 DEF Agrees
    <3> QED
      BY <2>2, <3>1, <3>2
  <2>9. \A j \in Favorites(jobs') : DOMAIN j.of \subseteq DOMAIN shown'
    BY <1>2, <1>4, <1>10, <1>13, <2>2 DEF Agrees
  <2>10. DOMAIN shown' = DOMAIN saved' /\ saved' = saved
    BY <1>2, <1>10, <1>13 DEF Agrees
  <2>11. \A j \in Favorites(jobs') : \A n \in DOMAIN j.of : Toggled(j, n, shown', saved')
    BY <1>4, <2>2, <2>4, <2>5
  <2> HIDE DEF Agrees
  <2> QED
    BY <2>6, <2>7, <2>8, <2>9, <2>10, <2>11 DEF Agrees
<1>14. orderly' => ~refetch'.on
  BY <1>2
<1>15. orderly' => Right(shown', saved', jobs', refetch'.on, refetch'.read)
  BY <1>2, <1>12, <1>13, <1>14 DEF Right
<1> QED
  BY <1>11, <1>14, <1>15 DEF StarsInv

LEMMA SameFavorites ==
    ASSUME NEW sh, NEW sv, NEW js, NEW ks, Favorites(js) = Favorites(ks), Agrees(sh, sv, js)
    PROVE  Agrees(sh, sv, ks)
BY DEF Agrees

LEMMA BeginKeeps ==
    ASSUME StarsInv, NEW ms \in SUBSET DOMAIN shown, NEW kind \in {"edit", "remove"}, NEW l, NEW many,
           kind = "edit" => l \in Labels, Stars!Begin(kind, ms, l, many),
           UNCHANGED <<saved, shown, refetch, orderly>>
    PROVE  StarsInv'
<1>1. PICK r : r = [id |-> done + 1, kind |-> kind, many |-> many, label |-> l,
                    of |-> Stars!Restrict(shown, ms), answers |-> Stars!Empty]
  OBVIOUS
<1>2. jobs' = jobs \cup {r}
  BY <1>1 DEF Stars!Begin
<1>3. r.kind = kind /\ r.label = l /\ IsList(r.of)
  BY <1>1 DEF Stars!Restrict, IsList, StarsInv, StarTypes
<1>4. DOMAIN r.answers = {} /\ Stars!Answered(r) = {}
  BY <1>1 DEF Stars!Empty, Stars!Answered
<1>5. IsAction(r)
  BY <1>1, <1>3, <1>4 DEF IsAction
<1>6. StarTypes'
  BY <1>2, <1>5 DEF StarsInv, StarTypes
<1>7. Favorites(jobs') = Favorites(jobs)
  BY <1>2, <1>3 DEF Favorites
<1>8. ASSUME Right(shown, saved, jobs, refetch.on, refetch.read)
      PROVE  Right(shown', saved', jobs', refetch'.on, refetch'.read)
  <2>1. CASE \E j \in jobs : AsksAgain(j)
    BY <1>2, <2>1 DEF Right
  <2>2. CASE refetch.on /\ Favorites(jobs) = {} /\ refetch.read \subseteq {saved}
    BY <1>7, <2>2 DEF Right
  <2>3. CASE ~refetch.on /\ Agrees(shown, saved, jobs)
    <3>1. Agrees(shown', saved', jobs')
      BY <1>7, <2>3, SameFavorites
    <3> QED
      BY <2>3, <3>1 DEF Right
  <2> QED
    BY <1>8, <2>1, <2>2, <2>3 DEF Right
<1> QED
  BY <1>6, <1>7, <1>8 DEF StarsInv

(* A request of a favorite, handled or refused: the other favorites are of *)
(* other milestones.                                                       *)
LEMMA FavoriteHandled ==
    ASSUME NEW sh, NEW sv, NEW w, NEW js, Agrees(sh, sv, js),
           NEW j \in js, NEW r, j.kind = "favorite", r.kind = "favorite", r.of = j.of,
           NEW m \in DOMAIN j.of, DOMAIN w = DOMAIN sv,
           \A n \in DOMAIN sv : n # m => w[n] = sv[n],
           m \in DOMAIN sv => w[m].label = sv[m].label,
           \A n : n # m => (n \in Stars!Answered(r) <=> n \in Stars!Answered(j)),
           w[m].favorite = IF m \in Stars!Answered(r) THEN ~j.of[m].favorite ELSE j.of[m].favorite
    PROVE  Agrees(sh, w, (js \ {j}) \cup {r})
<1>1. PICK ks : ks = (js \ {j}) \cup {r}
  OBVIOUS
<1>2. Favorites(ks) = (Favorites(js) \ {j}) \cup {r} /\ j \in Favorites(js)
  BY <1>1 DEF Favorites
<1>3. ASSUME NEW i \in Favorites(js), DOMAIN i.of \cap DOMAIN j.of # {} PROVE i = j
  BY <1>2, <1>3 DEF Agrees
<1>4. DOMAIN sh = DOMAIN w
  BY DEF Agrees
<1>5. ASSUME NEW n \in DOMAIN w PROVE sh[n].label = w[n].label
  BY DEF Agrees
<1>6. ASSUME NEW n \in DOMAIN w, \A i \in Favorites(ks) : n \notin DOMAIN i.of
      PROVE  sh[n].favorite = w[n].favorite
  <2>1. n # m /\ \A i \in Favorites(js) : n \notin DOMAIN i.of
    BY <1>2, <1>6
  <2> QED
    BY <1>6, <2>1 DEF Agrees
<1>7. ASSUME NEW i \in Favorites(ks) PROVE DOMAIN i.of \subseteq DOMAIN sh
  BY <1>2 DEF Agrees
<1>8. ASSUME NEW i \in Favorites(ks), NEW n \in DOMAIN i.of PROVE Toggled(i, n, sh, w)
  <2>1. CASE i = r /\ n = m
    <3>1. Toggled(j, m, sh, sv)
      BY <1>2 DEF Agrees
    <3> QED
      BY <2>1, <3>1 DEF Toggled
  <2>2. CASE i = r /\ n # m
    <3>1. Toggled(j, n, sh, sv) /\ n \in DOMAIN sv
      BY <1>2, <1>8, <2>2 DEF Agrees
    <3> QED
      BY <2>2, <3>1 DEF Toggled
  <2>3. CASE i # r
    <3>1. i \in Favorites(js) /\ i # j
      BY <1>2, <2>3
    <3>2. n # m
      BY <1>3, <1>8, <3>1
    <3>3. Toggled(i, n, sh, sv) /\ n \in DOMAIN sv
      BY <1>8, <3>1 DEF Agrees
    <3> QED
      BY <3>2, <3>3 DEF Toggled
  <2> QED
    BY <2>1, <2>2, <2>3
<1>9. ASSUME NEW i \in Favorites(ks), NEW k \in Favorites(ks), DOMAIN i.of \cap DOMAIN k.of # {}
      PROVE  i = k
  <2>1. CASE i = r \/ k = r
    BY <1>2, <1>3, <1>9, <2>1
  <2>2. CASE i # r /\ k # r
    BY <1>2, <1>9, <2>2 DEF Agrees
  <2> QED
    BY <2>1, <2>2
<1>10. Agrees(sh, w, ks)
  BY <1>4, <1>5, <1>6, <1>7, <1>8, <1>9 DEF Agrees
<1> QED
  BY <1>1, <1>10

(* What a request does to the row.                                         *)
LEMMA RowSaved ==
    ASSUME NEW j, IsAction(j), NEW m \in DOMAIN j.of, IsList(saved), Stars!Saves(j, m)
    PROVE  /\ IsList(saved')
           /\ (IF j.kind = "remove" THEN saved[m] ELSE saved'[m]) \in Stars!Milestone
           /\ j.kind = "favorite" =>
                 /\ DOMAIN saved' = DOMAIN saved /\ m \in DOMAIN saved
                 /\ \A n \in DOMAIN saved : n # m => saved'[n] = saved[n]
                 /\ saved'[m].label = saved[m].label /\ saved'[m].favorite = ~j.of[m].favorite
<1>1. /\ m \in DOMAIN saved
      /\ saved' = CASE j.kind = "favorite" -> Stars!Starred(saved, m, ~j.of[m].favorite)
                    [] j.kind = "edit" -> Stars!With(saved, m, [saved[m] EXCEPT !.label = j.label])
                    [] j.kind = "remove" -> Stars!Restrict(saved, DOMAIN saved \ {m})
  BY Zenon DEF Stars!Saves
<1>2. saved[m] \in Stars!Milestone /\ j.of[m] \in Stars!Milestone
  BY <1>1 DEF IsList, IsAction
<1>3. CASE j.kind = "favorite"
  <2>1. PICK v \in BOOLEAN : v = ~j.of[m].favorite
    OBVIOUS
  <2>2. PICK x : x = [saved[m] EXCEPT !.favorite = v]
    OBVIOUS
  <2>3. x \in Stars!Milestone /\ x.favorite = v /\ x.label = saved[m].label
    BY <1>2, <2>2, MilestoneChanged
  <2>4. PICK w : w = Stars!With(saved, m, x)
    OBVIOUS
  <2>5. saved' = w
    BY <1>1, <1>3, <2>1, <2>2, <2>4 DEF Stars!Starred
  <2>6. /\ IsList(w) /\ DOMAIN w = DOMAIN saved /\ w[m] = x
        /\ \A n \in DOMAIN saved : n # m => w[n] = saved[n]
    BY <1>1, <2>3, <2>4, ListWith
  <2> QED
    BY <1>1, <1>3, <2>1, <2>3, <2>5, <2>6
<1>4. CASE j.kind = "edit"
  <2>1. PICK x : x = [saved[m] EXCEPT !.label = j.label]
    OBVIOUS
  <2>2. x \in Stars!Milestone
    BY <1>2, <1>4, <2>1, MilestoneChanged DEF IsAction
  <2>3. PICK w : w = Stars!With(saved, m, x)
    OBVIOUS
  <2>4. saved' = w
    BY <1>1, <1>4, <2>1, <2>3
  <2>5. IsList(w) /\ w[m] = x
    BY <1>1, <2>2, <2>3, ListWith
  <2> QED
    BY <1>4, <2>2, <2>4, <2>5
<1>5. CASE j.kind = "remove"
  <2>1. IsList(saved')
    BY <1>1, <1>5, ListWithout
  <2> QED
    BY <1>2, <1>5, <2>1
<1> QED
  BY <1>3, <1>4, <1>5 DEF IsAction

LEMMA HandleKeeps ==
    ASSUME StarsInv, NEW j \in jobs, NEW m \in DOMAIN j.of, Stars!Handle(j, m)
    PROVE  StarsInv'
<1>0. IsAction(j) /\ m \in DOMAIN j.of \ DOMAIN j.answers /\ IsList(saved) /\ IsList(j.of)
  BY DEF StarsInv, StarTypes, IsAction, Stars!Handle
<1>1. UNCHANGED <<shown, refetch>>
  BY DEF Stars!Handle
(* Handled and answered; handled but the answer is lost; or refused.       *)
<1>2. \E a \in SUBSET Stars!Milestone :
        /\ jobs' = (jobs \ {j}) \cup {[j EXCEPT !.answers = Stars!With(@, m, a)]}
        /\ IsList(saved')
        /\ \/ a # {} /\ UNCHANGED orderly /\ Stars!Saves(j, m)
           \/ a = {} /\ (orderly' => orderly /\ j.many)
           \/ a = {} /\ UNCHANGED <<saved, orderly>>
  <2>1. CASE Stars!Answers(j, m, {}) /\ UNCHANGED <<saved, orderly>>
    BY <1>0, <2>1 DEF Stars!Answers
  <2>2. CASE Stars!Saves(j, m) /\ Stars!Answers(j, m, {}) /\ orderly' = (orderly /\ j.many)
    <3>1. IsList(saved')
      BY <1>0, <2>2, RowSaved
    <3> QED
      BY <2>2, <3>1, Zenon DEF Stars!Answers
  <2>3. CASE /\ Stars!Saves(j, m) /\ UNCHANGED orderly
             /\ Stars!Answers(j, m, {IF j.kind = "remove" THEN saved[m] ELSE saved'[m]})
    <3>1. PICK x : x = IF j.kind = "remove" THEN saved[m] ELSE saved'[m]
      OBVIOUS
    <3>2. IsList(saved') /\ x \in Stars!Milestone
      BY <1>0, <2>3, <3>1, RowSaved
    <3>3. PICK a : a = {x}
      OBVIOUS
    <3>4. a \in SUBSET Stars!Milestone /\ a # {}
      BY <3>2, <3>3
    <3>5. jobs' = (jobs \ {j}) \cup {[j EXCEPT !.answers = Stars!With(@, m, a)]}
      BY <2>3, <3>1, <3>3, Zenon DEF Stars!Answers
    <3> QED
      BY <2>3, <3>2, <3>4, <3>5
  <2> QED
    BY <2>1, <2>2, <2>3, Zenon DEF Stars!Handle
<1>3. PICK a \in SUBSET Stars!Milestone :
        /\ jobs' = (jobs \ {j}) \cup {[j EXCEPT !.answers = Stars!With(@, m, a)]}
        /\ IsList(saved')
        /\ \/ a # {} /\ UNCHANGED orderly /\ Stars!Saves(j, m)
           \/ a = {} /\ (orderly' => orderly /\ j.many)
           \/ a = {} /\ UNCHANGED <<saved, orderly>>
  BY <1>2
<1>4. PICK r : r = [j EXCEPT !.answers = Stars!With(@, m, a)]
  OBVIOUS
<1>5. /\ IsAction(r) /\ r.kind = j.kind /\ r.many = j.many /\ r.of = j.of
      /\ Stars!Answered(r) = IF a = {} THEN Stars!Answered(j) ELSE Stars!Answered(j) \cup {m}
  BY <1>0, <1>4, ActionHandled
<1>6. jobs' = (jobs \ {j}) \cup {r}
  BY <1>3, <1>4
<1>7. StarTypes'
  BY <1>1, <1>3, <1>5, <1>6 DEF StarsInv, StarTypes
<1>8. m \notin Stars!Answered(j)
  BY <1>0 DEF Stars!Answered
<1>9. refetch.on /\ Favorites(jobs) = {} => Favorites(jobs') = {}
  BY <1>5, <1>6 DEF Favorites
<1>10. (\E i \in jobs : AsksAgain(i)) => \E i \in jobs' : AsksAgain(i)
  BY <1>5, <1>6 DEF AsksAgain
<1>11. ASSUME Right(shown, saved, jobs, refetch.on, refetch.read), orderly',
              refetch.on => Favorites(jobs) = {}
       PROVE  Right(shown', saved', jobs', refetch'.on, refetch'.read)
  <2>1. CASE \E i \in jobs : AsksAgain(i)
    BY <1>10, <2>1 DEF Right
  <2>2. CASE j.kind # "favorite" /\ (j.many \/ a # {})
    <3>1. AsksAgain(r) /\ r \in jobs'
      BY <1>5, <1>6, <2>2 DEF AsksAgain
    <3> QED
      BY <3>1 DEF Right
  <2>3. a = {} /\ saved' # saved => j.many
    BY <1>3, <1>11
  <2>4. CASE j.kind # "favorite" /\ ~j.many /\ a = {}
    <3>1. Favorites(jobs) = Favorites(jobs') /\ saved' = saved
      BY <1>5, <1>6, <2>3, <2>4 DEF Favorites
    <3>2. CASE refetch.on /\ refetch.read \subseteq {saved}
      BY <1>1, <1>9, <1>11, <3>1, <3>2 DEF Right
    <3>3. CASE ~refetch.on /\ Agrees(shown, saved, jobs)
      <4>1. Agrees(shown', saved', jobs')
        BY <1>1, <3>1, <3>3, SameFavorites
      <4> QED
        BY <1>1, <3>3, <4>1 DEF Right
    <3> QED
      BY <1>11, <2>1, <3>2, <3>3 DEF Right
  <2>5. CASE ~refetch.on /\ Agrees(shown, saved, jobs) /\ j.kind = "favorite"
    <3>1. Toggled(j, m, shown, saved) /\ m \in DOMAIN saved
      BY <2>5 DEF Agrees, Favorites
    <3>0. ~j.many
      BY <1>0, <2>5 DEF IsAction
    <3>2. \/ a = {} /\ saved' = saved
          \/ /\ a # {} /\ DOMAIN saved' = DOMAIN saved
             /\ \A n \in DOMAIN saved : n # m => saved'[n] = saved[n]
             /\ saved'[m].label = saved[m].label /\ saved'[m].favorite = ~j.of[m].favorite
      <4>1. CASE a = {}
        BY <2>3, <3>0, <4>1
      <4>2. CASE a # {}
        <5>1. Stars!Saves(j, m)
          BY <1>3, <4>2
        <5> QED
          BY <1>0, <2>5, <4>2, <5>1, RowSaved
      <4> QED
        BY <4>1, <4>2
    <3>3. \A n : n # m => (n \in Stars!Answered(r) <=> n \in Stars!Answered(j))
      BY <1>5
    <3>4. saved'[m].favorite = IF m \in Stars!Answered(r) THEN ~j.of[m].favorite ELSE j.of[m].favorite
      <4>1. CASE a = {}
        BY <1>5, <3>1, <3>2, <4>1 DEF Toggled
      <4>2. CASE a # {}
        BY <1>5, <3>2, <4>2
      <4> QED
        BY <4>1, <4>2
    <3>5. PICK w : w = saved'
      OBVIOUS
    <3>6. Agrees(shown, w, (jobs \ {j}) \cup {r})
      BY <1>5, <2>5, <3>2, <3>3, <3>4, <3>5, FavoriteHandled
    <3>7. Agrees(shown', saved', jobs')
      BY <1>1, <1>6, <3>5, <3>6
    <3> QED
      BY <1>1, <2>5, <3>7 DEF Right
  <2>6. CASE refetch.on /\ Favorites(jobs) = {} /\ j.kind = "favorite"
    BY <2>6 DEF Favorites
  <2> QED
    BY <1>11, <2>1, <2>2, <2>4, <2>5, <2>6 DEF Right
<1>12. orderly' => orderly
  BY <1>3
<1> QED
  BY <1>1, <1>7, <1>9, <1>11, <1>12 DEF StarsInv

(* The answers of an action under way: the list is asked again, or nothing *)
(* was saved, and only a refused favorite changes what is shown.           *)
LEMMA RefreshRights ==
    ASSUME StarsInv, Stars!Refresh, NEW js, js \subseteq jobs
    PROVE  orderly' => /\ Favorites(js) = {}
                       /\ \A sh, sv : Right(sh, sv, js, refetch'.on, refetch'.read)
<1>1. refetch' = [on |-> TRUE, read |-> {}]
  BY DEF Stars!Refresh
<1>2. refetch'.on /\ refetch'.read = {}
  BY <1>1
<1>3. orderly' => Favorites(js) = {}
  BY DEF Stars!Refresh, Favorites
<1> QED
  BY <1>2, <1>3 DEF Right

LEMMA FavoriteEnds ==
    ASSUME NEW sh, NEW sv, NEW w, NEW js, NEW j \in js, j.kind = "favorite", Agrees(sh, sv, js),
           DOMAIN w = DOMAIN sh,
           \A n \in DOMAIN sh : n \notin DOMAIN j.of => w[n] = sh[n],
           \A n \in DOMAIN j.of : w[n].label = sh[n].label /\ w[n].favorite = sv[n].favorite
    PROVE  Agrees(w, sv, js \ {j})
<1>1. PICK ks : ks = js \ {j}
  OBVIOUS
<1>2. Favorites(ks) = Favorites(js) \ {j} /\ j \in Favorites(js)
  BY <1>1 DEF Favorites
<1>3. ASSUME NEW i \in Favorites(ks), NEW n \in DOMAIN i.of PROVE n \notin DOMAIN j.of /\ n \in DOMAIN sh
  BY <1>2, <1>3 DEF Agrees
<1>4. DOMAIN w = DOMAIN sv
  BY DEF Agrees
<1>5. ASSUME NEW n \in DOMAIN sv PROVE w[n].label = sv[n].label
  <2>1. sh[n].label = sv[n].label /\ n \in DOMAIN sh
    BY DEF Agrees
  <2> QED
    BY <2>1
<1>6. ASSUME NEW n \in DOMAIN sv, \A i \in Favorites(ks) : n \notin DOMAIN i.of
      PROVE  w[n].favorite = sv[n].favorite
  <2>1. CASE n \in DOMAIN j.of
    BY <2>1
  <2>2. CASE n \notin DOMAIN j.of
    <3>1. \A i \in Favorites(js) : n \notin DOMAIN i.of
      BY <1>2, <1>6, <2>2
    <3>2. sh[n].favorite = sv[n].favorite /\ n \in DOMAIN sh
      BY <3>1 DEF Agrees
    <3> QED
      BY <2>2, <3>2
  <2> QED
    BY <2>1, <2>2
<1>7. ASSUME NEW i \in Favorites(ks), NEW n \in DOMAIN i.of PROVE Toggled(i, n, w, sv)
  <2>1. Toggled(i, n, sh, sv)
    BY <1>2 DEF Agrees
  <2> QED
    BY <1>3, <2>1 DEF Toggled
<1>8. \A i \in Favorites(ks) : DOMAIN i.of \subseteq DOMAIN w
  BY <1>3
<1>9. \A i, k \in Favorites(ks) : DOMAIN i.of \cap DOMAIN k.of # {} => i = k
  BY <1>2 DEF Agrees
<1>10. Agrees(w, sv, ks)
  BY <1>4, <1>5, <1>6, <1>7, <1>8, <1>9 DEF Agrees
<1> QED
  BY <1>1, <1>10

LEMMA FavoriteAnsweredKeeps ==
    ASSUME StarsInv, NEW j \in jobs, Stars!FavoriteAnswered(j), jobs' = jobs \ {j}, UNCHANGED saved
    PROVE  StarsInv'
<1>0. /\ IsAction(j) /\ IsList(j.of) /\ IsList(shown) /\ j.kind = "favorite"
      /\ DOMAIN j.answers = DOMAIN j.of /\ UNCHANGED <<refetch, orderly>>
  BY DEF StarsInv, StarTypes, IsAction, Stars!FavoriteAnswered, Stars!All
<1>1. PICK m : DOMAIN j.of = {m}
  BY <1>0 DEF IsAction
<1>2. PICK v \in BOOLEAN : v = j.of[m].favorite
  BY <1>0, <1>1, MilestoneChanged DEF IsList
<1>3. PICK x : x = [(IF m \in DOMAIN shown THEN shown[m] ELSE j.of[m]) EXCEPT !.favorite = v]
  OBVIOUS
<1>4. x \in Stars!Milestone /\ x.favorite = v /\ (m \in DOMAIN shown => x.label = shown[m].label)
  <2>1. CASE m \in DOMAIN shown
    <3>1. shown[m] \in Stars!Milestone
      BY <1>0, <2>1 DEF IsList
    <3>2. x = [shown[m] EXCEPT !.favorite = v]
      BY <1>3, <2>1
    <3> QED
      BY <1>2, <3>1, <3>2, MilestoneChanged
  <2>2. CASE m \notin DOMAIN shown
    <3>1. j.of[m] \in Stars!Milestone
      BY <1>0, <1>1 DEF IsList
    <3>2. x = [j.of[m] EXCEPT !.favorite = v]
      BY <1>3, <2>2
    <3> QED
      BY <1>2, <2>2, <3>1, <3>2, MilestoneChanged
  <2> QED
    BY <2>1, <2>2
<1>5. CASE Stars!Answered(j) # {}
  <2>1. shown' = shown
    BY <1>5 DEF Stars!FavoriteAnswered
  <2>2. Stars!Answered(j) = {m}
    BY <1>0, <1>1, <1>5 DEF Stars!Answered
  <2>3. StarTypes'
    BY <1>0, <2>1 DEF StarsInv, StarTypes
  <2>4. ASSUME Agrees(shown, saved, jobs) PROVE Agrees(shown', saved', jobs')
    <3>1. Toggled(j, m, shown, saved)
      BY <1>0, <1>1, <2>4 DEF Agrees, Favorites
    <3>2. shown[m].favorite = saved[m].favorite
      BY <2>2, <3>1 DEF Toggled
    <3>3. Agrees(shown, saved, jobs \ {j})
      BY <1>0, <1>1, <2>4, <3>2, FavoriteEnds
    <3> QED
      BY <2>1, <3>3
  <2>5. \A i \in jobs : AsksAgain(i) => i \in jobs'
    BY <1>0 DEF AsksAgain
  <2>6. Favorites(jobs') \subseteq Favorites(jobs) /\ j \in Favorites(jobs)
    BY <1>0 DEF Favorites
  <2> QED
    BY <1>0, <2>3, <2>4, <2>5, <2>6 DEF StarsInv, Right
<1>6. CASE Stars!Answered(j) = {}
  <2>1. PICK w : w = [n \in DOMAIN shown \cup {m} |-> IF n # m THEN shown[n] ELSE x]
    OBVIOUS
  <2>2. shown' = w
    BY <1>1, <1>2, <1>3, <1>6, <2>1 DEF Stars!FavoriteAnswered
  <2>3. IsList(w)
    BY <1>0, <1>4, <2>1 DEF IsList
  <2>4. StarTypes'
    BY <1>0, <2>2, <2>3 DEF StarsInv, StarTypes
  <2>5. ASSUME Agrees(shown, saved, jobs) PROVE Agrees(shown', saved', jobs')
    <3>1. Toggled(j, m, shown, saved) /\ m \in DOMAIN shown
      BY <1>0, <1>1, <2>5 DEF Agrees, Favorites
    <3>2. v = saved[m].favorite
      BY <1>2, <1>6, <3>1 DEF Toggled
    <3>3. DOMAIN w = DOMAIN shown /\ w[m] = x /\ \A n \in DOMAIN shown : n # m => w[n] = shown[n]
      BY <2>1, <3>1
    <3>4. w[m].label = shown[m].label /\ w[m].favorite = saved[m].favorite
      BY <1>4, <3>1, <3>2, <3>3
    <3>5. Agrees(w, saved, jobs \ {j})
      BY <1>0, <1>1, <2>5, <3>3, <3>4, FavoriteEnds
    <3> QED
      BY <2>2, <3>5
  <2>6. \A i \in jobs : AsksAgain(i) => i \in jobs'
    BY <1>0 DEF AsksAgain
  <2>7. Favorites(jobs') \subseteq Favorites(jobs) /\ j \in Favorites(jobs)
    BY <1>0 DEF Favorites
  <2> QED
    BY <1>0, <2>4, <2>5, <2>6, <2>7 DEF StarsInv, Right
<1> QED
  BY <1>5, <1>6

(* An edit or a removal ends: what it saved is shown and asked for again,  *)
(* or nothing was saved and nothing changes.                               *)
LEMMA AskingAgainKeeps ==
    ASSUME StarsInv, NEW j \in jobs, j.kind # "favorite", jobs' = jobs \ {j}, UNCHANGED saved, IsList(shown'),
           Stars!Answered(j) = {} => shown' = shown,
           Stars!Refresh \/ (~j.many /\ Stars!Answered(j) = {} /\ UNCHANGED <<refetch, orderly>>)
    PROVE  StarsInv'
<1>1. CASE Stars!Refresh
  <2>1. refetch' = [on |-> TRUE, read |-> {}]
    BY <1>1 DEF Stars!Refresh
  <2>2. StarTypes'
    BY <2>1 DEF StarsInv, StarTypes
  <2>3. PICK ks : ks = jobs \ {j}
    OBVIOUS
  <2>4. orderly' => /\ Favorites(ks) = {}
                    /\ \A sh, sv : Right(sh, sv, ks, refetch'.on, refetch'.read)
    BY <1>1, <2>3, RefreshRights
  <2>5. orderly' => Favorites(jobs') = {} /\ Right(shown', saved', jobs', refetch'.on, refetch'.read)
    BY <2>3, <2>4
  <2> QED
    BY <2>2, <2>5 DEF StarsInv
<1>2. CASE ~j.many /\ Stars!Answered(j) = {} /\ UNCHANGED <<refetch, orderly>>
  <2>1. shown' = shown
    BY <1>2
  <2>2. StarTypes'
    BY <1>2, <2>1 DEF StarsInv, StarTypes
  <2>3. Favorites(jobs') = Favorites(jobs)
    BY DEF Favorites
  <2>4. \A i \in jobs : AsksAgain(i) => i \in jobs'
    BY <1>2 DEF AsksAgain
  <2>5. ASSUME Agrees(shown, saved, jobs) PROVE Agrees(shown', saved', jobs')
    BY <2>1, <2>3, <2>5, SameFavorites
  <2> QED
    BY <1>2, <2>1, <2>2, <2>3, <2>4, <2>5 DEF StarsInv, Right
<1> QED
  BY <1>1, <1>2

LEMMA EndKeeps ==
    ASSUME StarsInv, NEW j \in jobs, Stars!JobEnds(j)
    PROVE  StarsInv'
<1>0. jobs' = jobs \ {j} /\ UNCHANGED saved /\ IsList(shown) /\ IsAction(j)
  BY DEF Stars!JobEnds, StarsInv, StarTypes
<1>1. CASE Stars!FavoriteAnswered(j)
  BY <1>0, <1>1, FavoriteAnsweredKeeps
<1>2. CASE Stars!EditAnswered(j)
  <2>1. PICK w : w = [m \in DOMAIN shown |-> IF m \in Stars!Answered(j)
                                             THEN CHOOSE s \in j.answers[m] : TRUE ELSE shown[m]]
    OBVIOUS
  <2>2. shown' = w
    BY <1>2, <2>1 DEF Stars!EditAnswered
  <2>3. ASSUME NEW m \in DOMAIN shown PROVE w[m] \in Stars!Milestone
    <3>1. CASE m \in Stars!Answered(j)
      <4>1. m \in DOMAIN j.answers /\ j.answers[m] # {} /\ j.answers[m] \subseteq Stars!Milestone
        BY <1>0, <3>1 DEF Stars!Answered, IsAction
      <4>2. (CHOOSE s \in j.answers[m] : TRUE) \in j.answers[m]
        BY <4>1
      <4> QED
        BY <2>1, <3>1, <4>1, <4>2
    <3>2. CASE m \notin Stars!Answered(j)
      BY <1>0, <2>1, <3>2 DEF IsList
    <3> QED
      BY <3>1, <3>2
  <2>4. IsList(w)
    BY <2>1, <2>3 DEF IsList
  <2>5. Stars!Answered(j) = {} => w = shown
    <3> SUFFICES ASSUME Stars!Answered(j) = {} PROVE w = shown
      OBVIOUS
    <3>1. w = [m \in DOMAIN shown |-> shown[m]]
      BY <2>1
    <3> QED
      BY <1>0, <3>1 DEF IsList
  <2>6. j.kind = "edit" /\ (Stars!Refresh \/ (~j.many /\ Stars!Answered(j) = {} /\ UNCHANGED <<refetch, orderly>>))
    BY <1>2 DEF Stars!EditAnswered
  <2> QED
    BY <1>0, <2>2, <2>4, <2>5, <2>6, AskingAgainKeeps
<1>3. CASE Stars!RemoveAnswered(j)
  <2>1. PICK w : w = Stars!Restrict(shown, DOMAIN shown \ Stars!Answered(j))
    OBVIOUS
  <2>2. shown' = w
    BY <1>3, <2>1 DEF Stars!RemoveAnswered
  <2>3. PICK S : S = Stars!Answered(j)
    OBVIOUS
  <2>4. IsList(w) /\ (S \cap DOMAIN shown = {} => w = shown)
    BY <1>0, <2>1, <2>3, ListWithout
  <2>5. j.kind = "remove" /\ (Stars!Refresh \/ (~j.many /\ Stars!Answered(j) = {} /\ UNCHANGED <<refetch, orderly>>))
    BY <1>3 DEF Stars!RemoveAnswered
  <2> QED
    BY <1>0, <2>2, <2>3, <2>4, <2>5, AskingAgainKeeps
<1> QED
  BY <1>1, <1>2, <1>3 DEF Stars!JobEnds

LEMMA RefetchKeeps ==
    ASSUME StarsInv, Stars!Refetch \/ Stars!RefetchRead \/ Stars!RefetchAnswered
    PROVE  StarsInv'
<1>1. CASE Stars!Refetch
  <2>1. refetch' = [on |-> TRUE, read |-> {}] /\ UNCHANGED <<saved, shown, jobs>>
    BY <1>1 DEF Stars!Refetch, Stars!Refresh
  <2>2. StarTypes'
    BY <2>1 DEF StarsInv, StarTypes
  <2>3. PICK ks : ks = jobs
    OBVIOUS
  <2>4. orderly' => /\ Favorites(ks) = {}
                    /\ \A sh, sv : Right(sh, sv, ks, refetch'.on, refetch'.read)
    BY <1>1, <2>3, RefreshRights DEF Stars!Refetch
  <2>5. orderly' => Favorites(jobs') = {} /\ Right(shown', saved', jobs', refetch'.on, refetch'.read)
    BY <2>1, <2>3, <2>4
  <2> QED
    BY <2>2, <2>5 DEF StarsInv
<1>2. CASE Stars!RefetchRead
  <2>1. /\ refetch.on /\ UNCHANGED <<saved, shown, jobs>> /\ orderly' = (orderly \/ jobs = {})
        /\ refetch' = [refetch EXCEPT !.read = {saved}]
    BY <1>2 DEF Stars!RefetchRead
  <2>2. refetch' = [on |-> TRUE, read |-> {saved}]
    BY <2>1 DEF StarsInv, StarTypes
  <2>3. StarTypes'
    BY <2>1, <2>2 DEF StarsInv, StarTypes
  <2>4. orderly' => Favorites(jobs) = {}
    BY <2>1 DEF StarsInv, Favorites
  <2>5. refetch'.on /\ refetch'.read = {saved}
    BY <2>2
  <2> QED
    BY <2>1, <2>3, <2>4, <2>5 DEF StarsInv, Right
<1>3. CASE Stars!RefetchAnswered
  <2>1. /\ refetch.on /\ shown' \in refetch.read /\ UNCHANGED <<saved, jobs, orderly>>
        /\ refetch' = [on |-> FALSE, read |-> {}]
    BY <1>3 DEF Stars!RefetchAnswered, Stars!Quiet
  <2>2. StarTypes'
    BY <2>1 DEF StarsInv, StarTypes
  <2>3. ASSUME Favorites(jobs) = {}, refetch.read \subseteq {saved} PROVE Agrees(shown', saved', jobs')
    BY <2>1, <2>3 DEF Agrees
  <2>4. ~refetch'.on
    BY <2>1
  <2> QED
    BY <2>1, <2>2, <2>3, <2>4 DEF StarsInv, Right
<1> QED
  BY <1>1, <1>2, <1>3

LEMMA StarsStep == StarsInv /\ [Stars!Next]_stars => StarsInv'
<1> SUFFICES ASSUME StarsInv, [Stars!Next]_stars PROVE StarsInv'
  OBVIOUS
<1>1. CASE \E m \in Ids : Stars!ToggleFavorite(m)
  BY <1>1, ToggleKeeps
<1>2. ASSUME NEW ms \in SUBSET DOMAIN shown, NEW l \in Labels, NEW many \in BOOLEAN, Stars!Edit(ms, l, many)
      PROVE  StarsInv'
  BY <1>2, BeginKeeps DEF Stars!Edit
<1>3. ASSUME NEW ms \in SUBSET DOMAIN shown, NEW many \in BOOLEAN, Stars!Remove(ms, many)
      PROVE  StarsInv'
  <2>1. PICK l : l = CHOOSE x \in Labels : TRUE
    OBVIOUS
  <2>2. Stars!Begin("remove", ms, l, many) /\ UNCHANGED <<saved, shown, refetch, orderly>>
    BY <1>3, <2>1 DEF Stars!Remove
  <2> QED
    BY <2>2, BeginKeeps
<1>4. CASE \E j \in jobs : Stars!JobEnds(j) \/ \E m \in DOMAIN j.of : Stars!Handle(j, m)
  BY <1>4, EndKeeps, HandleKeeps
<1>5. CASE Stars!Refetch \/ Stars!RefetchRead \/ Stars!RefetchAnswered
  BY <1>5, RefetchKeeps
<1>6. CASE UNCHANGED stars
  BY <1>6 DEF stars, StarsInv, StarTypes
<1> QED
  BY <1>1, <1>2, <1>3, <1>4, <1>5, <1>6 DEF Stars!Next

(* When no action and no reading of the list is under way, the list shown  *)
(* is the server's, whatever was refused, whatever edit or removal of      *)
(* several milestones lost its answers, and in whatever order the others   *)
(* came - unless a favorite changed twice at once or while the list was    *)
(* read, or what was saved for a favorite, one edit or one removal was not *)
(* answered (toggleFavorite, save, remove), and the list was not read      *)
(* since while nothing was under way.                                      *)
THEOREM QuietListIsSaved == AppSpec => []ShownIsSaved
<1>1. AppInit => StarsInv
  BY StarsStart DEF AppInit
<1>2. StarsInv /\ [AppNext]_app => StarsInv'
  BY StepsOfParts, StarsStep
<1>3. StarsInv => ShownIsSaved
  <2> SUFFICES ASSUME StarsInv, jobs = {}, ~refetch.on, orderly PROVE shown = saved
    BY DEF ShownIsSaved, Stars!ShownIsSaved
  <2>1. Agrees(shown, saved, jobs) /\ Favorites(jobs) = {} /\ IsList(shown) /\ IsList(saved)
    BY DEF StarsInv, StarTypes, Right, Favorites
  <2>2. DOMAIN shown = DOMAIN saved
    BY <2>1 DEF Agrees
  <2>3. ASSUME NEW m \in DOMAIN saved PROVE shown[m] = saved[m]
    <3>1. shown[m].favorite = saved[m].favorite /\ shown[m].label = saved[m].label
      BY <2>1 DEF Agrees
    <3>2. shown[m] \in Stars!Milestone /\ saved[m] \in Stars!Milestone
      BY <2>1, <2>2 DEF IsList
    <3> QED
      BY <3>1, <3>2, SameMilestone
  <2> QED
    BY <2>1, <2>2, <2>3 DEF IsList
<1> QED
  BY <1>1, <1>2, <1>3, PTL DEF AppSpec

(* The lists name milestones, the actions and their answers milestones     *)
(* that were shown, and there are as many actions as were begun.           *)
Named(j) == j.id \in 1..MaxActions /\ DOMAIN j.of \subseteq Ids /\ DOMAIN j.answers \subseteq DOMAIN j.of
StarNames ==
    /\ DOMAIN saved \subseteq Ids /\ DOMAIN shown \subseteq Ids
    /\ \A j \in jobs : Named(j)
    /\ \A list \in refetch.read : DOMAIN list \subseteq Ids
    /\ done \in 0..MaxActions

LEMMA NamesStart == Stars!Init => StarNames /\ orderly \in BOOLEAN
BY AppAssumption DEF Stars!MilestonesAssumption, Stars!Init, Stars!Quiet, StarNames

LEMMA BegunIsNamed ==
    ASSUME StarNames, NEW ms \in SUBSET DOMAIN shown, NEW kind, NEW l, NEW many, Stars!Begin(kind, ms, l, many)
    PROVE  done' \in 0..MaxActions /\ \A j \in jobs' : Named(j)
<1>1. PICK r : r = [id |-> done + 1, kind |-> kind, many |-> many, label |-> l,
                    of |-> Stars!Restrict(shown, ms), answers |-> Stars!Empty]
  OBVIOUS
<1>2. jobs' = jobs \cup {r} /\ done < MaxActions /\ done' = done + 1
  BY <1>1 DEF Stars!Begin
<1>3. done + 1 \in 1..MaxActions /\ done + 1 \in 0..MaxActions
  BY <1>2, AppAssumption DEF Stars!MilestonesAssumption, StarNames
<1>4. DOMAIN r.of = ms /\ DOMAIN r.answers = {} /\ r.id = done + 1
  BY <1>1 DEF Stars!Restrict, Stars!Empty
<1>5. Named(r)
  BY <1>3, <1>4 DEF Named, StarNames
<1> QED
  BY <1>2, <1>3, <1>5 DEF StarNames

LEMMA HandledIsNamed ==
    ASSUME StarsInv, StarNames, NEW j \in jobs, NEW m \in DOMAIN j.of, Stars!Handle(j, m)
    PROVE  StarNames'
<1>1. Named(j) /\ IsAction(j) /\ UNCHANGED <<shown, refetch, done>>
  BY DEF StarNames, StarsInv, StarTypes, Stars!Handle
<1>2. DOMAIN saved' \subseteq Ids
  <2>1. \/ saved' = saved
        \/ m \in DOMAIN saved /\ \/ \E v : saved' = Stars!With(saved, m, v)
                                  \/ saved' = Stars!Restrict(saved, DOMAIN saved \ {m})
        \/ j.kind \notin {"favorite", "edit", "remove"}
    BY DEF Stars!Handle, Stars!Saves, Stars!Starred
  <2>2. \A v, w : w = Stars!With(saved, m, v) /\ m \in DOMAIN saved => DOMAIN w \subseteq Ids
    BY DEF Stars!With, StarNames
  <2>3. \A w : w = Stars!Restrict(saved, DOMAIN saved \ {m}) => DOMAIN w \subseteq Ids
    BY DEF Stars!Restrict, StarNames
  <2>4. PICK w : w = saved'
    OBVIOUS
  <2> QED
    BY <1>1, <2>1, <2>2, <2>3, <2>4 DEF StarNames, IsAction
<1>3. PICK a : jobs' = (jobs \ {j}) \cup {[j EXCEPT !.answers = Stars!With(@, m, a)]}
  BY DEF Stars!Handle, Stars!Answers
<1>4. PICK w : w = Stars!With(j.answers, m, a)
  OBVIOUS
<1>5. PICK r : r = [j EXCEPT !.answers = w]
  OBVIOUS
<1>6. DOMAIN w \subseteq DOMAIN j.of
  BY <1>1, <1>4 DEF Stars!With, Named
<1>7. r.id = j.id /\ r.of = j.of /\ r.answers = w
  <2>1. PICK k, t, o, i, l, s : j = [id |-> i, kind |-> k, many |-> t, label |-> l, of |-> o, answers |-> s]
    BY <1>1 DEF IsAction
  <2> QED
    BY <1>5, <2>1
<1>8. Named(r) /\ jobs' = (jobs \ {j}) \cup {r}
  BY <1>1, <1>3, <1>4, <1>5, <1>6, <1>7 DEF Named
<1> QED
  BY <1>1, <1>2, <1>8 DEF StarNames

LEMMA EndIsNamed ==
    ASSUME StarsInv, StarNames, NEW j \in jobs, Stars!JobEnds(j)
    PROVE  StarNames'
<1>1. Named(j) /\ jobs' = jobs \ {j} /\ UNCHANGED <<saved, done>>
  BY DEF StarNames, Stars!JobEnds
<1>2. UNCHANGED refetch \/ refetch' = [on |-> TRUE, read |-> {}]
  BY DEF Stars!JobEnds, Stars!FavoriteAnswered, Stars!EditAnswered, Stars!RemoveAnswered, Stars!Refresh
<1>3. DOMAIN shown' \subseteq Ids
  <2>1. CASE Stars!FavoriteAnswered(j)
    <3>1. \/ shown' = shown
          \/ DOMAIN shown' = DOMAIN shown \cup DOMAIN j.of
      BY <2>1 DEF Stars!FavoriteAnswered
    <3> QED
      BY <1>1, <3>1 DEF StarNames, Named
  <2>2. CASE Stars!EditAnswered(j)
    <3>1. DOMAIN shown' = DOMAIN shown
      BY <2>2 DEF Stars!EditAnswered
    <3> QED
      BY <3>1 DEF StarNames
  <2>3. CASE Stars!RemoveAnswered(j)
    <3>1. DOMAIN shown' \subseteq DOMAIN shown
      BY <2>3 DEF Stars!RemoveAnswered, Stars!Restrict
    <3> QED
      BY <3>1 DEF StarNames
  <2> QED
    BY <2>1, <2>2, <2>3 DEF Stars!JobEnds
<1>4. \A list \in refetch'.read : DOMAIN list \subseteq Ids
  BY <1>2 DEF StarNames
<1> QED
  BY <1>1, <1>3, <1>4 DEF StarNames

LEMMA NamesStep == StarsInv /\ StarNames /\ [Stars!Next]_stars => StarNames'
<1> SUFFICES ASSUME StarsInv, StarNames, [Stars!Next]_stars PROVE StarNames'
  OBVIOUS
<1>1. ASSUME NEW m \in Ids, Stars!ToggleFavorite(m) PROVE StarNames'
  <2>1. m \in DOMAIN shown /\ Stars!Begin("favorite", {m}, shown[m].label, FALSE) /\ UNCHANGED <<saved, refetch>>
    BY <1>1 DEF Stars!ToggleFavorite
  <2>2. DOMAIN shown' = DOMAIN shown \cup {m}
    BY <1>1 DEF Stars!ToggleFavorite, Stars!Starred, Stars!With
  <2>3. {m} \in SUBSET DOMAIN shown
    BY <2>1
  <2>4. done' \in 0..MaxActions /\ \A j \in jobs' : Named(j)
    BY <2>1, <2>3, BegunIsNamed
  <2> QED
    BY <2>1, <2>2, <2>4 DEF StarNames
<1>2. ASSUME NEW ms \in SUBSET DOMAIN shown, NEW kind, NEW l, NEW many, Stars!Begin(kind, ms, l, many),
             UNCHANGED <<saved, shown, refetch>>
      PROVE  StarNames'
  <2>1. done' \in 0..MaxActions /\ \A j \in jobs' : Named(j)
    BY <1>2, BegunIsNamed
  <2> QED
    BY <1>2, <2>1 DEF StarNames
<1>3. ASSUME NEW ms \in SUBSET DOMAIN shown, NEW l, NEW many, Stars!Edit(ms, l, many) \/ Stars!Remove(ms, many)
      PROVE  StarNames'
  BY <1>2, <1>3 DEF Stars!Edit, Stars!Remove
<1>4. CASE \E j \in jobs : Stars!JobEnds(j) \/ \E m \in DOMAIN j.of : Stars!Handle(j, m)
  BY <1>4, EndIsNamed, HandledIsNamed
<1>5. CASE Stars!Refetch \/ Stars!RefetchRead \/ Stars!RefetchAnswered
  <2>1. refetch = [on |-> refetch.on, read |-> refetch.read]
    BY DEF StarsInv, StarTypes
  <2>2. UNCHANGED <<saved, jobs, done>> /\ (UNCHANGED shown \/ shown' \in refetch.read)
    BY <1>5 DEF Stars!Refetch, Stars!RefetchRead, Stars!RefetchAnswered
  <2>3. \/ refetch' = [on |-> TRUE, read |-> {}]
        \/ refetch' = [refetch EXCEPT !.read = {saved}]
        \/ refetch' = [on |-> FALSE, read |-> {}]
    BY <1>5 DEF Stars!Refetch, Stars!RefetchRead, Stars!RefetchAnswered, Stars!Refresh, Stars!Quiet
  <2>4. refetch'.read \subseteq {saved}
    BY <2>1, <2>3
  <2> QED
    BY <2>2, <2>4 DEF StarNames
<1>6. CASE UNCHANGED stars
  BY <1>6 DEF stars, StarNames
<1> QED
  BY <1>1, <1>3, <1>4, <1>5, <1>6 DEF Stars!Next

LEMMA OrderlyIsBoolean == orderly \in BOOLEAN /\ [Stars!Next]_stars => orderly' \in BOOLEAN
BY Zenon DEF stars, Stars!Next, Stars!ToggleFavorite, Stars!Edit, Stars!Remove, Stars!JobEnds, Stars!Handle, Stars!Refetch,
   Stars!RefetchRead, Stars!RefetchAnswered, Stars!FavoriteAnswered, Stars!EditAnswered, Stars!RemoveAnswered, Stars!Refresh

LEMMA IsOneOfLists == ASSUME NEW list, IsList(list), DOMAIN list \subseteq Ids PROVE list \in Stars!Lists
BY DEF IsList, Stars!Lists

LEMMA StarShapes == AppSpec => []Stars!TypeOK
<1> DEFINE Inv == StarsInv /\ StarNames /\ orderly \in BOOLEAN
<1>1. AppInit => Inv
  BY StarsStart, NamesStart DEF AppInit
<1>2. Inv /\ [AppNext]_app => Inv'
  BY StepsOfParts, StarsStep, NamesStep, OrderlyIsBoolean
<1>3. Inv => Stars!TypeOK
  <2> SUFFICES ASSUME Inv PROVE Stars!TypeOK
    OBVIOUS
  <2>1. saved \in Stars!Lists /\ shown \in Stars!Lists
    BY IsOneOfLists DEF StarsInv, StarTypes, StarNames
  <2>2. ASSUME NEW j \in jobs
        PROVE  /\ j.id \in 1..MaxActions /\ j.kind \in {"favorite", "edit", "remove"}
               /\ j.of \in Stars!Lists /\ DOMAIN j.answers \subseteq DOMAIN j.of
               /\ \A m \in DOMAIN j.answers : j.answers[m] \subseteq Stars!Milestone
    BY IsOneOfLists DEF StarsInv, StarTypes, StarNames, IsAction, Named
  <2>3. refetch.on \in BOOLEAN /\ refetch.read \subseteq Stars!Lists
    BY IsOneOfLists DEF StarsInv, StarTypes, StarNames
  <2> QED
    BY <2>1, <2>2, <2>3 DEF Stars!TypeOK, StarNames
<1> QED
  BY <1>1, <1>2, <1>3, PTL DEF AppSpec

-----------------------------------------------------------------------------
LEMMA PrefShapes == AppSpec => []TypeOK
<1>1. AppInit => TypeOK
  BY TypeInit DEF AppInit
<1>2. TypeOK /\ [AppNext]_app => TypeOK'
  BY TypeStep, StepsOfParts
<1> QED
  BY <1>1, <1>2, PTL DEF AppSpec

(* Every component of the web app keeps its shapes, whatever the others    *)
(* do: each list, request, answer and counter stays what its code takes it *)
(* for.                                                                    *)
THEOREM ShapesAreKept == AppSpec => []ShapesOK
<1>1. ShapesOK <=> /\ TypeOK /\ Logs!TypeOK /\ Subs!TypeOK /\ Seeks!TypeOK /\ Refs!TypeOK
                   /\ Pixels!TypeOK /\ Ints!TypeOK /\ Stars!TypeOK /\ Drafts!TypeOK
  BY DEF ShapesOK
<1> QED
  BY <1>1, PrefShapes, TailShapes, SubmissionShapes, SeekShapes, ReferenceShapes, PixelShapes, IntShapesOK,
     StarShapes, EditorShapes, PTL
=============================================================================
