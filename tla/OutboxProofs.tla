---------------------------- MODULE OutboxProofs ----------------------------
(***************************************************************************)
(* Proofs about Outbox, for every number of events, notifications, calls   *)
(* and attempts. The inductive invariant says what a call knows of the     *)
(* notifications it has passed: all were reached, by itself or by the call *)
(* that wrote `sent`, and a claim in time has the age of its only call.    *)
(***************************************************************************)
EXTENDS Outbox, FiniteSetTheorems, TLAPS

Reached(e, n) == told[e][n] > 0 /\ (n \in Folding \/ tried[e][n] > 0)
ReachedUpTo(e, list, m) == \A k \in 1..Len(list) : k <= m => Reached(e, list[k])

\* A call is inside its list until it deletes the row.
Placed(w) ==
  /\ job[w].phase \in {"store", "push"} => job[w].at < Len(job[w].plan)
  /\ job[w].phase = "record" => job[w].at + 1 < Len(job[w].plan)
  /\ job[w].phase = "plan" => job[w].plan = <<>>

\* What the phase of a call says of the notification it is at.
Knows(w) ==
  LET e == Event(w) list == job[w].plan IN
    /\ ReachedUpTo(e, answer[e], job[w].at)
    /\ job[w].phase # "plan" => list = answer[e]
    /\ job[w].phase = "push" => told[e][Note(w)] > 0
    /\ job[w].phase = "record" => Reached(e, Note(w))
    /\ job[w].phase = "delete" => ReachedUpTo(e, list, Len(list))

JobsPlaced == \A w \in Senders : job[w] # Idle => Placed(w)
JobsKnow == \A w \in Senders : job[w] # Idle /\ Event(w) \in steady => Knows(w)
RowsKnow ==
  \A e \in steady : /\ ReachedUpTo(e, answer[e], sent[e])
                    /\ stage[e] = "DONE" => ReachedUpTo(e, answer[e], Len(answer[e]))
ClaimsKnow ==
  \A w \in Senders : job[w] # Idle /\ Event(w) \notin overran =>
    claim[Event(w)] = job[w].age /\ job[w].age <= Lease

Inv == TypeOK /\ JobsPlaced /\ JobsKnow /\ RowsKnow /\ ClaimsKnow /\ OneSenderInTime

-----------------------------------------------------------------------------

LEMMA ListsAreLists ==
  ASSUME TypeOK
  PROVE  /\ \A e \in Events : answer[e] \in Seq(Notes)
         /\ \A w \in Senders : job[w] # Idle =>
              /\ job[w] \in Job
              /\ job[w].plan \in Seq(Notes)
              /\ job[w].at \in Nat
              /\ Len(job[w].plan) \in Nat
              /\ Event(w) \in Events
<1>1. \A e \in Events : answer[e] \in Seq(Notes)
  BY ListsAssumption DEF TypeOK
<1>2. ASSUME NEW w \in Senders, job[w] # Idle
      PROVE  /\ job[w] \in Job
             /\ job[w].plan \in Seq(Notes)
             /\ job[w].at \in Nat
             /\ Len(job[w].plan) \in Nat
             /\ Event(w) \in Events
  <2>1. job[w] \in Job
    BY <1>2 DEF TypeOK
  <2>2. job[w].plan \in Lists \cup {<<>>} /\ job[w].at \in Nat /\ job[w].event \in Events
    BY <2>1 DEF Job
  <2>3. <<>> \in Seq(Notes)
    OBVIOUS
  <2>4. job[w].plan \in Seq(Notes)
    BY <2>2, <2>3, ListsAssumption
  <2> QED BY <2>1, <2>2, <2>4 DEF Event
<1> QED BY <1>1, <1>2

\* The notification a call is at is one of the list.
LEMMA NoteTyped ==
  ASSUME TypeOK, JobsPlaced, NEW w \in Senders, job[w] # Idle,
         job[w].phase \in {"store", "push", "record"}
  PROVE  /\ job[w].at + 1 \in 1..Len(job[w].plan)
         /\ Note(w) \in Notes
<1>1. job[w].at \in Nat /\ Len(job[w].plan) \in Nat /\ job[w].plan \in Seq(Notes)
  BY ListsAreLists
<1>2. job[w].at < Len(job[w].plan)
  BY <1>1 DEF JobsPlaced, Placed
<1>3. job[w].at + 1 \in 1..Len(job[w].plan)
  BY <1>1, <1>2
<1> QED BY <1>1, <1>3 DEF Note

-----------------------------------------------------------------------------
(* Typing. *)

LEMMA StepTyped ==
  ASSUME TypeOK, JobsPlaced, [Next]_vars
  PROVE  TypeOK'
<1> USE NumbersAssumption, NullsAssumption
<1>1. ASSUME NEW e \in Events, EventNext(e) PROVE TypeOK'
  <2>1. CASE Stir(e)
    BY <2>1 DEF Stir, TypeOK, rowVars, outVars
  <2>2. CASE Emit(e) \/ Enqueue(e) \/ Lose(e) \/ Prune(e)
    BY <2>2 DEF Emit, Enqueue, Lose, Prune, TypeOK, Stage, planVars, outVars
  <2> QED BY <1>1, <2>1, <2>2 DEF EventNext
<1>2. ASSUME NEW w \in Senders, NEW e \in Events, Claim(w, e) PROVE TypeOK'
  <2>1. [event |-> e, plan |-> <<>>, at |-> sent[e], phase |-> "plan", age |-> 0] \in Job
    BY DEF TypeOK, Job, Phase
  <2>2. attempts[e] + 1 \in 0..MaxAttempts
    BY <1>2 DEF TypeOK, Claim, Claimable, Untried
  <2> QED BY <1>2, <2>1, <2>2 DEF Claim, TypeOK, planVars, outVars
<1>3. ASSUME NEW w \in Senders, MakePlan(w) PROVE TypeOK'
  <2>1. job[w] \in Job /\ answer[Event(w)] \in Lists
    BY <1>3, ListsAreLists DEF MakePlan, Working, TypeOK
  <2>2. [job[w] EXCEPT !.plan = answer[Event(w)], !.phase = NextPhase(answer[Event(w)], job[w].at)] \in Job
    BY <2>1 DEF Job, NextPhase, Phase
  <2>3. job' = [job EXCEPT ![w] = [job[w] EXCEPT !.plan = answer[Event(w)], !.phase = NextPhase(answer[Event(w)], job[w].at)]]
    BY <1>3 DEF MakePlan, TypeOK
  <2> QED BY <1>3, <2>2, <2>3 DEF MakePlan, TypeOK, rowVars, planVars, outVars
<1>4. ASSUME NEW w \in Senders, Store(w) PROVE TypeOK'
  <2>1. job[w] \in Job /\ Event(w) \in Events /\ Note(w) \in Notes
    BY <1>4, ListsAreLists, NoteTyped DEF Store, Working
  <2>2. \A q \in Phase : [job[w] EXCEPT !.phase = q] \in Job
    BY <2>1 DEF Job
  <2>3. job' \in [Senders -> Job \cup {Idle}]
    BY <1>4, <2>2 DEF Store, TypeOK, AfterSend, Phase
  <2>4. told' \in [Events -> [Notes -> Nat]] /\ unread' \subseteq Notes
    BY <1>4, <2>1 DEF Store, TypeOK
  <2> QED BY <1>4, <2>3, <2>4 DEF Store, TypeOK, rowVars, planVars
<1>5. ASSUME NEW w \in Senders, Push(w) PROVE TypeOK'
  <2>1. job[w] \in Job /\ Event(w) \in Events /\ Note(w) \in Notes
    BY <1>5, ListsAreLists, NoteTyped DEF Push, Working
  <2>2. \A q \in Phase : [job[w] EXCEPT !.phase = q] \in Job
    BY <2>1 DEF Job
  <2>3. job' \in [Senders -> Job \cup {Idle}]
    BY <1>5, <2>2 DEF Push, TypeOK, AfterSend, Phase
  <2>4. tried' \in [Events -> [Notes -> Nat]]
    BY <1>5, <2>1 DEF Push, TypeOK
  <2> QED BY <1>5, <2>3, <2>4 DEF Push, TypeOK, rowVars, planVars
<1>6. ASSUME NEW w \in Senders, Record(w) PROVE TypeOK'
  <2>1. job[w] \in Job /\ job[w].at \in Nat /\ Event(w) \in Events
    BY <1>6, ListsAreLists DEF Record, Working
  <2>2. [job[w] EXCEPT !.at = job[w].at + 1, !.phase = "store"] \in Job
    <3>1. job[w].at + 1 \in Nat /\ "store" \in Phase
      BY <2>1 DEF Phase
    <3> QED BY <2>1, <3>1 DEF Job
  <2>3. job' = [job EXCEPT ![w] = [job[w] EXCEPT !.at = job[w].at + 1, !.phase = "store"]]
    BY <1>6 DEF Record, TypeOK
  <2>4. sent' \in [Events -> Nat]
    BY <1>6, <2>1 DEF Record, OnRow, TypeOK
  <2> QED BY <1>6, <2>2, <2>3, <2>4 DEF Record, TypeOK, planVars, outVars
<1>7. ASSUME NEW w \in Senders, Delete(w) \/ Fail(w) \/ Die(w) PROVE TypeOK'
  <2>1. Event(w) \in Events
    BY <1>7, ListsAreLists DEF Delete, Fail, Die, Working
  <2> QED BY <1>7, <2>1 DEF Delete, Fail, Die, OnRow, TypeOK, Stage, rowVars, planVars, outVars
<1>8. ASSUME NEW n \in Notes, Read(n) PROVE TypeOK'
  BY <1>8 DEF Read, TypeOK, rowVars, planVars
<1>9. ASSUME Tick PROVE TypeOK'
  <2>1. \A t \in 0..Lease + 1 : Older(t, Lease + 1) \in 0..Lease + 1
    BY DEF Older
  <2>2. \A t \in 0..Retention + 1 : Older(t, Retention + 1) \in 0..Retention + 1
    BY DEF Older
  <2>3. claim' \in [Events -> 0..Lease + 1 \cup {NoClaim}]
    BY <1>9, <2>1 DEF Tick, TypeOK
  <2>4. age' \in [Events -> 0..Retention + 1]
    BY <1>9, <2>2 DEF Tick, TypeOK
  <2>5. \A w \in Senders : job[w] # Idle => [job[w] EXCEPT !.age = Older(job[w].age, Lease + 1)] \in Job
    BY <2>1, ListsAreLists DEF Job
  <2>6. job' \in [Senders -> Job \cup {Idle}]
    BY <1>9, <2>5 DEF Tick
  <2>7. overran' \subseteq Events
    BY <1>9, ListsAreLists DEF Tick, TypeOK
  <2> QED BY <1>9, <2>3, <2>4, <2>6, <2>7 DEF Tick, TypeOK, planVars, outVars
<1>10. ASSUME UNCHANGED vars PROVE TypeOK'
  BY <1>10 DEF TypeOK, vars, rowVars, planVars, outVars
<1> QED BY <1>1, <1>2, <1>3, <1>4, <1>5, <1>6, <1>7, <1>8, <1>9, <1>10 DEF Next, SendNext

-----------------------------------------------------------------------------
(* Where a call is in its list. *)

LEMMA StepPlaced ==
  ASSUME TypeOK, JobsPlaced, [Next]_vars
  PROVE  JobsPlaced'
<1>1. ASSUME NEW w \in Senders, NEW e \in Events, Claim(w, e) PROVE JobsPlaced'
  BY <1>1 DEF Claim, JobsPlaced, Placed, TypeOK
<1>2. ASSUME NEW w \in Senders, MakePlan(w) PROVE JobsPlaced'
  <2>1. job[w] \in Job
    BY <1>2, ListsAreLists DEF MakePlan, Working
  <2>2. job'[w].at = job[w].at /\ job'[w].plan = answer[Event(w)]
        /\ job'[w].phase = NextPhase(answer[Event(w)], job[w].at)
    BY <1>2, <2>1 DEF MakePlan, TypeOK, Job
  <2>3. Placed(w)'
    BY <2>2 DEF Placed, NextPhase
  <2>4. \A v \in Senders \ {w} : job'[v] = job[v]
    BY <1>2 DEF MakePlan, TypeOK
  <2> QED BY <2>3, <2>4 DEF JobsPlaced, Placed
<1>3. ASSUME NEW w \in Senders, Store(w) \/ Push(w) PROVE JobsPlaced'
  <2>1. job[w] \in Job /\ job[w] # Idle /\ job[w].phase \in {"store", "push"}
    BY <1>3, ListsAreLists DEF Store, Push, Working
  <2>2. job'[w].at = job[w].at /\ job'[w].plan = job[w].plan
        /\ job'[w].phase \in {"push", AfterSend(w)}
    <3>1. CASE Store(w)
      BY <3>1, <2>1 DEF Store, TypeOK, Job
    <3>2. CASE Push(w)
      BY <3>2, <2>1 DEF Push, TypeOK, Job
    <3> QED BY <1>3, <3>1, <3>2
  <2>3. job[w].at < Len(job[w].plan)
    BY <2>1 DEF JobsPlaced, Placed
  <2>4. Placed(w)'
    BY <2>2, <2>3 DEF Placed, AfterSend
  <2>5. \A v \in Senders \ {w} : job'[v] = job[v]
    BY <1>3 DEF Store, Push, TypeOK
  <2> QED BY <2>4, <2>5 DEF JobsPlaced, Placed
<1>4. ASSUME NEW w \in Senders, Record(w) PROVE JobsPlaced'
  <2>1. job[w] \in Job /\ job[w] # Idle /\ job[w].phase = "record"
    BY <1>4, ListsAreLists DEF Record, Working
  <2>2. job'[w].at = job[w].at + 1 /\ job'[w].plan = job[w].plan /\ job'[w].phase = "store"
    BY <1>4, <2>1 DEF Record, TypeOK, Job
  <2>3. Placed(w)'
    BY <2>1, <2>2 DEF Placed, JobsPlaced
  <2>4. \A v \in Senders \ {w} : job'[v] = job[v]
    BY <1>4 DEF Record, TypeOK
  <2> QED BY <2>3, <2>4 DEF JobsPlaced, Placed
<1>5. ASSUME NEW w \in Senders, Delete(w) \/ Fail(w) \/ Die(w) PROVE JobsPlaced'
  BY <1>5 DEF Delete, Fail, Die, JobsPlaced, Placed, TypeOK
<1>6. CASE Tick
  <2>1. \A w \in Senders : job[w] # Idle =>
          /\ job'[w].at = job[w].at
          /\ job'[w].plan = job[w].plan
          /\ job'[w].phase = job[w].phase
    BY <1>6, ListsAreLists DEF Tick, Job
  <2>2. \A w \in Senders : job[w] = Idle => job'[w] = Idle
    BY <1>6 DEF Tick
  <2> QED BY <2>1, <2>2 DEF JobsPlaced, Placed
<1>7. CASE UNCHANGED job
  BY <1>7 DEF JobsPlaced, Placed
<1> QED
  BY <1>1, <1>2, <1>3, <1>4, <1>5, <1>6, <1>7
  DEF Next, SendNext, EventNext, Emit, Enqueue, Lose, Stir, Prune, Read, vars

-----------------------------------------------------------------------------
(* A claim in time belongs to one call. *)

LEMMA StepClaims ==
  ASSUME TypeOK, ClaimsKnow, OneSenderInTime, [Next]_vars
  PROVE  ClaimsKnow' /\ OneSenderInTime'
<1> USE NumbersAssumption, NullsAssumption
<1>a. \A w \in Senders : job[w] # Idle => job[w].age \in 0..Lease + 1 /\ Event(w) \in Events
  BY ListsAreLists DEF Job
<1>1. ASSUME NEW w \in Senders, NEW e \in Events, Claim(w, e) PROVE ClaimsKnow' /\ OneSenderInTime'
  <2>1. Free(e) /\ job[w] = Idle /\ overran' = overran
    BY <1>1 DEF Claim, Claimable
  <2>2. job'[w].age = 0 /\ job'[w].event = e /\ claim'[e] = 0
        /\ \A v \in Senders \ {w} : job'[v] = job[v]
    BY <1>1 DEF Claim, TypeOK
  <2>3. \A v \in Senders \ {w} : job[v] # Idle /\ Event(v) = e => e \in overran
    BY <2>1, <1>a DEF Free, Lapsed, ClaimsKnow
  <2>4. \A d \in Events \ {e} : claim'[d] = claim[d]
    BY <1>1 DEF Claim, TypeOK
  <2>5. ClaimsKnow'
    BY <2>1, <2>2, <2>3, <2>4, <1>a DEF ClaimsKnow, Event
  <2>6. OneSenderInTime'
    BY <2>1, <2>2, <2>3 DEF OneSenderInTime, Event
  <2> QED BY <2>5, <2>6
<1>2. ASSUME NEW w \in Senders, Works(w) PROVE ClaimsKnow' /\ OneSenderInTime'
  <2>1. claim' = claim /\ overran' = overran
    BY <1>2 DEF Works, MakePlan, Store, Push, Record, Delete, rowVars
  <2>2. job[w] # Idle /\ job[w] \in Job
    BY <1>2, ListsAreLists DEF Works, MakePlan, Store, Push, Record, Delete, Working
  <2>3. \/ job'[w] = Idle
        \/ job'[w].age = job[w].age /\ job'[w].event = job[w].event
    <3>1. CASE MakePlan(w)
      BY <3>1, <2>2 DEF MakePlan, TypeOK, Job
    <3>2. CASE Store(w)
      BY <3>2, <2>2 DEF Store, TypeOK, Job
    <3>3. CASE Push(w)
      BY <3>3, <2>2 DEF Push, TypeOK, Job
    <3>4. CASE Record(w)
      BY <3>4, <2>2 DEF Record, TypeOK, Job
    <3>5. CASE Delete(w)
      BY <3>5, <2>2 DEF Delete, TypeOK, Job
    <3> QED BY <1>2, <3>1, <3>2, <3>3, <3>4, <3>5 DEF Works
  <2>4. \A v \in Senders \ {w} : job'[v] = job[v]
    BY <1>2 DEF Works, MakePlan, Store, Push, Record, Delete, TypeOK
  <2> QED BY <2>1, <2>2, <2>3, <2>4 DEF ClaimsKnow, OneSenderInTime, Event
<1>3. ASSUME NEW w \in Senders, Fail(w) \/ Die(w) PROVE ClaimsKnow' /\ OneSenderInTime'
  <2>1. job[w] # Idle /\ job'[w] = Idle /\ overran' = overran
        /\ \A v \in Senders \ {w} : job'[v] = job[v]
    BY <1>3 DEF Fail, Die, TypeOK
  <2>2. \A d \in Events \ {Event(w)} : claim'[d] = claim[d]
    BY <1>3 DEF Fail, Die, OnRow, TypeOK, rowVars
  <2>3. \A v \in Senders \ {w} : job[v] # Idle /\ Event(v) = Event(w) => Event(v) \in overran
    BY <2>1 DEF OneSenderInTime
  <2>4. ClaimsKnow'
    BY <2>1, <2>2, <2>3, <1>a DEF ClaimsKnow, Event
  <2>5. OneSenderInTime'
    BY <2>1 DEF OneSenderInTime, Event
  <2> QED BY <2>4, <2>5
<1>4. ASSUME Tick PROVE ClaimsKnow' /\ OneSenderInTime'
  <2>1. \A w \in Senders : job'[w] = IF job[w] = Idle THEN Idle
                                     ELSE [job[w] EXCEPT !.age = Older(job[w].age, Lease + 1)]
    BY <1>4 DEF Tick
  <2>2. \A w \in Senders : job[w] # Idle =>
          /\ Event(w)' = Event(w)
          /\ job'[w].age = Older(job[w].age, Lease + 1)
    BY <2>1, ListsAreLists DEF Job, Event
  <2>3. \A w \in Senders : job[w] # Idle /\ Event(w) \notin overran' => job[w].age < Lease
    BY <1>4, <1>a DEF Tick
  <2>4. overran \subseteq overran'
    BY <1>4 DEF Tick
  <2>5. \A w \in Senders : job'[w] # Idle => job[w] # Idle
    BY <2>1
  <2>6. \A e \in Events : claim[e] # NoClaim => claim'[e] = Older(claim[e], Lease + 1)
    BY <1>4 DEF Tick
  <2>7. ASSUME NEW w \in Senders, job'[w] # Idle, Event(w)' \notin overran'
        PROVE  claim'[Event(w)'] = job'[w].age /\ job'[w].age <= Lease
    <3>1. job[w] # Idle /\ Event(w)' = Event(w) /\ Event(w) \in Events /\ Event(w) \notin overran
      BY <2>7, <2>5, <2>2, <2>4, <1>a
    <3>2. job[w].age < Lease /\ job[w].age \in Nat /\ claim[Event(w)] = job[w].age
      BY <3>1, <2>3, <2>7, <1>a DEF ClaimsKnow
    <3>3. claim'[Event(w)] = Older(job[w].age, Lease + 1)
      BY <3>1, <3>2, <2>6
    <3>4. Older(job[w].age, Lease + 1) = job[w].age + 1 /\ job[w].age + 1 <= Lease
      BY <3>2 DEF Older
    <3> QED BY <3>1, <3>3, <3>4, <2>2
  <2>8. OneSenderInTime'
    BY <2>2, <2>4, <2>5 DEF OneSenderInTime
  <2>9. ClaimsKnow'
    BY <2>7 DEF ClaimsKnow
  <2> QED BY <2>8, <2>9
<1>5. CASE UNCHANGED <<claim, job, overran>>
  BY <1>5 DEF ClaimsKnow, OneSenderInTime, Event
<1> QED
  BY <1>1, <1>2, <1>3, <1>4, <1>5
  DEF Next, SendNext, Works, EventNext, Emit, Enqueue, Lose, Stir, Prune, Read, vars, rowVars

-----------------------------------------------------------------------------
(* What was reached stays reached, and a call passes no notification it has not reached. *)

LEMMA ReachedStays ==
  ASSUME TypeOK, JobsPlaced, [Next]_vars, NEW e \in Events, NEW n \in Notes
  PROVE  /\ Reached(e, n) => Reached(e, n)'
         /\ told[e][n] > 0 => told'[e][n] > 0
<1>1. ASSUME NEW w \in Senders, Store(w)
      PROVE  told'[e][n] >= told[e][n] /\ tried'[e][n] = tried[e][n]
  <2>1. Event(w) \in Events /\ Note(w) \in Notes
    BY <1>1, ListsAreLists, NoteTyped DEF Store, Working
  <2> QED BY <1>1, <2>1 DEF Store, TypeOK
<1>2. ASSUME NEW w \in Senders, Push(w)
      PROVE  told'[e][n] = told[e][n] /\ tried'[e][n] >= tried[e][n]
  <2>1. Event(w) \in Events /\ Note(w) \in Notes
    BY <1>2, ListsAreLists, NoteTyped DEF Push, Working
  <2> QED BY <1>2, <2>1 DEF Push, TypeOK
<1>3. told[e][n] \in Nat /\ tried[e][n] \in Nat
  BY DEF TypeOK
<1>4. CASE UNCHANGED <<told, tried>>
  BY <1>4 DEF Reached
<1>5. ASSUME NEW w \in Senders, Store(w) \/ Push(w)
      PROVE  (Reached(e, n) => Reached(e, n)') /\ (told[e][n] > 0 => told'[e][n] > 0)
  <2>1. told'[e][n] >= told[e][n] /\ tried'[e][n] >= tried[e][n]
    BY <1>1, <1>2, <1>3, <1>5
  <2>2. told'[e][n] \in Nat /\ tried'[e][n] \in Nat
    BY StepTyped DEF TypeOK
  <2> QED BY <2>1, <2>2, <1>3 DEF Reached
<1> QED
  BY <1>4, <1>5
  DEF Next, SendNext, Claim, MakePlan, Record, Delete, Fail, Die, EventNext, Emit, Enqueue, Lose,
      Stir, Prune, Read, Tick, vars, outVars

\* The answers of steady events stay as they are.
LEMMA SteadyStays ==
  ASSUME TypeOK, [Next]_vars, NEW e \in steady'
  PROVE  e \in steady /\ e \in Events /\ answer'[e] = answer[e]
<1>1. CASE UNCHANGED planVars
  BY <1>1 DEF planVars, TypeOK
<1>2. ASSUME NEW d \in Events, Stir(d) PROVE e \in steady /\ e \in Events /\ answer'[e] = answer[e]
  BY <1>2 DEF Stir, TypeOK
<1> QED
  BY <1>1, <1>2
  DEF Next, SendNext, Claim, MakePlan, Store, Push, Record, Delete, Fail, Die, EventNext, Emit, Enqueue,
      Lose, Prune, Read, Tick, vars, planVars

\* What is known of an answer up to a place stays known.
LEMMA PrefixStays ==
  ASSUME TypeOK, JobsPlaced, [Next]_vars, NEW e \in steady', NEW m \in Nat,
         ReachedUpTo(e, answer[e], m)
  PROVE  ReachedUpTo(e, answer[e], m)'
<1>1. e \in Events /\ answer'[e] = answer[e]
  BY SteadyStays
<1>2. \A k \in 1..Len(answer[e]) : answer[e][k] \in Notes
  BY <1>1, ListsAreLists
<1>3. \A k \in 1..Len(answer[e]) : Reached(e, answer[e][k]) => Reached(e, answer[e][k])'
  BY <1>1, <1>2, ReachedStays
<1> QED BY <1>1, <1>3 DEF ReachedUpTo

LEMMA PrefixHolds ==
  ASSUME TypeOK, JobsPlaced, [Next]_vars, NEW e \in Events, NEW list \in Seq(Notes), NEW m \in Nat,
         ReachedUpTo(e, list, m)
  PROVE  ReachedUpTo(e, list, m)'
<1>1. \A k \in 1..Len(list) : Reached(e, list[k]) => Reached(e, list[k])'
  BY ReachedStays
<1> QED BY <1>1 DEF ReachedUpTo

LEMMA StepKnows ==
  ASSUME TypeOK, JobsPlaced, JobsKnow, RowsKnow, [Next]_vars
  PROVE  JobsKnow' /\ RowsKnow'
<1>a. \A e \in steady' : e \in steady /\ e \in Events /\ answer'[e] = answer[e]
  BY SteadyStays
<1>b. \A e \in Events : sent[e] \in Nat /\ Len(answer[e]) \in Nat
  BY ListsAreLists DEF TypeOK
\* A row that neither `sent` nor DONE changed for.
<1>c. ASSUME NEW e \in steady', sent'[e] = sent[e], stage'[e] = "DONE" => stage[e] = "DONE"
      PROVE  /\ ReachedUpTo(e, answer[e], sent[e])'
             /\ stage'[e] = "DONE" => ReachedUpTo(e, answer[e], Len(answer[e]))'
  <2>1. ReachedUpTo(e, answer[e], sent[e])'
    BY <1>a, <1>b, <1>c, PrefixStays DEF RowsKnow, ReachedUpTo
  <2>2. ASSUME stage'[e] = "DONE" PROVE ReachedUpTo(e, answer[e], Len(answer[e]))'
    BY <1>a, <1>b, <1>c, <2>2, PrefixStays DEF RowsKnow, ReachedUpTo
  <2> QED BY <2>1, <2>2
\* A call that did not move.
<1>d. ASSUME NEW v \in Senders, job[v] # Idle, job'[v].event = job[v].event, job'[v].at = job[v].at,
             job'[v].plan = job[v].plan, job'[v].phase = job[v].phase, Event(v) \in steady'
      PROVE  Knows(v)'
  <2>1. Event(v) \in steady /\ Event(v) \in Events /\ answer'[Event(v)] = answer[Event(v)]
        /\ Event(v)' = Event(v) /\ job[v].at \in Nat /\ Knows(v) /\ Note(v)' = Note(v)
    BY <1>a, <1>d, ListsAreLists DEF JobsKnow, Event, Note
  <2>2. ReachedUpTo(Event(v), answer[Event(v)], job[v].at)'
    BY <2>1, <1>d, PrefixStays DEF Knows, ReachedUpTo
  <2>3. ASSUME job[v].phase \in {"push", "record"}
        PROVE  /\ told[Event(v)][Note(v)] > 0 => told'[Event(v)][Note(v)] > 0
               /\ Reached(Event(v), Note(v)) => Reached(Event(v), Note(v))'
    BY <1>d, <2>1, <2>3, NoteTyped, ReachedStays
  <2>4. ASSUME job[v].phase = "delete"
        PROVE  ReachedUpTo(Event(v), job[v].plan, Len(job[v].plan))'
    BY <1>d, <2>1, <2>4, <1>b, PrefixStays DEF Knows, ReachedUpTo
  <2> QED BY <1>d, <2>1, <2>2, <2>3, <2>4 DEF Knows, Reached
<1>1. ASSUME NEW w \in Senders, NEW e \in Events, Claim(w, e) PROVE JobsKnow' /\ RowsKnow'
  <2>1. job'[w].event = e /\ job'[w].at = sent[e] /\ job'[w].phase = "plan"
        /\ (\A v \in Senders \ {w} : job'[v] = job[v]) /\ sent' = sent /\ stage' = stage
    BY <1>1 DEF Claim, TypeOK
  <2>2. RowsKnow'
    BY <1>c, <2>1 DEF RowsKnow
  <2>3. e \in steady' => Knows(w)'
    BY <2>1, <2>2, <1>a DEF Knows, RowsKnow, Event, ReachedUpTo
  <2>4. JobsKnow'
    BY <2>1, <2>3, <1>d DEF JobsKnow, Event
  <2> QED BY <2>2, <2>4
<1>2. ASSUME NEW w \in Senders, MakePlan(w) PROVE JobsKnow' /\ RowsKnow'
  <2>1. job[w] # Idle /\ job[w] \in Job /\ Event(w) \in Events /\ job[w].at \in Nat
    BY <1>2, ListsAreLists DEF MakePlan, Working
  <2>2. job'[w].event = job[w].event /\ job'[w].at = job[w].at /\ job'[w].plan = answer[Event(w)]
        /\ job'[w].phase = NextPhase(answer[Event(w)], job[w].at)
        /\ (\A v \in Senders \ {w} : job'[v] = job[v]) /\ sent' = sent /\ stage' = stage
        /\ answer' = answer
    BY <1>2, <2>1 DEF MakePlan, TypeOK, Job, rowVars, planVars
  <2>3. RowsKnow'
    BY <1>c, <2>2 DEF RowsKnow
  <2>4. ASSUME NEW e \in steady', e = Event(w), NEW list, list = answer[e], NEW m, m = job[w].at
        PROVE  Knows(w)'
    <3>1. e \in steady /\ e \in Events /\ list \in Seq(Notes) /\ m \in Nat /\ Len(list) \in Nat
      BY <1>a, <2>1, <2>4, ListsAreLists
    <3>2. ReachedUpTo(e, list, m)'
      BY <3>1, <2>1, <2>4, PrefixHolds DEF JobsKnow, Knows
    <3>3. m >= Len(list) => ReachedUpTo(e, list, Len(list))'
      BY <3>1, <3>2 DEF ReachedUpTo
    <3>4. answer'[e] = list /\ Event(w)' = e /\ job'[w].plan = list /\ job'[w].at = m
          /\ job'[w].phase = NextPhase(list, m)
      BY <2>2, <2>4 DEF Event
    <3> QED BY <3>1, <3>2, <3>3, <3>4 DEF Knows, NextPhase
  <2>5. JobsKnow'
    BY <2>2, <2>4, <1>d DEF JobsKnow, Event
  <2> QED BY <2>3, <2>5
<1>3. ASSUME NEW w \in Senders, Store(w) \/ Push(w) PROVE JobsKnow' /\ RowsKnow'
  <2>1. job[w] # Idle /\ job[w] \in Job /\ Event(w) \in Events /\ job[w].at \in Nat
        /\ job[w].phase \in {"store", "push"} /\ Len(job[w].plan) \in Nat
    BY <1>3, ListsAreLists DEF Store, Push, Working
  <2>2. Note(w) \in Notes /\ job[w].at + 1 \in 1..Len(job[w].plan)
    BY <2>1, NoteTyped
  <2>3. job'[w].event = job[w].event /\ job'[w].at = job[w].at /\ job'[w].plan = job[w].plan
        /\ (\A v \in Senders \ {w} : job'[v] = job[v]) /\ sent' = sent /\ stage' = stage
    <3>1. CASE Store(w)
      BY <3>1, <2>1 DEF Store, TypeOK, Job, rowVars
    <3>2. CASE Push(w)
      BY <3>2, <2>1 DEF Push, TypeOK, Job, rowVars
    <3> QED BY <1>3, <3>1, <3>2
  <2>4. RowsKnow'
    BY <1>c, <2>3 DEF RowsKnow
  <2>6. ASSUME NEW e \in steady', e = Event(w), NEW list, list = answer[e], NEW m, m = job[w].at,
               NEW n, n = Note(w)
        PROVE  Knows(w)'
    <3>1. e \in steady /\ e \in Events /\ list \in Seq(Notes) /\ m \in Nat /\ Len(list) \in Nat
          /\ answer'[e] = list /\ job[w].plan = list /\ n = list[m + 1] /\ n \in Notes
          /\ m + 1 \in 1..Len(list)
      BY <1>a, <2>1, <2>2, <2>6, ListsAreLists DEF JobsKnow, Knows, Note
    <3>2. ReachedUpTo(e, list, m)'
      BY <3>1, <2>1, <2>6, PrefixHolds DEF JobsKnow, Knows
    \* Either the transport is next and the centre has the row, or the notification is reached.
    <3>3. \/ job'[w].phase = "push" /\ told'[e][n] > 0
          \/ job'[w].phase = AfterSend(w) /\ Reached(e, n)'
      <4>1. CASE Store(w)
        <5>1. told'[e][n] > 0
          BY <4>1, <3>1, <2>6 DEF Store, TypeOK
        <5>2. job'[w].phase = IF Folds(n) THEN AfterSend(w) ELSE "push"
          BY <4>1, <2>1, <2>6 DEF Store, TypeOK, Job
        <5> QED BY <5>1, <5>2 DEF Folds, Reached
      <4>2. CASE Push(w)
        <5>1. tried'[e][n] > 0
          BY <4>2, <3>1, <2>6 DEF Push, TypeOK
        <5>2. job'[w].phase = AfterSend(w)
          BY <4>2, <2>1 DEF Push, TypeOK, Job
        <5>3. told[e][n] > 0
          BY <4>2, <2>1, <2>6, <3>1 DEF Push, Working, JobsKnow, Knows
        <5>4. told' = told
          BY <4>2 DEF Push
        <5> QED BY <5>1, <5>2, <5>3, <5>4 DEF Reached
      <4> QED BY <1>3, <4>1, <4>2
    <3>4. ASSUME Reached(e, n)', m + 1 >= Len(list)
          PROVE  ReachedUpTo(e, list, Len(list))'
      <4>1. \A k \in 1..Len(list) : k <= m \/ k = m + 1
        BY <3>1, <3>4
      <4> QED BY <4>1, <3>1, <3>2, <3>4 DEF ReachedUpTo
    <3>5. Event(w)' = e /\ job'[w].plan = list /\ job'[w].at = m /\ Note(w)' = n
      BY <2>3, <2>6, <3>1 DEF Event, Note
    <3>6. AfterSend(w) = IF m + 1 < Len(list) THEN "record" ELSE "delete"
      BY <3>1, <2>6 DEF AfterSend
    <3> QED BY <3>1, <3>2, <3>3, <3>4, <3>5, <3>6 DEF Knows
  <2>7. JobsKnow'
    BY <2>3, <2>6, <1>d DEF JobsKnow, Event
  <2> QED BY <2>4, <2>7
<1>4. ASSUME NEW w \in Senders, Record(w) PROVE JobsKnow' /\ RowsKnow'
  <2>1. job[w] # Idle /\ job[w] \in Job /\ Event(w) \in Events /\ job[w].at \in Nat
        /\ job[w].phase = "record"
    BY <1>4, ListsAreLists DEF Record, Working
  <2>2. job'[w].event = job[w].event /\ job'[w].at = job[w].at + 1 /\ job'[w].plan = job[w].plan
        /\ job'[w].phase = "store" /\ (\A v \in Senders \ {w} : job'[v] = job[v]) /\ stage' = stage
        /\ answer' = answer /\ told' = told /\ tried' = tried
    BY <1>4, <2>1 DEF Record, TypeOK, Job, planVars, outVars
  <2>3. ASSUME NEW e \in steady', e = Event(w), NEW list, list = answer[e], NEW m, m = job[w].at
        PROVE  ReachedUpTo(e, list, m + 1)'
    <3>1. e \in steady /\ list \in Seq(Notes) /\ m \in Nat /\ Len(list) \in Nat
          /\ job[w].plan = list /\ Reached(e, list[m + 1]) /\ ReachedUpTo(e, list, m)
      BY <1>a, <2>1, <2>3, ListsAreLists DEF JobsKnow, Knows, Note
    <3>2. \A k \in 1..Len(list) : k <= m + 1 => k <= m \/ k = m + 1
      BY <3>1
    <3>3. ReachedUpTo(e, list, m + 1)
      BY <3>1, <3>2 DEF ReachedUpTo
    <3> QED BY <3>3, <2>2 DEF ReachedUpTo, Reached
  <2>4. ASSUME NEW e \in steady', e = Event(w), NEW list, list = answer[e], NEW m, m = job[w].at
        PROVE  Knows(w)'
    <3>1. ReachedUpTo(e, list, m + 1)'
      BY <2>3, <2>4
    <3>2. Event(w)' = e /\ answer'[e] = list /\ job'[w].at = m + 1 /\ job'[w].plan = list
      BY <2>1, <2>2, <2>4, <1>a DEF Event, JobsKnow, Knows
    <3> QED BY <3>1, <3>2, <2>2 DEF Knows
  <2>5. JobsKnow'
    BY <2>2, <2>4, <1>d DEF JobsKnow, Event
  <2>6. ASSUME NEW e \in steady'
        PROVE  /\ ReachedUpTo(e, answer[e], sent[e])'
               /\ stage'[e] = "DONE" => ReachedUpTo(e, answer[e], Len(answer[e]))'
    <3>1. CASE sent'[e] = sent[e]
      BY <3>1, <2>2, <1>c
    <3>2. CASE e = Event(w) /\ sent'[e] = job[w].at + 1
      <4>1. ReachedUpTo(e, answer[e], sent[e])'
        BY <3>2, <2>2, <2>3 DEF ReachedUpTo
      <4>2. stage'[e] = "DONE" => ReachedUpTo(e, answer[e], Len(answer[e]))'
        BY <2>2, <1>a DEF RowsKnow, ReachedUpTo, Reached
      <4> QED BY <4>1, <4>2
    <3> QED BY <1>4, <1>a, <3>1, <3>2 DEF Record, OnRow, TypeOK
  <2> QED BY <2>5, <2>6 DEF RowsKnow
<1>5. ASSUME NEW w \in Senders, Delete(w) PROVE JobsKnow' /\ RowsKnow'
  <2>1. job[w] # Idle /\ job[w] \in Job /\ Event(w) \in Events /\ job[w].phase = "delete"
    BY <1>5, ListsAreLists DEF Delete, Working
  <2>2. job'[w] = Idle /\ (\A v \in Senders \ {w} : job'[v] = job[v]) /\ sent' = sent
        /\ answer' = answer /\ told' = told /\ tried' = tried
    BY <1>5, <2>1 DEF Delete, TypeOK, planVars, outVars
  <2>3. JobsKnow'
    BY <2>2, <1>d DEF JobsKnow, Event
  <2>4. ASSUME NEW e \in steady'
        PROVE  /\ ReachedUpTo(e, answer[e], sent[e])'
               /\ stage'[e] = "DONE" => ReachedUpTo(e, answer[e], Len(answer[e]))'
    <3>1. CASE e = Event(w)
      <4>1. ReachedUpTo(e, answer[e], Len(answer[e])) /\ ReachedUpTo(e, answer[e], sent[e])
        BY <3>1, <2>1, <1>a DEF JobsKnow, Knows, RowsKnow
      <4> QED BY <4>1, <2>2 DEF ReachedUpTo, Reached
    <3>2. CASE e # Event(w)
      <4>1. stage'[e] = stage[e]
        BY <3>2, <1>5, <1>a DEF Delete, OnRow, TypeOK
      <4> QED BY <4>1, <2>2, <1>c
    <3> QED BY <3>1, <3>2
  <2> QED BY <2>3, <2>4 DEF RowsKnow
<1>6. ASSUME NEW w \in Senders, Fail(w) \/ Die(w) PROVE JobsKnow' /\ RowsKnow'
  <2>1. job'[w] = Idle /\ (\A v \in Senders \ {w} : job'[v] = job[v]) /\ sent' = sent /\ stage' = stage
    BY <1>6 DEF Fail, Die, TypeOK, rowVars
  <2>2. RowsKnow'
    BY <1>c, <2>1 DEF RowsKnow
  <2>3. JobsKnow'
    BY <2>1, <1>d DEF JobsKnow, Event
  <2> QED BY <2>2, <2>3
<1>7. ASSUME NEW e \in Events, EventNext(e) PROVE JobsKnow' /\ RowsKnow'
  <2>1. job' = job /\ sent' = sent /\ \A d \in Events : stage'[d] = "DONE" => stage[d] = "DONE"
    BY <1>7 DEF EventNext, Emit, Enqueue, Lose, Stir, Prune, TypeOK, rowVars
  <2>2. RowsKnow'
    BY <1>a, <1>c, <2>1 DEF RowsKnow
  <2>3. JobsKnow'
    BY <2>1, <1>d DEF JobsKnow, Event
  <2> QED BY <2>2, <2>3
<1>8. ASSUME Tick PROVE JobsKnow' /\ RowsKnow'
  <2>1. sent' = sent /\ stage' = stage
        /\ \A v \in Senders : job'[v] = IF job[v] = Idle THEN Idle
                                        ELSE [job[v] EXCEPT !.age = Older(job[v].age, Lease + 1)]
    BY <1>8 DEF Tick
  <2>2. \A v \in Senders : job'[v] # Idle =>
          /\ job[v] # Idle
          /\ job'[v].event = job[v].event /\ job'[v].at = job[v].at
          /\ job'[v].plan = job[v].plan /\ job'[v].phase = job[v].phase
    BY <2>1, ListsAreLists DEF Job
  <2>3. RowsKnow'
    BY <1>c, <2>1 DEF RowsKnow
  <2>4. JobsKnow'
    BY <2>2, <1>d DEF JobsKnow, Event
  <2> QED BY <2>3, <2>4
<1>9. ASSUME UNCHANGED <<job, stage, sent>> PROVE JobsKnow' /\ RowsKnow'
  <2>1. RowsKnow'
    BY <1>c, <1>9 DEF RowsKnow
  <2>2. JobsKnow'
    BY <1>9, <1>d DEF JobsKnow, Event
  <2> QED BY <2>1, <2>2
<1> HIDE DEF JobsKnow, RowsKnow
<1> QED
  BY <1>1, <1>2, <1>3, <1>4, <1>5, <1>6, <1>7, <1>8, <1>9 DEF Next, SendNext, Read, vars, rowVars

-----------------------------------------------------------------------------

LEMMA InitInv == Init => Inv
  BY NumbersAssumption, NullsAssumption
  DEF Init, Inv, TypeOK, Stage, JobsPlaced, JobsKnow, RowsKnow, ClaimsKnow, OneSenderInTime, ReachedUpTo

LEMMA StepInv == Inv /\ [Next]_vars => Inv'
  BY StepTyped, StepPlaced, StepKnows, StepClaims DEF Inv

LEMMA InvHolds == Spec => []Inv
  BY InitInv, StepInv, PTL DEF Spec

\* Every reachable state of the outbox is well typed.
THEOREM TypeCorrect == Spec => []TypeOK
  BY InvHolds, PTL DEF Inv

\* A row disappears as worked off only when all it called for was reached, whichever calls
\* stopped, failed, or took the row over (process).
THEOREM NobodySkippedHolds == Spec => []NobodySkipped
<1>1. Inv => NobodySkipped
  <2> SUFFICES ASSUME Inv, NEW e \in steady, stage[e] = "DONE", NEW n \in Range(answer[e])
               PROVE  Reached(e, n)
    BY DEF NobodySkipped, Reached
  <2>1. answer[e] \in Seq(Notes)
    BY ListsAreLists DEF Inv, TypeOK
  <2>2. PICK k \in 1..Len(answer[e]) : answer[e][k] = n
    BY <2>1 DEF Range
  <2>3. ReachedUpTo(e, answer[e], Len(answer[e]))
    BY DEF Inv, RowsKnow
  <2> QED BY <2>1, <2>2, <2>3 DEF ReachedUpTo
<1> QED BY <1>1, InvHolds, PTL

\* While no call outlived its claim, a row has one sender (the UPDATE of process).
THEOREM OneSenderInTimeHolds == Spec => []OneSenderInTime
  BY InvHolds, PTL DEF Inv

-----------------------------------------------------------------------------
(* How often somebody is told. Every call under way that may still write the       *)
(* notification holds one of the attempts that were counted, and every call that   *)
(* is about to push it has written it.                                             *)

MayTell(w, n) ==
  \/ job[w].phase = "plan"
  \/ /\ job[w].phase # "delete"
     /\ \E k \in 1..Len(job[w].plan) : /\ job[w].plan[k] = n
                                       /\ job[w].at + 1 < k \/ (job[w].at + 1 = k /\ job[w].phase = "store")
Tellers(e, n) == {w \in Senders : job[w] # Idle /\ Event(w) = e /\ MayTell(w, n)}
Pushers(e, n) == {w \in Senders : job[w] # Idle /\ Event(w) = e /\ job[w].phase = "push" /\ Note(w) = n}

TellsCounted(e, n) ==
  IsFiniteSet(Tellers(e, n)) /\ told[e][n] + Cardinality(Tellers(e, n)) <= attempts[e]
PushesCounted(e, n) ==
  IsFiniteSet(Pushers(e, n)) /\ tried[e][n] + Cardinality(Pushers(e, n)) <= told[e][n]
Counted == \A e \in Events, n \in Notes : TellsCounted(e, n) /\ PushesCounted(e, n)
PlansDistinct == \A w \in Senders : job[w] # Idle => IsInjective(job[w].plan)

\* A set that holds no more than another, or at most one more or certainly one less.
LEMMA Counts ==
  ASSUME NEW S, NEW T, IsFiniteSet(S), NEW x
  PROVE  /\ Cardinality(S) \in Nat
         /\ T \subseteq S => IsFiniteSet(T) /\ Cardinality(T) \in Nat /\ Cardinality(T) <= Cardinality(S)
         /\ T \subseteq S \cup {x} => IsFiniteSet(T) /\ Cardinality(T) \in Nat /\ Cardinality(T) <= Cardinality(S) + 1
         /\ x \in S /\ T \subseteq S \ {x} => IsFiniteSet(T) /\ Cardinality(T) \in Nat /\ Cardinality(T) + 1 <= Cardinality(S)
<1>1. Cardinality(S) \in Nat
  BY FS_CardinalityType
<1>2. ASSUME T \subseteq S PROVE IsFiniteSet(T) /\ Cardinality(T) \in Nat /\ Cardinality(T) <= Cardinality(S)
  BY <1>2, FS_Subset, FS_CardinalityType
<1>3. ASSUME T \subseteq S \cup {x}
      PROVE  IsFiniteSet(T) /\ Cardinality(T) \in Nat /\ Cardinality(T) <= Cardinality(S) + 1
  <2>1. IsFiniteSet(S \cup {x}) /\ Cardinality(S \cup {x}) = IF x \in S THEN Cardinality(S) ELSE Cardinality(S) + 1
    BY FS_AddElement
  <2>2. IsFiniteSet(T) /\ Cardinality(T) \in Nat /\ Cardinality(T) <= Cardinality(S \cup {x})
    BY <1>3, <2>1, FS_Subset, FS_CardinalityType
  <2> QED BY <1>1, <2>1, <2>2
<1>4. ASSUME x \in S, T \subseteq S \ {x}
      PROVE  IsFiniteSet(T) /\ Cardinality(T) \in Nat /\ Cardinality(T) + 1 <= Cardinality(S)
  <2>1. IsFiniteSet(S \ {x}) /\ Cardinality(S \ {x}) = Cardinality(S) - 1
    BY <1>4, FS_RemoveElement
  <2>2. IsFiniteSet(T) /\ Cardinality(T) \in Nat /\ Cardinality(T) <= Cardinality(S \ {x})
    BY <1>4, <2>1, FS_Subset, FS_CardinalityType
  <2> QED BY <1>1, <2>1, <2>2
<1> QED BY <1>1, <1>2, <1>3, <1>4

LEMMA StepDistinct ==
  ASSUME TypeOK, JobsPlaced, PlansDistinct, [Next]_vars
  PROVE  PlansDistinct'
<1>1. ASSUME NEW w \in Senders, NEW e \in Events, Claim(w, e) PROVE PlansDistinct'
  <2>1. job'[w].plan = <<>> /\ \A v \in Senders \ {w} : job'[v] = job[v]
    BY <1>1 DEF Claim, TypeOK
  <2>2. IsInjective(<<>>)
    BY DEF IsInjective
  <2> QED BY <2>1, <2>2 DEF PlansDistinct
<1>2. ASSUME NEW w \in Senders, MakePlan(w) PROVE PlansDistinct'
  <2>1. job[w] # Idle /\ job[w] \in Job /\ answer[Event(w)] \in Lists
    BY <1>2, ListsAreLists DEF MakePlan, Working, TypeOK
  <2>2. job'[w].plan = answer[Event(w)] /\ \A v \in Senders \ {w} : job'[v] = job[v]
    BY <1>2, <2>1 DEF MakePlan, TypeOK, Job
  <2> QED BY <2>1, <2>2, ListsAssumption DEF PlansDistinct
<1>3. ASSUME NEW w \in Senders, Store(w) \/ Push(w) \/ Record(w) \/ Delete(w) \/ Fail(w) \/ Die(w)
      PROVE  PlansDistinct'
  <2>1. job[w] # Idle /\ job[w] \in Job
    BY <1>3, ListsAreLists DEF Store, Push, Record, Delete, Fail, Die, Working
  <2>2. (job'[w] = Idle \/ job'[w].plan = job[w].plan) /\ \A v \in Senders \ {w} : job'[v] = job[v]
    <3>1. CASE Store(w)
      BY <3>1, <2>1 DEF Store, TypeOK, Job
    <3>2. CASE Push(w)
      BY <3>2, <2>1 DEF Push, TypeOK, Job
    <3>3. CASE Record(w)
      BY <3>3, <2>1 DEF Record, TypeOK, Job
    <3>4. CASE Delete(w) \/ Fail(w) \/ Die(w)
      BY <3>4 DEF Delete, Fail, Die, TypeOK
    <3> QED BY <1>3, <3>1, <3>2, <3>3, <3>4
  <2> QED BY <2>1, <2>2 DEF PlansDistinct
<1>4. CASE Tick
  <2>1. \A w \in Senders : job'[w] # Idle => job[w] # Idle /\ job'[w].plan = job[w].plan
    BY <1>4, ListsAreLists DEF Tick, Job
  <2> QED BY <2>1 DEF PlansDistinct
<1>5. CASE UNCHANGED job
  BY <1>5 DEF PlansDistinct
<1> QED
  BY <1>1, <1>2, <1>3, <1>4, <1>5
  DEF Next, SendNext, EventNext, Emit, Enqueue, Lose, Stir, Prune, Read, vars

\* A step that writes and pushes nothing, and after which no call has more before it than it had.
LEMMA CountsStay ==
  ASSUME TypeOK, Counted, told' = told, tried' = tried,
         \A e \in Events : attempts'[e] >= attempts[e] /\ attempts'[e] \in Nat,
         \A e \in Events, n \in Notes : Tellers(e, n)' \subseteq Tellers(e, n) /\ Pushers(e, n)' \subseteq Pushers(e, n)
  PROVE  Counted'
<1> SUFFICES ASSUME NEW e \in Events, NEW n \in Notes PROVE TellsCounted(e, n)' /\ PushesCounted(e, n)'
  BY DEF Counted
<1> DEFINE S == Tellers(e, n) T == Tellers(e, n)' P == Pushers(e, n) Q == Pushers(e, n)'
<1>1. /\ IsFiniteSet(S) /\ told[e][n] + Cardinality(S) <= attempts[e]
      /\ IsFiniteSet(P) /\ tried[e][n] + Cardinality(P) <= told[e][n]
  BY DEF Counted, TellsCounted, PushesCounted
<1>2. T \subseteq S /\ Q \subseteq P
  OBVIOUS
<1>3. told[e][n] \in Nat /\ tried[e][n] \in Nat /\ attempts[e] \in Nat
  BY NumbersAssumption DEF TypeOK
<1> HIDE DEF S, T, P, Q
<1>4. IsFiniteSet(T) /\ Cardinality(T) \in Nat /\ Cardinality(T) <= Cardinality(S) /\ Cardinality(S) \in Nat
  BY <1>1, <1>2, Counts
<1>5. IsFiniteSet(Q) /\ Cardinality(Q) \in Nat /\ Cardinality(Q) <= Cardinality(P) /\ Cardinality(P) \in Nat
  BY <1>1, <1>2, Counts
<1>6. told'[e][n] + Cardinality(T) <= attempts'[e] /\ tried'[e][n] + Cardinality(Q) <= told'[e][n]
  BY <1>1, <1>3, <1>4, <1>5
<1> QED BY <1>4, <1>5, <1>6 DEF S, T, P, Q, TellsCounted, PushesCounted

\* A claim adds one attempt and one call that may tell.
LEMMA ClaimCounts ==
  ASSUME TypeOK, Counted, NEW w \in Senders, NEW c \in Events, Claim(w, c)
  PROVE  Counted'
<1>1. /\ job[w] = Idle /\ job'[w].event = c /\ job'[w].phase = "plan" /\ told' = told /\ tried' = tried
      /\ \A v \in Senders \ {w} : job'[v] = job[v]
      /\ \A e \in Events : attempts'[e] = IF e = c THEN attempts[e] + 1 ELSE attempts[e]
  BY DEF Claim, TypeOK, outVars
<1> SUFFICES ASSUME NEW e \in Events, NEW n \in Notes PROVE TellsCounted(e, n)' /\ PushesCounted(e, n)'
  BY DEF Counted
<1> DEFINE S == Tellers(e, n) T == Tellers(e, n)' P == Pushers(e, n) Q == Pushers(e, n)'
<1>2. /\ IsFiniteSet(S) /\ told[e][n] + Cardinality(S) <= attempts[e]
      /\ IsFiniteSet(P) /\ tried[e][n] + Cardinality(P) <= told[e][n]
  BY DEF Counted, TellsCounted, PushesCounted
<1>3. T \subseteq S \cup {w} /\ (e # c => T \subseteq S) /\ Q \subseteq P
  BY <1>1 DEF Tellers, Pushers, MayTell, Event, Note
<1>4. told[e][n] \in Nat /\ tried[e][n] \in Nat /\ attempts[e] \in Nat
  BY NumbersAssumption DEF TypeOK
<1> HIDE DEF S, T, P, Q
<1>5. IsFiniteSet(T) /\ Cardinality(T) \in Nat /\ Cardinality(S) \in Nat /\ Cardinality(T) <= Cardinality(S) + 1
      /\ (e # c => Cardinality(T) <= Cardinality(S))
  BY <1>2, <1>3, Counts
<1>6. IsFiniteSet(Q) /\ Cardinality(Q) \in Nat /\ Cardinality(Q) <= Cardinality(P) /\ Cardinality(P) \in Nat
  BY <1>2, <1>3, Counts
<1>7. told'[e][n] + Cardinality(T) <= attempts'[e] /\ tried'[e][n] + Cardinality(Q) <= told'[e][n]
  BY <1>1, <1>2, <1>4, <1>5, <1>6
<1> QED BY <1>5, <1>6, <1>7 DEF S, T, P, Q, TellsCounted, PushesCounted

\* A call that writes the notification it is at may not write it again: nobody is on its list twice.
LEMMA StoreCounts ==
  ASSUME TypeOK, JobsPlaced, PlansDistinct, Counted, NEW w \in Senders, Store(w)
  PROVE  Counted'
<1>1. job[w] # Idle /\ job[w] \in Job /\ job[w].phase = "store" /\ Event(w) \in Events /\ Note(w) \in Notes
      /\ job[w].at \in Nat /\ job[w].at + 1 \in 1..Len(job[w].plan) /\ Len(job[w].plan) \in Nat
  BY ListsAreLists, NoteTyped DEF Store, Working
<1>2. /\ job'[w].event = job[w].event /\ job'[w].at = job[w].at /\ job'[w].plan = job[w].plan
      /\ job'[w].phase \in {"push", "record", "delete"}
      /\ \A v \in Senders \ {w} : job'[v] = job[v]
  BY <1>1 DEF Store, TypeOK, Job, AfterSend
<1>3. attempts' = attempts /\ tried' = tried
      /\ \A e \in Events, n \in Notes :
           told'[e][n] = IF e = Event(w) /\ n = Note(w) THEN told[e][n] + 1 ELSE told[e][n]
  BY <1>1 DEF Store, TypeOK, rowVars
<1> SUFFICES ASSUME NEW e \in Events, NEW n \in Notes PROVE TellsCounted(e, n)' /\ PushesCounted(e, n)'
  BY DEF Counted
<1> DEFINE S == Tellers(e, n) T == Tellers(e, n)' P == Pushers(e, n) Q == Pushers(e, n)'
<1> DEFINE Mine == e = Event(w) /\ n = Note(w)
<1>4. /\ IsFiniteSet(S) /\ told[e][n] + Cardinality(S) <= attempts[e]
      /\ IsFiniteSet(P) /\ tried[e][n] + Cardinality(P) <= told[e][n]
  BY DEF Counted, TellsCounted, PushesCounted
<1>5. MayTell(w, n)' => MayTell(w, n) /\ n # Note(w)
  <2> SUFFICES ASSUME MayTell(w, n)' PROVE MayTell(w, n) /\ n # Note(w)
    OBVIOUS
  <2>1. PICK k \in 1..Len(job[w].plan) : job[w].plan[k] = n /\ job[w].at + 1 < k
    BY <1>2 DEF MayTell
  <2>2. IsInjective(job[w].plan) /\ DOMAIN job[w].plan = 1..Len(job[w].plan)
    BY <1>1, ListsAreLists DEF PlansDistinct
  <2>3. n # Note(w)
    BY <1>1, <2>1, <2>2 DEF IsInjective, Note
  <2> QED BY <1>1, <2>1, <2>3 DEF MayTell
<1>6. \A v \in Senders \ {w} : (MayTell(v, n)' <=> MayTell(v, n)) /\ Event(v)' = Event(v) /\ Note(v)' = Note(v)
  BY <1>2 DEF MayTell, Event, Note
<1>7. Event(w)' = Event(w) /\ Note(w)' = Note(w) /\ MayTell(w, Note(w))
  BY <1>1, <1>2 DEF Event, Note, MayTell
<1>8. T \subseteq S /\ (Mine => w \in S /\ T \subseteq S \ {w})
  BY <1>1, <1>2, <1>5, <1>6, <1>7 DEF Tellers
<1>9. Q \subseteq P \cup {w} /\ (~Mine => Q \subseteq P)
  BY <1>1, <1>2, <1>6, <1>7 DEF Pushers
<1>10. told[e][n] \in Nat /\ tried[e][n] \in Nat /\ attempts[e] \in Nat
  BY NumbersAssumption DEF TypeOK
<1>11. told'[e][n] = IF Mine THEN told[e][n] + 1 ELSE told[e][n]
  BY <1>3
<1> HIDE DEF S, T, P, Q, Mine
<1>12. IsFiniteSet(T) /\ Cardinality(T) \in Nat /\ Cardinality(S) \in Nat /\ Cardinality(T) <= Cardinality(S)
       /\ (Mine => Cardinality(T) + 1 <= Cardinality(S))
  BY <1>4, <1>8, Counts
<1>13. IsFiniteSet(Q) /\ Cardinality(Q) \in Nat /\ Cardinality(P) \in Nat /\ Cardinality(Q) <= Cardinality(P) + 1
       /\ (~Mine => Cardinality(Q) <= Cardinality(P))
  BY <1>4, <1>9, Counts
<1>14. told'[e][n] + Cardinality(T) <= attempts'[e] /\ tried'[e][n] + Cardinality(Q) <= told'[e][n]
  BY <1>3, <1>4, <1>10, <1>11, <1>12, <1>13
<1> QED BY <1>12, <1>13, <1>14 DEF S, T, P, Q, TellsCounted, PushesCounted

LEMMA PushCounts ==
  ASSUME TypeOK, JobsPlaced, Counted, NEW w \in Senders, Push(w)
  PROVE  Counted'
<1>1. job[w] # Idle /\ job[w] \in Job /\ job[w].phase = "push" /\ Event(w) \in Events /\ Note(w) \in Notes
  BY ListsAreLists, NoteTyped DEF Push, Working
<1>2. /\ job'[w].event = job[w].event /\ job'[w].at = job[w].at /\ job'[w].plan = job[w].plan
      /\ job'[w].phase \in {"record", "delete"}
      /\ \A v \in Senders \ {w} : job'[v] = job[v]
  BY <1>1 DEF Push, TypeOK, Job, AfterSend
<1>3. attempts' = attempts /\ told' = told
      /\ \A e \in Events, n \in Notes :
           tried'[e][n] = IF e = Event(w) /\ n = Note(w) THEN tried[e][n] + 1 ELSE tried[e][n]
  BY <1>1 DEF Push, TypeOK, rowVars
<1> SUFFICES ASSUME NEW e \in Events, NEW n \in Notes PROVE TellsCounted(e, n)' /\ PushesCounted(e, n)'
  BY DEF Counted
<1> DEFINE S == Tellers(e, n) T == Tellers(e, n)' P == Pushers(e, n) Q == Pushers(e, n)'
<1> DEFINE Mine == e = Event(w) /\ n = Note(w)
<1>4. /\ IsFiniteSet(S) /\ told[e][n] + Cardinality(S) <= attempts[e]
      /\ IsFiniteSet(P) /\ tried[e][n] + Cardinality(P) <= told[e][n]
  BY DEF Counted, TellsCounted, PushesCounted
<1>5. MayTell(w, n)' => MayTell(w, n)
  BY <1>1, <1>2 DEF MayTell
<1>6. \A v \in Senders \ {w} : (MayTell(v, n)' <=> MayTell(v, n)) /\ Event(v)' = Event(v) /\ Note(v)' = Note(v)
  BY <1>2 DEF MayTell, Event, Note
<1>7. Event(w)' = Event(w) /\ Note(w)' = Note(w)
  BY <1>2 DEF Event, Note
<1>8. T \subseteq S
  BY <1>1, <1>2, <1>5, <1>6, <1>7 DEF Tellers
<1>9. Q \subseteq P /\ (Mine => w \in P /\ Q \subseteq P \ {w})
  BY <1>1, <1>2, <1>6, <1>7 DEF Pushers
<1>10. told[e][n] \in Nat /\ tried[e][n] \in Nat /\ attempts[e] \in Nat
  BY NumbersAssumption DEF TypeOK
<1>11. tried'[e][n] = IF Mine THEN tried[e][n] + 1 ELSE tried[e][n]
  BY <1>3
<1> HIDE DEF S, T, P, Q, Mine
<1>12. IsFiniteSet(T) /\ Cardinality(T) \in Nat /\ Cardinality(S) \in Nat /\ Cardinality(T) <= Cardinality(S)
  BY <1>4, <1>8, Counts
<1>13. IsFiniteSet(Q) /\ Cardinality(Q) \in Nat /\ Cardinality(P) \in Nat /\ Cardinality(Q) <= Cardinality(P)
       /\ (Mine => Cardinality(Q) + 1 <= Cardinality(P))
  BY <1>4, <1>9, Counts
<1>14. told'[e][n] + Cardinality(T) <= attempts'[e] /\ tried'[e][n] + Cardinality(Q) <= told'[e][n]
  BY <1>3, <1>4, <1>10, <1>11, <1>12, <1>13
<1> QED BY <1>12, <1>13, <1>14 DEF S, T, P, Q, TellsCounted, PushesCounted

LEMMA StepCounts ==
  ASSUME TypeOK, JobsPlaced, PlansDistinct, Counted, [Next]_vars
  PROVE  Counted'
<1>a. \A e \in Events : attempts[e] \in Nat
  BY NumbersAssumption DEF TypeOK
<1>1. ASSUME NEW w \in Senders, MakePlan(w) \/ Record(w) PROVE Counted'
  <2>1. job[w] # Idle /\ job[w] \in Job /\ job[w].at \in Nat /\ Len(job[w].plan) \in Nat
        /\ (MakePlan(w) => job[w].phase = "plan") /\ (Record(w) => job[w].phase = "record")
    BY <1>1, ListsAreLists DEF MakePlan, Record, Working
  <2>2. job'[w].event = job[w].event /\ job'[w].phase \in {"store", "delete"}
        /\ (Record(w) => job'[w].plan = job[w].plan /\ job'[w].at = job[w].at + 1)
        /\ \A v \in Senders \ {w} : job'[v] = job[v]
    <3>1. CASE MakePlan(w)
      BY <3>1, <2>1 DEF MakePlan, TypeOK, Job, NextPhase, Record, Working
    <3>2. CASE Record(w)
      BY <3>2, <2>1 DEF Record, TypeOK, Job
    <3> QED BY <1>1, <3>1, <3>2
  <2>3. told' = told /\ tried' = tried /\ attempts' = attempts
    BY <1>1 DEF MakePlan, Record, rowVars, outVars
  <2>4. ASSUME NEW n \in Notes PROVE MayTell(w, n)' => MayTell(w, n)
    <3>1. CASE MakePlan(w)
      BY <3>1, <2>1 DEF MayTell
    <3>2. CASE Record(w)
      BY <3>2, <2>1, <2>2 DEF MayTell
    <3> QED BY <1>1, <3>1, <3>2
  <2>5. \A v \in Senders \ {w}, n \in Notes :
          (MayTell(v, n)' <=> MayTell(v, n)) /\ Event(v)' = Event(v) /\ Note(v)' = Note(v)
    BY <2>2 DEF MayTell, Event, Note
  <2>6. Event(w)' = Event(w)
    BY <2>2 DEF Event
  <2>7. \A e \in Events, n \in Notes :
          Tellers(e, n)' \subseteq Tellers(e, n) /\ Pushers(e, n)' \subseteq Pushers(e, n)
    BY <2>1, <2>2, <2>4, <2>5, <2>6 DEF Tellers, Pushers
  <2> QED BY <1>a, <2>3, <2>7, CountsStay
<1>2. ASSUME NEW w \in Senders, Delete(w) \/ Fail(w) \/ Die(w) PROVE Counted'
  <2>1. job'[w] = Idle /\ (\A v \in Senders \ {w} : job'[v] = job[v])
        /\ told' = told /\ tried' = tried /\ attempts' = attempts
    BY <1>2 DEF Delete, Fail, Die, TypeOK, rowVars, outVars
  <2>2. \A e \in Events, n \in Notes :
          Tellers(e, n)' \subseteq Tellers(e, n) /\ Pushers(e, n)' \subseteq Pushers(e, n)
    BY <2>1 DEF Tellers, Pushers, MayTell, Event, Note
  <2> QED BY <1>a, <2>1, <2>2, CountsStay
<1>3. ASSUME Tick PROVE Counted'
  <2>1. \A v \in Senders : job'[v] # Idle =>
          /\ job[v] # Idle
          /\ job'[v].event = job[v].event /\ job'[v].at = job[v].at
          /\ job'[v].plan = job[v].plan /\ job'[v].phase = job[v].phase
    BY <1>3, ListsAreLists DEF Tick, Job
  <2>2. told' = told /\ tried' = tried /\ attempts' = attempts
    BY <1>3 DEF Tick, outVars
  <2>3. \A e \in Events, n \in Notes :
          Tellers(e, n)' \subseteq Tellers(e, n) /\ Pushers(e, n)' \subseteq Pushers(e, n)
    BY <2>1 DEF Tellers, Pushers, MayTell, Event, Note
  <2> QED BY <1>a, <2>2, <2>3, CountsStay
<1>4. CASE UNCHANGED <<job, told, tried, attempts>>
  <2>1. \A e \in Events, n \in Notes :
          Tellers(e, n)' \subseteq Tellers(e, n) /\ Pushers(e, n)' \subseteq Pushers(e, n)
    BY <1>4 DEF Tellers, Pushers, MayTell, Event, Note
  <2> QED BY <1>a, <1>4, <2>1, CountsStay
<1> HIDE DEF Counted
<1> QED
  BY <1>1, <1>2, <1>3, <1>4, ClaimCounts, StoreCounts, PushCounts
  DEF Next, SendNext, EventNext, Emit, Enqueue, Lose, Stir, Prune, Read, vars, rowVars, outVars

LEMMA CountsHold == Spec => [](Counted /\ PlansDistinct)
<1>1. Init => Counted /\ PlansDistinct
  <2> SUFFICES ASSUME Init PROVE Counted /\ PlansDistinct
    OBVIOUS
  <2>1. PlansDistinct
    BY DEF Init, PlansDistinct
  <2>2. \A e \in Events, n \in Notes : Tellers(e, n) = {} /\ Pushers(e, n) = {}
    BY DEF Init, Tellers, Pushers
  <2>3. \A e \in Events, n \in Notes : told[e][n] = 0 /\ tried[e][n] = 0 /\ attempts[e] = 0
    BY DEF Init
  <2>4. IsFiniteSet({}) /\ 0 + Cardinality({}) <= 0
    BY FS_EmptySet
  <2>5. Counted
    BY <2>2, <2>3, <2>4, Zenon DEF Counted, TellsCounted, PushesCounted
  <2> QED BY <2>1, <2>5
<1>2. Inv /\ Counted /\ PlansDistinct /\ [Next]_vars => (Counted /\ PlansDistinct)'
  BY StepCounts, StepDistinct DEF Inv
<1> QED BY <1>1, <1>2, InvHolds, PTL DEF Spec

\* Nobody finds an event more often than it is tried, nor gets a push the centre lacks, however
\* many calls take the row from one another (process, deliver).
THEOREM RepeatsBoundedHolds == Spec => []RepeatsBounded
<1>1. Inv /\ Counted => RepeatsBounded
  <2> SUFFICES ASSUME Inv, Counted, NEW e \in Events, NEW n \in Notes
               PROVE  told[e][n] <= MaxAttempts /\ tried[e][n] <= told[e][n]
    BY DEF RepeatsBounded
  <2>1. TellsCounted(e, n) /\ PushesCounted(e, n)
    BY DEF Counted
  <2>2. Cardinality(Tellers(e, n)) \in Nat /\ Cardinality(Pushers(e, n)) \in Nat
    BY <2>1, FS_CardinalityType DEF TellsCounted, PushesCounted
  <2>3. told[e][n] \in Nat /\ tried[e][n] \in Nat /\ attempts[e] \in Nat /\ attempts[e] <= MaxAttempts
    BY NumbersAssumption DEF Inv, TypeOK
  <2> QED BY <2>1, <2>2, <2>3, NumbersAssumption DEF TellsCounted, PushesCounted
<1> QED BY <1>1, InvHolds, CountsHold, PTL
-----------------------------------------------------------------------------
(* The outbox keeps what Delivery promises. *)

\* A call works on an event that is on disk, or was.
OnDisk == \A w \in Senders : job[w] # Idle => Promised!Kept(Event(w))

LEMMA StepOnDisk ==
  ASSUME TypeOK, OnDisk, [Next]_vars
  PROVE  OnDisk'
<1>1. \A e \in Events : Promised!Kept(e) => Promised!Kept(e)'
  <2>1. ASSUME NEW d \in Events, EventNext(d), NEW e \in Events, Promised!Kept(e)
        PROVE  Promised!Kept(e)'
    BY <2>1 DEF EventNext, Emit, Enqueue, Lose, Stir, Prune, Promised!Kept, TypeOK, rowVars
  <2>2. ASSUME NEW w \in Senders, Delete(w), NEW e \in Events, Promised!Kept(e)
        PROVE  Promised!Kept(e)'
    BY <2>2 DEF Delete, OnRow, Promised!Kept, TypeOK
  <2>3. stage' = stage => \A e \in Events : Promised!Kept(e) => Promised!Kept(e)'
    BY DEF Promised!Kept
  <2> QED
    BY <2>1, <2>2, <2>3
    DEF Next, SendNext, Claim, MakePlan, Store, Push, Record, Fail, Die, Read, Tick, vars, rowVars
<1>2. ASSUME NEW w \in Senders, job'[w] # Idle
      PROVE  \/ job[w] # Idle /\ Event(w)' = Event(w)
             \/ Event(w)' \in Events /\ Promised!Kept(Event(w)')
  <2>1. ASSUME NEW v \in Senders, NEW e \in Events, Claim(v, e)
        PROVE  \/ job[w] # Idle /\ Event(w)' = Event(w)
               \/ Event(w)' \in Events /\ Promised!Kept(Event(w)')
    BY <2>1, <1>2 DEF Claim, Claimable, Event, Promised!Kept, TypeOK
  <2>2. ASSUME NEW v \in Senders, Works(v) PROVE job[w] # Idle /\ Event(w)' = Event(w)
    <3>1. job[v] # Idle /\ job[v] \in Job
      BY <2>2, ListsAreLists DEF Works, MakePlan, Store, Push, Record, Delete, Working
    <3>2. CASE MakePlan(v)
      BY <3>1, <3>2, <1>2 DEF MakePlan, TypeOK, Job, Event
    <3>3. CASE Store(v)
      BY <3>1, <3>3, <1>2 DEF Store, TypeOK, Job, Event
    <3>4. CASE Push(v)
      BY <3>1, <3>4, <1>2 DEF Push, TypeOK, Job, Event
    <3>5. CASE Record(v)
      BY <3>1, <3>5, <1>2 DEF Record, TypeOK, Job, Event
    <3>6. CASE Delete(v)
      BY <3>1, <3>6, <1>2 DEF Delete, TypeOK, Event
    <3> QED BY <2>2, <3>2, <3>3, <3>4, <3>5, <3>6 DEF Works
  <2>3. ASSUME NEW v \in Senders, Fail(v) \/ Die(v) PROVE job[w] # Idle /\ Event(w)' = Event(w)
    BY <2>3, <1>2 DEF Fail, Die, TypeOK, Event
  <2>4. CASE Tick
    BY <2>4, <1>2, ListsAreLists DEF Tick, Job, Event
  <2>5. CASE UNCHANGED job
    BY <2>5, <1>2 DEF Event
  <2> QED
    BY <2>1, <2>2, <2>3, <2>4, <2>5
    DEF Next, SendNext, Works, EventNext, Emit, Enqueue, Lose, Stir, Prune, Read, vars
<1>3. \A w \in Senders : job[w] # Idle => Event(w) \in Events
  BY ListsAreLists
<1>4. ASSUME NEW w \in Senders, job'[w] # Idle PROVE Promised!Kept(Event(w))'
  <2>1. PICK e \in Events : e = Event(w)' /\ Promised!Kept(e)
    BY <1>2, <1>3, <1>4 DEF OnDisk
  <2>2. Promised!Kept(e)'
    BY <1>1, <2>1
  <2> QED BY <2>1, <2>2 DEF Promised!Kept
<1> QED BY <1>4 DEF OnDisk

LEMMA OnDiskHolds == Spec => []OnDisk
<1>1. Init => OnDisk
  BY DEF Init, OnDisk
<1>2. Inv /\ OnDisk /\ [Next]_vars => OnDisk'
  BY StepOnDisk DEF Inv
<1> QED BY <1>1, <1>2, InvHolds, PTL DEF Spec

\* Who is to hear of an event, as Delivery sees it.
Due == [e \in Events |-> IF e \in steady THEN Range(answer[e]) ELSE {}]

LEMMA TellStep ==
  ASSUME Inv, Counted, OnDisk, NEW w \in Senders, Store(w)
  PROVE  Event(w) \in Events /\ Note(w) \in Notes /\ Promised!Tell(Event(w), Note(w))
<1>1. job[w] # Idle /\ job[w].phase = "store" /\ Event(w) \in Events /\ Note(w) \in Notes
      /\ job[w].at + 1 \in 1..Len(job[w].plan)
  BY ListsAreLists, NoteTyped DEF Inv, Store, Working
<1> DEFINE S == Tellers(Event(w), Note(w))
<1>2. w \in S
  BY <1>1 DEF Tellers, MayTell, Note
<1>3. IsFiniteSet(S) /\ told[Event(w)][Note(w)] + Cardinality(S) <= attempts[Event(w)]
  BY <1>1 DEF Counted, TellsCounted
<1>4. attempts[Event(w)] \in Nat /\ attempts[Event(w)] <= MaxAttempts /\ told[Event(w)][Note(w)] \in Nat
  BY <1>1, NumbersAssumption DEF Inv, TypeOK
<1> HIDE DEF S
<1>5. Cardinality(S) \in Nat /\ Cardinality(S) >= 1
  BY <1>2, <1>3, FS_EmptySet, FS_CardinalityType
<1>6. told[Event(w)][Note(w)] < MaxAttempts
  BY <1>3, <1>4, <1>5, NumbersAssumption
<1>7. Promised!Kept(Event(w))
  BY <1>1 DEF OnDisk
<1>8. stage' = stage /\ answer' = answer /\ steady' = steady /\ tried' = tried
      /\ told' = [told EXCEPT ![Event(w)][Note(w)] = @ + 1]
  BY DEF Store, rowVars, planVars
<1> QED BY <1>1, <1>6, <1>7, <1>8 DEF Promised!Tell

LEMMA RingStep ==
  ASSUME Inv, Counted, NEW w \in Senders, Push(w)
  PROVE  Event(w) \in Events /\ Note(w) \in Notes /\ Promised!Ring(Event(w), Note(w))
<1>1. job[w] # Idle /\ job[w].phase = "push" /\ Event(w) \in Events /\ Note(w) \in Notes
  BY ListsAreLists, NoteTyped DEF Inv, Push, Working
<1> DEFINE P == Pushers(Event(w), Note(w))
<1>2. w \in P
  BY <1>1 DEF Pushers
<1>3. IsFiniteSet(P) /\ tried[Event(w)][Note(w)] + Cardinality(P) <= told[Event(w)][Note(w)]
  BY <1>1 DEF Counted, PushesCounted
<1>4. tried[Event(w)][Note(w)] \in Nat /\ told[Event(w)][Note(w)] \in Nat
  BY <1>1 DEF Inv, TypeOK
<1> HIDE DEF P
<1>5. Cardinality(P) \in Nat /\ Cardinality(P) >= 1
  BY <1>2, <1>3, FS_EmptySet, FS_CardinalityType
<1>6. tried[Event(w)][Note(w)] < told[Event(w)][Note(w)]
  BY <1>3, <1>4, <1>5
<1>7. stage' = stage /\ answer' = answer /\ steady' = steady /\ told' = told
      /\ tried' = [tried EXCEPT ![Event(w)][Note(w)] = @ + 1]
  BY DEF Push, rowVars, planVars
<1> QED BY <1>1, <1>6, <1>7 DEF Promised!Ring

\* The row is deleted: everybody the event's answer names was told, if it still is that answer.
LEMMA FinishStep ==
  ASSUME Inv, NEW w \in Senders, Delete(w)
  PROVE  \/ Event(w) \in Events /\ Promised!Finish(Event(w))
         \/ UNCHANGED Promised!deliveryVars
<1>1. job[w] # Idle /\ job[w].phase = "delete" /\ Event(w) \in Events
  BY ListsAreLists DEF Inv, Delete, Working
<1>2. sent' = sent /\ answer' = answer /\ steady' = steady /\ told' = told /\ tried' = tried
      /\ stage' = OnRow(Event(w), stage, "DONE")
  BY DEF Delete, planVars, outVars
<1>3. CASE stage[Event(w)] = "STORED"
  <2>1. ASSUME Event(w) \in steady, NEW n \in Range(answer[Event(w)]) PROVE told[Event(w)][n] > 0
    <3>1. ReachedUpTo(Event(w), answer[Event(w)], Len(answer[Event(w)])) /\ answer[Event(w)] \in Seq(Notes)
      BY <1>1, <2>1, ListsAreLists DEF Inv, JobsKnow, Knows
    <3>2. PICK k \in 1..Len(answer[Event(w)]) : answer[Event(w)][k] = n
      BY <2>1, <3>1 DEF Range
    <3> QED BY <3>1, <3>2 DEF ReachedUpTo, Reached
  <2>2. \A n \in Due[Event(w)] : told[Event(w)][n] > 0
    BY <1>1, <2>1 DEF Due
  <2>3. stage' = [stage EXCEPT ![Event(w)] = "DONE"]
    BY <1>2, <1>3 DEF OnRow
  <2>4. Promised!Finish(Event(w))
    BY <1>2, <1>3, <2>2, <2>3 DEF Promised!Finish, Promised!Becomes, Due
  <2> QED BY <1>1, <2>4
<1>4. CASE stage[Event(w)] # "STORED"
  BY <1>2, <1>4 DEF OnRow, Promised!deliveryVars
<1> QED BY <1>3, <1>4

LEMMA DeliveryStep ==
  ASSUME Inv, Counted, OnDisk, [Next]_vars
  PROVE  [Promised!DeliveryNext]_(Promised!deliveryVars)
<1>1. ASSUME NEW e \in Events, Emit(e) \/ Enqueue(e) \/ Lose(e) \/ Prune(e) PROVE Promised!Befall(e)
  <2>1. answer' = answer /\ steady' = steady /\ told' = told /\ tried' = tried
    BY <1>1 DEF Emit, Enqueue, Lose, Prune, planVars, outVars
  <2> QED BY <1>1, <2>1 DEF Emit, Enqueue, Lose, Prune, Promised!Befall, Promised!Becomes
<1>2. ASSUME NEW e \in Events, Stir(e) PROVE Promised!Excuse(e)
  <2>1. stage' = stage /\ told' = told /\ tried' = tried /\ steady' = steady \ {e}
        /\ \A d \in Events \ {e} : answer'[d] = answer[d]
    BY <1>2 DEF Inv, TypeOK, Stir, rowVars, outVars
  <2>2. Due' = [Due EXCEPT ![e] = {}]
    BY <2>1 DEF Due
  <2> QED BY <2>1, <2>2 DEF Due, Promised!Excuse
<1>3. ASSUME NEW w \in Senders, (\E e \in Events : Claim(w, e)) \/ MakePlan(w) \/ Record(w) \/ Fail(w) \/ Die(w)
      PROVE  UNCHANGED Promised!deliveryVars
  BY <1>3 DEF Claim, MakePlan, Record, Fail, Die, rowVars, planVars, outVars, Promised!deliveryVars
<1>4. ASSUME Tick \/ (\E n \in Notes : Read(n)) \/ UNCHANGED vars
      PROVE  UNCHANGED Promised!deliveryVars
  BY <1>4 DEF Tick, Read, vars, rowVars, planVars, outVars, Promised!deliveryVars
<1>5. ASSUME NEW w \in Senders, SendNext(w) PROVE [Promised!DeliveryNext]_(Promised!deliveryVars)
  BY <1>3, <1>5, TellStep, RingStep, FinishStep DEF SendNext, Promised!DeliveryNext
<1> QED BY <1>1, <1>2, <1>4, <1>5 DEF Next, EventNext, Promised!DeliveryNext

\* Nothing is sent of an event that is not on disk, a restart loses none that is, and a row goes as
\* done only when everybody was told: the outbox refines Delivery (enqueue, process, deliver).
THEOREM DeliveryImplemented == Spec => ImplementsDelivery
<1>1. Init => Promised!DeliveryInit
  <2> SUFFICES ASSUME Init PROVE Promised!DeliveryInit
    OBVIOUS
  <2>1. \A e \in Events : answer[e] \in Seq(Notes)
    BY ListsAssumption DEF Init
  <2>2. \A e \in Events : Range(answer[e]) \subseteq Notes
    BY <2>1 DEF Range
  <2> QED BY <2>2 DEF Init, Promised!DeliveryInit
<1>2. Inv /\ Counted /\ OnDisk /\ [Next]_vars => [Promised!DeliveryNext]_(Promised!deliveryVars)
  BY DeliveryStep
<1> QED
  BY <1>1, <1>2, InvHolds, CountsHold, OnDiskHolds, PTL
  DEF Spec, ImplementsDelivery, Promised!DeliverySpec
=============================================================================
