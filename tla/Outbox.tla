------------------------------- MODULE Outbox -------------------------------
(***************************************************************************)
(* The notification outbox: a fact on the event bus becomes a row, one     *)
(* worker claims the row, works off the list of notifications the event    *)
(* calls for, and deletes the row.  A claim that got old is taken over.    *)
(*                                                                         *)
(* process() is cut at its awaits: claim, plan, then for each notification *)
(* store, push and record, then delete; a worker may stop, and a statement *)
(* may fail, at every cut.  Two calls may be at work on one row.  The      *)
(* sweep's selection has the condition the claim repeats, so a claim here  *)
(* is that of enqueue or of any worker's sweep.  Time is the age of rows   *)
(* and claims, counted in ticks and not beyond what a condition tells      *)
(* apart.                                                                  *)
(***************************************************************************)
EXTENDS Integers, Sequences, Functions

CONSTANTS
  Events,       \* facts the services hand to the bus
  Notes,        \* notifications an event may call for, one per account or saved search; those
                \* of store: false (a chat message, a receipt sent again) are left out
  Folding,      \* those that carry a group_key (saved-search matches)
  Lists,        \* what plan() may answer: the rows of a query, in the order they come
  Senders,      \* calls of process() that may be under way at once
  MaxAttempts,  \* OUTBOX_MAX_ATTEMPTS
  Lease,        \* OUTBOX_CLAIM_SECONDS, in ticks
  Retention,    \* NOTIFICATION_RETENTION_DAYS, in ticks
  NoClaim,      \* claimed_at IS NULL
  Idle          \* no call of process()

ASSUME NumbersAssumption ==
  MaxAttempts \in Nat /\ Lease \in Nat /\ Retention \in Nat /\ Lease < Retention
\* The rows of one query: nobody is on a list twice.
ASSUME ListsAssumption == Lists \subseteq Seq(Notes) /\ \A list \in Lists : IsInjective(list)
ASSUME FoldingAssumption == Folding \subseteq Notes
ASSUME NullsAssumption == NoClaim \notin Nat

VARIABLES
  stage,    \* NEW, EMITTED (in a worker's memory only), STORED, DONE, LOST or PRUNED
  sent,     \* notification_outbox.sent
  attempts, \* notification_outbox.attempts
  claim,    \* age of claimed_at
  age,      \* age of created_at
  answer,   \* what plan() would answer now, per event
  steady,   \* events whose answer has not changed since they were emitted
  job,      \* the call of process() in each slot
  overran,  \* events one of whose senders outlived its claim
  told,     \* rows written or folded into the centre, per event and notification
  tried,    \* calls of a transport, per event and notification
  unread    \* notifications with an unread row of their group

rowVars  == <<stage, sent, attempts, claim, age>>
planVars == <<answer, steady>>
outVars  == <<told, tried, unread>>
vars == <<rowVars, planVars, job, overran, outVars>>

Stage == {"NEW", "EMITTED", "STORED", "DONE", "LOST", "PRUNED"}
Phase == {"plan", "store", "push", "record", "delete"}
Job   == [event : Events, plan : Lists \cup {<<>>}, at : Nat, phase : Phase, age : 0..Lease + 1]

TypeOK ==
  /\ stage \in [Events -> Stage]
  /\ sent \in [Events -> Nat]
  /\ attempts \in [Events -> 0..MaxAttempts]
  /\ claim \in [Events -> 0..Lease + 1 \cup {NoClaim}]
  /\ age \in [Events -> 0..Retention + 1]
  /\ answer \in [Events -> Lists]
  /\ steady \subseteq Events
  /\ job \in [Senders -> Job \cup {Idle}]
  /\ overran \subseteq Events
  /\ told \in [Events -> [Notes -> Nat]]
  /\ tried \in [Events -> [Notes -> Nat]]
  /\ unread \subseteq Notes

Init ==
  /\ stage = [e \in Events |-> "NEW"]
  /\ sent = [e \in Events |-> 0]
  /\ attempts = [e \in Events |-> 0]
  /\ claim = [e \in Events |-> NoClaim]
  /\ age = [e \in Events |-> 0]
  /\ answer \in [Events -> Lists]
  /\ steady = Events
  /\ job = [w \in Senders |-> Idle]
  /\ overran = {}
  /\ told = [e \in Events |-> [n \in Notes |-> 0]]
  /\ tried = [e \in Events |-> [n \in Notes |-> 0]]
  /\ unread = {}

-----------------------------------------------------------------------------
(* Conditions and effects. A definition whose name starts with Bug is what *)
(* a plausible slip would have made of the next one.                       *)

Working(w, phase) == job[w] # Idle /\ job[w].phase = phase
Event(w) == job[w].event
Note(w) == job[w].plan[job[w].at + 1]

\* The UPDATE of process() finds the row.
BugLapsed(e) == FALSE
Lapsed(e) == claim[e] > Lease
BugFree(e) == TRUE
Free(e) == claim[e] # NoClaim => Lapsed(e)
BugUntried(e) == TRUE
Untried(e) == attempts[e] < MaxAttempts
Claimable(e) == stage[e] = "STORED" /\ Untried(e) /\ Free(e)

\* An UPDATE of the row; nothing when it is gone.
BugOnRow(e, f, v) == [f EXCEPT ![e] = v]
OnRow(e, f, v) == IF stage[e] = "STORED" THEN [f EXCEPT ![e] = v] ELSE f

\* What the call does once it is done with the notification before list[at + 1]:
\* i < plan.length.
BugNextPhase(list, at) == IF at + 1 < Len(list) THEN "store" ELSE "delete"
NextPhase(list, at) == IF at < Len(list) THEN "store" ELSE "delete"

\* i < plan.length - 1 decides whether `sent` is written or the row deleted.
AfterSend(w) == IF job[w].at + 1 < Len(job[w].plan) THEN "record" ELSE "delete"

\* ON CONFLICT (user_id, group_key) WHERE read_at IS NULL.
Folds(n) == n \in Folding /\ n \in unread

Older(t, top) == IF t < top THEN t + 1 ELSE t

-----------------------------------------------------------------------------
(* From the bus to the table. *)

\* A service hands a committed fact to the bus.
Emit(e) ==
  /\ stage[e] = "NEW"
  /\ stage' = [stage EXCEPT ![e] = "EMITTED"]
  /\ UNCHANGED <<sent, attempts, claim, age, planVars, job, overran, outVars>>

\* enqueue's INSERT.
Enqueue(e) ==
  /\ stage[e] = "EMITTED"
  /\ stage' = [stage EXCEPT ![e] = "STORED"]
  /\ UNCHANGED <<sent, attempts, claim, age, planVars, job, overran, outVars>>

\* The worker stops first, or the INSERT fails and track() logs it.
Lose(e) ==
  /\ stage[e] = "EMITTED"
  /\ stage' = [stage EXCEPT ![e] = "LOST"]
  /\ UNCHANGED <<sent, attempts, claim, age, planVars, job, overran, outVars>>

-----------------------------------------------------------------------------
(* process(), by the call in slot w. *)

Claim(w, e) ==
  /\ job[w] = Idle
  /\ Claimable(e)
  /\ claim' = [claim EXCEPT ![e] = 0]
  /\ attempts' = [attempts EXCEPT ![e] = @ + 1]
  /\ job' = [job EXCEPT ![w] = [event |-> e, plan |-> <<>>, at |-> sent[e],
                                phase |-> "plan", age |-> 0]]
  /\ UNCHANGED <<stage, sent, age, planVars, overran, outVars>>

MakePlan(w) ==
  /\ Working(w, "plan")
  /\ LET list == answer[Event(w)] IN
       job' = [job EXCEPT ![w].plan = list, ![w].phase = NextPhase(list, job[w].at)]
  /\ UNCHANGED <<rowVars, planVars, overran, outVars>>

\* The centre's row, and the socket. A fold sends nothing further.
Store(w) ==
  /\ Working(w, "store")
  /\ LET e == Event(w)
         n == Note(w)
         fold == Folds(n) IN
       /\ told' = [told EXCEPT ![e][n] = @ + 1]
       /\ unread' = unread \cup ({n} \cap Folding)
       /\ job' = [job EXCEPT ![w].phase = IF fold THEN AfterSend(w) ELSE "push"]
  /\ UNCHANGED <<rowVars, planVars, overran, tried>>

\* Push or e-mail. The live transports catch every error of their service, so whether it
\* arrives makes no difference to the call.
Push(w) ==
  /\ Working(w, "push")
  /\ tried' = [tried EXCEPT ![Event(w)][Note(w)] = @ + 1]
  /\ job' = [job EXCEPT ![w].phase = AfterSend(w)]
  /\ UNCHANGED <<rowVars, planVars, overran, told, unread>>

Record(w) ==
  /\ Working(w, "record")
  /\ sent' = OnRow(Event(w), sent, job[w].at + 1)
  /\ job' = [job EXCEPT ![w].at = @ + 1, ![w].phase = "store"]
  /\ UNCHANGED <<stage, attempts, claim, age, planVars, overran, outVars>>

Delete(w) ==
  /\ Working(w, "delete")
  /\ stage' = OnRow(Event(w), stage, "DONE")
  /\ job' = [job EXCEPT ![w] = Idle]
  /\ UNCHANGED <<sent, attempts, claim, age, planVars, overran, outVars>>

\* A statement throws; the catch gives the row back, whoever's claim is on it.
Fail(w) ==
  /\ job[w] # Idle
  /\ claim' = OnRow(Event(w), claim, NoClaim)
  /\ job' = [job EXCEPT ![w] = Idle]
  /\ UNCHANGED <<stage, sent, attempts, age, planVars, overran, outVars>>

\* The worker stops, or the catch's own statement fails.
Die(w) ==
  /\ job[w] # Idle
  /\ job' = [job EXCEPT ![w] = Idle]
  /\ UNCHANGED <<rowVars, planVars, overran, outVars>>

-----------------------------------------------------------------------------
(* Around it. *)

\* The query behind plan() would now answer otherwise: an account or a search came or
\* went, or Postgres returns the rows, which are in no order, in another one.
Stir(e) ==
  /\ stage[e] \in {"EMITTED", "STORED"}
  /\ \E list \in Lists \ {answer[e]} : answer' = [answer EXCEPT ![e] = list]
  /\ steady' = steady \ {e}
  /\ UNCHANGED <<rowVars, job, overran, outVars>>

\* markRead by the account of n, or the nightly prune of old notifications.
Read(n) ==
  /\ n \in unread
  /\ unread' = unread \ {n}
  /\ UNCHANGED <<rowVars, planVars, job, overran, told, tried>>

\* The nightly job.
Prune(e) ==
  /\ stage[e] = "STORED" /\ age[e] > Retention
  /\ stage' = [stage EXCEPT ![e] = "PRUNED"]
  /\ UNCHANGED <<sent, attempts, claim, age, planVars, job, overran, outVars>>

Tick ==
  /\ claim' = [e \in Events |-> IF claim[e] = NoClaim THEN NoClaim ELSE Older(claim[e], Lease + 1)]
  /\ age' = [e \in Events |-> IF stage[e] = "STORED" THEN Older(age[e], Retention + 1) ELSE age[e]]
  /\ job' = [w \in Senders |->
               IF job[w] = Idle THEN Idle ELSE [job[w] EXCEPT !.age = Older(@, Lease + 1)]]
  /\ overran' = overran \cup {Event(w) : w \in {v \in Senders : job[v] # Idle /\ job[v].age >= Lease}}
  /\ UNCHANGED <<stage, sent, attempts, planVars, outVars>>

SendNext(w) ==
  \/ \E e \in Events : Claim(w, e)
  \/ MakePlan(w) \/ Store(w) \/ Push(w) \/ Record(w) \/ Delete(w)
  \/ Fail(w) \/ Die(w)
EventNext(e) == Emit(e) \/ Enqueue(e) \/ Lose(e) \/ Stir(e) \/ Prune(e)
Next ==
  \/ \E w \in Senders : SendNext(w)
  \/ \E e \in Events : EventNext(e)
  \/ \E n \in Notes : Read(n)
  \/ Tick

Spec == Init /\ [][Next]_vars

\* Both workers sweep every minute, a call goes on until it ends or its worker stops, and
\* time passes. Nothing is assumed of a worker's life: Die and Fail remain possible.
Works(w) == MakePlan(w) \/ Store(w) \/ Push(w) \/ Record(w) \/ Delete(w)
FairSpec ==
  /\ Spec
  /\ \A e \in Events : WF_vars(Enqueue(e)) /\ WF_vars(\E w \in Senders : Claim(w, e))
  /\ \A w \in Senders : WF_vars(Works(w))
  /\ WF_vars(Tick)

-----------------------------------------------------------------------------
(* Properties. *)

\* A row is deleted only when every notification its event calls for was written to the
\* centre and, unless folded, offered to a transport, however many workers stopped, failed
\* or took the row from one another (process, 127-148). For events whose answer is steady.
NobodySkipped ==
  \A e \in steady : stage[e] = "DONE" =>
    \A n \in Range(answer[e]) : told[e][n] > 0 /\ (n \in Folding \/ tried[e][n] > 0)

\* The claim makes one call the sender as long as no call of this event outlived it: two
\* sweeps, or a sweep and enqueue, never work off one row together.
OneSenderInTime ==
  \A v, w \in Senders : v # w /\ job[v] # Idle /\ job[w] # Idle /\ Event(v) = Event(w) =>
    Event(v) \in overran

\* However often calls of process() die, fail or take a row from one another, nobody finds the
\* event in the centre more often than it is tried, nor gets a push that the centre lacks
\* (OUTBOX_MAX_ATTEMPTS, 131; deliver writes the row first, 291-311).
RepeatsBounded ==
  \A e \in Events, n \in Notes : told[e][n] <= MaxAttempts /\ tried[e][n] <= told[e][n]

\* All of it together: the outbox keeps what Delivery promises ("The event is on disk before
\* anything is sent, so a restart cannot lose it", 107).  Whose answer changed may be skipped.
Promised == INSTANCE Delivery WITH
  fate <- stage, heard <- told, rung <- tried, Limit <- MaxAttempts,
  due <- [e \in Events |-> IF e \in steady THEN Range(answer[e]) ELSE {}]
ImplementsDelivery == Promised!DeliverySpec

\* A stored event is worked off, or used up its attempts, or was pruned: no worker's death
\* leaves it claimed for ever.
StoredIsSettled ==
  \A e \in Events : stage[e] = "STORED" ~>
    stage[e] \in {"DONE", "PRUNED"} \/ attempts[e] = MaxAttempts

\* The schema: "`sent` is how many of its planned notifications went out (a retry resumes
\* there)". Whoever every answer names is told before the row is deleted.
RetryReachesAll ==
  \A e \in Events : stage[e] = "DONE" =>
    \A n \in Notes : (\A list \in Lists : n \in Range(list)) => told[e][n] > 0
=============================================================================
