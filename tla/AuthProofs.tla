----------------------------- MODULE AuthProofs -----------------------------
(* Proofs about Auth. *)
EXTENDS Auth, TLAPS

\* What a call holds in each phase.
CallsFit ==
  \A c \in Callers :
    /\ job[c].at \in {"touch", "issue", "insert"} => job[c].phone \in Phones
    /\ job[c].at \in {"touch", "issue"} => job[c].user \in Users
    /\ job[c].at \in {"register", "note", "ask", "settle", "spend"} => job[c].sess \in Sessions

Typed == TypeOK /\ CallsFit

LEMMA InitTyped == Init => Typed
BY DEF Init, Typed, TypeOK, CallsFit, Call, Idle, Job, Phase, Status

\* Finish and Step keep calls well typed.
LEMMA FinishTyped ==
  ASSUME Typed, NEW c \in Callers, Finish(c)
  PROVE  job' \in [Callers -> Job] /\ CallsFit'
BY DEF Typed, TypeOK, CallsFit, Finish, Call, Idle, Job, Phase

LEMMA StepFits ==
  ASSUME Typed, NEW c \in Callers, NEW at \in {"issue", "insert", "note", "spend"}, Step(c, at),
         job[c].at = "touch" \/ (at \in {"note", "spend"} /\ job[c].sess \in Sessions),
         job[c].at = "touch" => at \in {"issue", "insert"}
  PROVE  job' \in [Callers -> Job] /\ CallsFit'
BY DEF Typed, TypeOK, CallsFit, Step, Job, Phase

LEMMA StartTyped ==
  ASSUME Typed, NEW c \in Callers, Starting(c)
  PROVE  Typed'
<1> USE DEF Typed, TypeOK
<1>1. ASSUME NEW p \in Phones, NEW d \in Devices \cup {NoDevice}, Start(c, p, d) PROVE Typed'
  <2>1. PICK at \in {"touch", "insert"}, u \in Users \cup {NoUser} :
          /\ job' = [job EXCEPT ![c] = Call("start", at, p, d, u, NoSession)]
          /\ at = "touch" => u \in Users
    BY <1>1 DEF Start
  <2> QED BY <1>1, <2>1 DEF Start, CallsFit, Call, Job, Phase, sessionVars, userVars, tokenVars
<1>2. CASE Touch(c)
  BY <1>2 DEF Touch, Step, CallsFit, Job, Phase, sessionVars, userVars, tokenVars
<1>3. CASE Issue(c)
  <2>1. NewTokens # {} => Fresh(NewTokens) \in Tokens
    BY DEF Fresh, NewTokens
  <2>2. job[c].user \in Users
    BY <1>3 DEF Issue, CallsFit
  <2>3. /\ live' \subseteq Tokens \cup {Fresh(NewTokens)}
        /\ owner' \in [Tokens -> Users \cup {NoUser}] /\ via' \in [Tokens -> Sessions \cup {NoSession}]
    BY <1>3, <2>2 DEF Issue, Open
  <2>4. NewTokens # {}
    BY <1>3 DEF Issue
  <2> QED BY <1>3, <2>1, <2>3, <2>4, FinishTyped DEF Issue, sessionVars, userVars
<1>4. CASE Insert(c)
  <2>1. Fresh(NewSessions) \in Sessions /\ job[c].phone \in Phones /\ job[c] \in Job
    BY <1>4 DEF Insert, Fresh, NewSessions, CallsFit
  <2> DEFINE s == Fresh(NewSessions)
  <2>2. /\ status' = [status EXCEPT ![s] = "PENDING"]
        /\ phone' = [phone EXCEPT ![s] = job[c].phone]
        /\ device' = [device EXCEPT ![s] = job[c].device]
        /\ job' = [job EXCEPT ![c] = Call("start", "register", NoPhone, NoDevice, NoUser, s)]
        /\ UNCHANGED <<lapsed, known, given, remote, userVars, tokenVars>>
    BY <1>4 DEF Insert
  <2>3. s \in Sessions
    BY <2>1
  <2> HIDE DEF s
  <2> QED BY <2>1, <2>2, <2>3 DEF CallsFit, Call, Job, Phase, Status, userVars, tokenVars
<1>5. CASE Register(c)
  <2>1. job[c].sess \in Sessions /\ Step(c, "note") /\ job[c].at = "register"
    BY <1>5 DEF Register, CallsFit
  <2>2. job' \in [Callers -> Job] /\ CallsFit'
    BY <2>1, StepFits
  <2> QED BY <1>5, <2>1, <2>2 DEF Register, sessionVars, userVars, tokenVars
<1>6. CASE Note(c)
  <2>1. job[c].sess \in Sessions /\ Finish(c)
    BY <1>6 DEF Note, CallsFit
  <2>2. job' \in [Callers -> Job] /\ CallsFit'
    BY <2>1, FinishTyped
  <2>3. given' \subseteq known' /\ known' \subseteq Sessions /\ lapsed' \subseteq Sessions
    <3>1. PICK heard \in SUBSET {job[c].sess} : given' = given \cup heard
      BY <1>6 DEF Note
    <3> QED BY <1>6, <2>1, <3>1 DEF Note
  <2> QED BY <1>6, <2>1, <2>2, <2>3 DEF Note, userVars, tokenVars
<1> QED BY <1>1, <1>2, <1>3, <1>4, <1>5, <1>6 DEF Starting

LEMMA SpendTyped ==
  ASSUME Typed, NEW c \in Callers, NEW u \in Users, Spend(c, u)
  PROVE  Typed'
<1> DEFINE s == job[c].sess
           t == Fresh(NewTokens)
<1> USE DEF Typed, TypeOK
<1>1. s \in Sessions /\ t \in Tokens
  BY DEF Spend, CallsFit, Fresh, NewTokens
<1>2. phone[s] \in Phones /\ device[s] \in Devices \cup {NoDevice}
  BY <1>1 DEF Spend, Spendable
<1>3. job' \in [Callers -> Job] /\ CallsFit'
  BY FinishTyped DEF Spend
<1>4. /\ status' = [status EXCEPT ![s] = "CONSUMED"] /\ holder' = [holder EXCEPT ![u] = phone[s]]
      /\ Trust(u, device[s]) /\ Open(t, u, s) /\ UNCHANGED <<phone, device, lapsed, known, given, remote>>
      /\ status[s] = "VERIFIED"
  BY DEF Spend, Spendable
<1> HIDE DEF s, t
<1>5. /\ trusted' \subseteq Users \X Devices /\ stale' \subseteq trusted'
      /\ live' \subseteq Tokens /\ owner' \in [Tokens -> Users \cup {NoUser}]
      /\ via' \in [Tokens -> Sessions \cup {NoSession}]
  BY <1>1, <1>4 DEF Trust, Open
<1> QED BY <1>1, <1>2, <1>3, <1>4, <1>5 DEF Status

LEMMA CheckTyped ==
  ASSUME Typed, NEW c \in Callers, Checking(c)
  PROVE  Typed'
<1> USE DEF Typed, TypeOK
<1>1. ASSUME NEW s \in Sessions, Poll(c, s) \/ Callback(c, s) PROVE Typed'
  <2>1. PICK kind \in {"poll", "callback"} :
          job' = [job EXCEPT ![c] = Call(kind, Refresh(s), NoPhone, NoDevice, NoUser, s)]
    BY <1>1 DEF Poll, Callback, Look
  <2>2. Refresh(s) \in {"spend", "settle", "ask", "idle"}
    BY DEF Refresh
  <2>3. job' \in [Callers -> Job] /\ CallsFit'
    BY <2>1, <2>2 DEF Call, CallsFit, Job, Phase
  <2> QED BY <1>1, <2>3 DEF Poll, Callback, Look, sessionVars, userVars, tokenVars
<1>2. CASE Ask(c)
  <2>1. job' \in [Callers -> Job] /\ CallsFit'
    <3>1. CASE Finish(c)
      BY <3>1, FinishTyped
    <3>2. CASE ~Finish(c)
      <4>1. /\ job' = [job EXCEPT ![c].at = "settle", ![c].verdict = remote[job[c].sess]]
            /\ remote[job[c].sess] \in {"VERIFIED", "EXPIRED"} /\ job[c].at = "ask"
        BY <1>2, <3>2 DEF Ask
      <4>2. job' \in [Callers -> Job]
        <5> DEFINE entry == [job[c] EXCEPT !.at = "settle", !.verdict = remote[job[c].sess]]
        <5>1. "settle" \in Phase /\ job[c] \in Job
          BY DEF Phase
        <5>2. entry \in Job
          BY <4>1, <5>1 DEF Job
        <5>3. job' = [job EXCEPT ![c] = entry]
          BY <4>1
        <5> HIDE DEF entry
        <5> QED BY <5>2, <5>3
      <4>3. job'[c].at = "settle" /\ job'[c].sess = job[c].sess /\ job[c].sess \in Sessions
        BY <4>1 DEF CallsFit, Job
      <4>4. \A d \in Callers \ {c} : job'[d] = job[d]
        BY <4>1
      <4>5. CallsFit'
        BY <4>3, <4>4 DEF CallsFit
      <4> QED BY <4>2, <4>5
    <3> QED BY <3>1, <3>2
  <2> QED BY <1>2, <2>1 DEF Ask, sessionVars, userVars, tokenVars
<1>3. CASE Settle(c)
  <2>1. job[c].sess \in Sessions /\ job[c].verdict \in Status /\ job[c].at = "settle"
    BY <1>3 DEF Settle, CallsFit, Job, Status
  <2>2. job' \in [Callers -> Job] /\ CallsFit'
    BY <1>3, <2>1, StepFits, FinishTyped DEF Settle
  <2>3. status' \in [Sessions -> Status \cup {"NONE"}]
    BY <1>3, <2>1 DEF Settle, Settled
  <2>4. \A s \in Sessions : status'[s] # "NONE" => status[s] # "NONE"
    BY <1>3, <2>1 DEF Settle, Settled
  <2> QED BY <1>3, <2>2, <2>3, <2>4 DEF Settle, userVars, tokenVars
<1>4. CASE Spends(c)
  BY <1>4, SpendTyped DEF Spends
<1> QED BY <1>1, <1>2, <1>3, <1>4 DEF Checking

LEMMA LeaveTyped ==
  ASSUME Typed, NEW c \in Callers, Leaving(c)
  PROVE  Typed'
<1> USE DEF Typed, TypeOK
<1>1. ASSUME NEW t \in Tokens, NEW d \in Devices \cup {NoDevice}, SignOut(c, t, d) PROVE Typed'
  <2>1. CASE d = NoDevice
    <3>1. Finish(c)
      BY <1>1, <2>1 DEF SignOut, Finish
    <3> QED BY <1>1, <3>1, FinishTyped DEF SignOut, sessionVars, userVars
  <2>2. CASE d # NoDevice
    <3>1. job' = [job EXCEPT ![c] = Call("signOut", "untrust", NoPhone, d, owner[t], NoSession)]
      BY <1>1, <2>2 DEF SignOut
    <3>2. job' \in [Callers -> Job] /\ CallsFit'
      BY <3>1 DEF Call, CallsFit, Job, Phase
    <3> QED BY <1>1, <3>2 DEF SignOut, sessionVars, userVars
  <2> QED BY <2>1, <2>2
<1>2. CASE Untrust(c)
  <2>1. Finish(c)
    BY <1>2 DEF Untrust
  <2> QED BY <1>2, <2>1, FinishTyped DEF Untrust, sessionVars, tokenVars
<1> QED BY <1>1, <1>2 DEF Leaving

LEMMA AroundTyped == Typed /\ Around => Typed'
<1> SUFFICES ASSUME Typed, Around PROVE Typed'
  OBVIOUS
<1> USE DEF Typed, TypeOK
<1>1. CallsFit /\ job' = job => CallsFit'
  BY DEF CallsFit
<1>3. ASSUME NEW u \in Users, DeleteAccount(u) PROVE Typed'
  BY <1>1, <1>3 DEF DeleteAccount, sessionVars
<1>4. ASSUME NEW s \in Sessions, Lapse(s) PROVE Typed'
  BY <1>1, <1>4 DEF Lapse, userVars, tokenVars
<1>5. ASSUME NEW s \in Sessions, NEW r \in {"VERIFIED", "EXPIRED"}, ProviderDecides(s, r) PROVE Typed'
  BY <1>1, <1>5 DEF ProviderDecides, sessionVars, userVars, tokenVars
<1>6. ASSUME NEW x \in Users \X Devices, Forget(x) PROVE Typed'
  BY <1>1, <1>6 DEF Forget, sessionVars, tokenVars
<1> QED BY <1>3, <1>4, <1>5, <1>6 DEF Around

LEMMA StepTyped == Typed /\ [Next]_vars => Typed'
<1> SUFFICES ASSUME Typed, [Next]_vars PROVE Typed'
  OBVIOUS
<1>1. ASSUME NEW c \in Callers, Stop(c) PROVE Typed'
  BY <1>1, FinishTyped DEF Stop, Typed, TypeOK, sessionVars, userVars, tokenVars
<1>2. CASE UNCHANGED vars
  BY <1>2 DEF Typed, TypeOK, CallsFit, vars, sessionVars, userVars, tokenVars
<1> QED BY <1>1, <1>2, StartTyped, CheckTyped, LeaveTyped, AroundTyped DEF Next

\* Every reachable state of phone verification is well typed.
THEOREM TypeCorrect == Spec => []TypeOK
<1>1. Typed => TypeOK
  BY DEF Typed
<1> QED BY InitTyped, StepTyped, <1>1, PTL DEF Spec
-----------------------------------------------------------------------------
(* One account per phone number: the new owner of a number takes it only when nobody has it. *)

LEMMA SpendKeepsHolders ==
  ASSUME Typed, OneAccountPerPhone, NEW c \in Callers, NEW u \in Users, Spend(c, u)
  PROVE  OneAccountPerPhone'
<1> DEFINE p == phone[job[c].sess]
<1>1. u \in AccountFor(p) /\ holder' = [holder EXCEPT ![u] = p]
  BY DEF Spend
<1>2. p \in Phones
  BY DEF Spend, Spendable, Typed, TypeOK, CallsFit
<1> HIDE DEF p
<1>3. holder[u] = p \/ \A v \in Users : holder[v] # p
  BY <1>1 DEF AccountFor
<1> QED BY <1>1, <1>2, <1>3 DEF OneAccountPerPhone, Typed, TypeOK

LEMMA StepHolders ==
  ASSUME Typed, OneAccountPerPhone, [Next]_vars
  PROVE  OneAccountPerPhone'
<1>1. holder' = holder => OneAccountPerPhone'
  BY DEF OneAccountPerPhone
<1>2. ASSUME NEW c \in Callers, Starting(c) \/ Leaving(c) \/ Stop(c) PROVE holder' = holder
  BY <1>2 DEF Leaving, SignOut, Untrust, Starting, Start, Touch, Issue, Insert, Register, Note, Stop, userVars
<1>3. ASSUME NEW c \in Callers, Checking(c) PROVE OneAccountPerPhone'
  BY <1>1, <1>3, SpendKeepsHolders DEF Checking, Poll, Callback, Look, Ask, Settle, Spends, userVars
<1>4. ASSUME NEW u \in Users, DeleteAccount(u) PROVE OneAccountPerPhone'
  BY <1>4 DEF DeleteAccount, OneAccountPerPhone, Typed, TypeOK
<1>5. CASE Around
  BY <1>1, <1>4, <1>5 DEF Around, Lapse, ProviderDecides, Forget, userVars
<1>6. CASE UNCHANGED vars
  BY <1>1, <1>6 DEF vars, userVars
<1> QED BY <1>1, <1>2, <1>3, <1>5, <1>6 DEF Next

\* However many sessions are spent for one number at once, it has one account.
THEOREM OneAccountPerPhoneHolds == Spec => []OneAccountPerPhone
<1>1. Init => OneAccountPerPhone
  BY DEF Init, OneAccountPerPhone
<1> QED BY InitTyped, StepTyped, StepHolders, <1>1, PTL DEF Spec
-----------------------------------------------------------------------------
(* What a session's status and a call under way say about the text at verify.mn. *)

RowsProved ==
  \A s \in Sessions : /\ status[s] \in {"VERIFIED", "CONSUMED"} => remote[s] = "VERIFIED"
                      /\ status[s] = "NONE" => remote[s] = "NONE"

CallsProved ==
  \A c \in Callers :
    /\ job[c].at = "settle" /\ job[c].verdict = "VERIFIED" => remote[job[c].sess] = "VERIFIED"
    /\ job[c].at = "register" => status[job[c].sess] = "PENDING" \/ status[job[c].sess] = "EXPIRED"
    /\ job[c].at = "register" => remote[job[c].sess] = "NONE"

RegisterAlone ==
  \A c, d \in Callers :
    job[c].at = "register" /\ job[d].at = "register" /\ job[c].sess = job[d].sess => c = d

Proofs == RowsProved /\ CallsProved /\ RegisterAlone

LEMMA InitProofs == Init => Proofs
BY DEF Init, Proofs, RowsProved, CallsProved, RegisterAlone, Call, Idle

\* A call that only moves on, to a phase other than settle and register, keeps the facts.
LEMMA CallMoves ==
  ASSUME Typed, Proofs, NEW c \in Callers, NEW entry \in Job, job' = [job EXCEPT ![c] = entry],
         entry.at \notin {"settle", "register"},
         UNCHANGED <<status, remote>>
  PROVE  Proofs'
BY DEF Typed, TypeOK, Proofs, RowsProved, CallsProved, RegisterAlone

LEMMA IdleIsJob == Idle \in Job /\ Idle.at = "idle"
BY DEF Idle, Call, Job, Phase

LEMMA StartProofs ==
  ASSUME Typed, Proofs, NEW c \in Callers, Starting(c)
  PROVE  Proofs'
<1> USE DEF Typed, TypeOK
<1>1. ASSUME NEW p \in Phones, NEW d \in Devices \cup {NoDevice}, Start(c, p, d) PROVE Proofs'
  <2>1. PICK at \in {"touch", "insert"}, u \in Users \cup {NoUser} :
          job' = [job EXCEPT ![c] = Call("start", at, p, d, u, NoSession)]
    BY <1>1 DEF Start
  <2>2. Call("start", at, p, d, u, NoSession) \in Job /\ Call("start", at, p, d, u, NoSession).at = at
    BY DEF Call, Job, Phase
  <2> QED BY <1>1, <2>1, <2>2, CallMoves DEF Start, sessionVars
<1>2. CASE Touch(c)
  <2>1. PICK at \in {"issue", "insert"} : job' = [job EXCEPT ![c] = [job[c] EXCEPT !.at = at]]
    BY <1>2 DEF Touch, Step
  <2>2. [job[c] EXCEPT !.at = at] \in Job /\ [job[c] EXCEPT !.at = at].at = at
    BY DEF Job, Phase
  <2> QED BY <1>2, <2>1, <2>2, CallMoves DEF Touch, sessionVars
<1>3. CASE Issue(c)
  BY <1>3, CallMoves, IdleIsJob DEF Issue, Finish, sessionVars
<1>4. CASE Insert(c)
  <2> DEFINE s == Fresh(NewSessions)
  <2>1. s \in Sessions /\ status[s] = "NONE"
    BY <1>4 DEF Insert, Fresh, NewSessions
  <2>2. /\ status' = [status EXCEPT ![s] = "PENDING"] /\ remote' = remote
        /\ job' = [job EXCEPT ![c] = Call("start", "register", NoPhone, NoDevice, NoUser, s)]
    BY <1>4 DEF Insert
  <2> HIDE DEF s
  <2>3. /\ job'[c].at = "register" /\ job'[c].sess = s
        /\ \A d \in Callers \ {c} : job'[d] = job[d]
    BY <2>2 DEF Call
  <2>4. RowsProved' /\ CallsProved'
    BY <2>1, <2>2, <2>3 DEF Proofs, RowsProved, CallsProved
  <2>5. RegisterAlone'
    BY <2>1, <2>3 DEF Proofs, CallsProved, RegisterAlone
  <2> QED BY <2>4, <2>5 DEF Proofs
<1>5. CASE Register(c)
  <2> DEFINE s == job[c].sess
  <2>1. s \in Sessions /\ status[s] \in {"PENDING", "EXPIRED"} /\ remote[s] = "NONE"
    BY <1>5 DEF Register, CallsFit, Proofs, CallsProved
  <2>2. /\ remote' = [remote EXCEPT ![s] = "PENDING"] /\ status' = status
        /\ job' = [job EXCEPT ![c].at = "note"] /\ job[c].at = "register"
    BY <1>5 DEF Register, Step, sessionVars
  <2>3. /\ job'[c].at = "note"
        /\ \A d \in Callers \ {c} : job'[d] = job[d]
    BY <2>2 DEF Job
  <2>4. \A d \in Callers \ {c} : job[d].at = "register" => job[d].sess # s
    BY <2>2 DEF Proofs, RegisterAlone
  <2> HIDE DEF s
  <2>5. RowsProved'
    BY <2>1, <2>2 DEF Proofs, RowsProved
  <2>6. CallsProved'
    BY <2>1, <2>2, <2>3, <2>4 DEF Proofs, CallsProved
  <2>7. RegisterAlone'
    BY <2>3 DEF Proofs, RegisterAlone
  <2> QED BY <2>5, <2>6, <2>7 DEF Proofs
<1>6. CASE Note(c)
  BY <1>6, CallMoves, IdleIsJob DEF Note, Finish
<1> QED BY <1>1, <1>2, <1>3, <1>4, <1>5, <1>6 DEF Starting

LEMMA SettleProofs ==
  ASSUME Typed, Proofs, NEW c \in Callers, Settle(c)
  PROVE  Proofs'
<1> DEFINE s == job[c].sess
           v == job[c].verdict
<1> USE DEF Typed, TypeOK
<1>1. /\ s \in Sessions /\ v \in {"EXPIRED", "VERIFIED"}
      /\ v = "VERIFIED" => remote[s] = "VERIFIED"
  BY DEF Settle, CallsFit, Proofs, CallsProved, Job
<1>2. /\ status' = [status EXCEPT ![s] = IF status[s] = "PENDING" THEN v ELSE status[s]]
      /\ remote' = remote
  BY DEF Settle, Settled
<1>3. /\ job'[c].at \in {"spend", "idle"}
      /\ \A d \in Callers \ {c} : job'[d] = job[d]
  BY IdleIsJob DEF Settle, Step, Finish, Job
<1> HIDE DEF s, v
<1>4. RowsProved'
  BY <1>1, <1>2 DEF Proofs, RowsProved
<1>5. ASSUME NEW d \in Callers, job'[d].at = "register"
      PROVE  /\ job[d] = job'[d] /\ remote'[job[d].sess] = "NONE"
             /\ status'[job[d].sess] \in {"PENDING", "EXPIRED"}
  <2>1. d # c
    BY <1>3, <1>5
  <2>2. job[d] = job'[d] /\ remote[job[d].sess] = "NONE" /\ status[job[d].sess] \in {"PENDING", "EXPIRED"}
    BY <2>1, <1>3, <1>5 DEF Proofs, CallsProved
  <2>3. job[d].sess \in Sessions
    BY <2>2, <1>5 DEF CallsFit
  <2> QED BY <2>2, <2>3, <1>1, <1>2
<1>6. ASSUME NEW d \in Callers, job'[d].at = "settle", job'[d].verdict = "VERIFIED"
      PROVE  remote'[job'[d].sess] = "VERIFIED"
  BY <1>2, <1>3, <1>6 DEF Proofs, CallsProved
<1>7. CallsProved'
  BY <1>5, <1>6 DEF CallsProved
<1>8. RegisterAlone'
  BY <1>5 DEF Proofs, RegisterAlone
<1> QED BY <1>4, <1>7, <1>8 DEF Proofs

LEMMA SpendProofs ==
  ASSUME Typed, Proofs, NEW c \in Callers, NEW u \in Users, Spend(c, u)
  PROVE  Proofs'
<1> DEFINE s == job[c].sess
<1> USE DEF Typed, TypeOK
<1>1. s \in Sessions /\ status[s] = "VERIFIED" /\ remote[s] = "VERIFIED"
  BY DEF Spend, Spendable, CallsFit, Proofs, RowsProved
<1>2. /\ status' = [status EXCEPT ![s] = "CONSUMED"] /\ remote' = remote
      /\ job' = [job EXCEPT ![c] = Idle]
  BY DEF Spend, Finish
<1> HIDE DEF s
<1>3. RowsProved'
  BY <1>1, <1>2 DEF Proofs, RowsProved
<1>4. CallsProved' /\ RegisterAlone'
  BY <1>1, <1>2, IdleIsJob DEF Proofs, CallsProved, RegisterAlone, CallsFit
<1> QED BY <1>3, <1>4 DEF Proofs

LEMMA CheckProofs ==
  ASSUME Typed, Proofs, NEW c \in Callers, Checking(c)
  PROVE  Proofs'
<1> USE DEF Typed, TypeOK
<1>1. ASSUME NEW s \in Sessions, Poll(c, s) \/ Callback(c, s) PROVE Proofs'
  <2>1. PICK kind \in {"poll", "callback"} :
          /\ job' = [job EXCEPT ![c] = Call(kind, Refresh(s), NoPhone, NoDevice, NoUser, s)]
          /\ UNCHANGED <<status, remote>>
    BY <1>1 DEF Poll, Callback, Look, sessionVars
  <2>2. /\ job'[c].at \in {"spend", "settle", "ask", "idle"} /\ job'[c].verdict = "EXPIRED"
        /\ \A d \in Callers \ {c} : job'[d] = job[d]
    BY <2>1 DEF Refresh, Call
  <2> QED BY <2>1, <2>2 DEF Proofs, RowsProved, CallsProved, RegisterAlone
<1>2. CASE Ask(c)
  <2>1. UNCHANGED <<status, remote>> /\ job[c] \in Job
    BY <1>2 DEF Ask, sessionVars
  <2>2. CASE Finish(c)
    BY <2>1, <2>2, CallMoves, IdleIsJob DEF Finish
  <2>3. CASE ~Finish(c)
    <3>1. /\ job'[c].at = "settle" /\ job'[c].verdict = remote[job[c].sess] /\ job'[c].sess = job[c].sess
          /\ \A d \in Callers \ {c} : job'[d] = job[d]
      BY <1>2, <2>3 DEF Ask, Job
    <3> QED BY <2>1, <3>1 DEF Proofs, RowsProved, CallsProved, RegisterAlone
  <2> QED BY <2>2, <2>3
<1>3. CASE Settle(c)
  BY <1>3, SettleProofs
<1>4. CASE Spends(c)
  BY <1>4, SpendProofs DEF Spends
<1> QED BY <1>1, <1>2, <1>3, <1>4 DEF Checking

LEMMA LeaveProofs ==
  ASSUME Typed, Proofs, NEW c \in Callers, Leaving(c)
  PROVE  Proofs'
<1> USE DEF Typed, TypeOK
<1>1. ASSUME NEW t \in Tokens, NEW d \in Devices \cup {NoDevice}, SignOut(c, t, d) PROVE Proofs'
  <2> DEFINE next == Call("signOut", "untrust", NoPhone, d, owner[t], NoSession)
  <2>1. next \in Job /\ next.at = "untrust"
    BY DEF Call, Job, Phase
  <2>2. job' = [job EXCEPT ![c] = Idle] \/ job' = [job EXCEPT ![c] = next]
    BY <1>1 DEF SignOut
  <2> HIDE DEF next
  <2> QED BY <1>1, <2>1, <2>2, CallMoves, IdleIsJob DEF SignOut, sessionVars
<1>2. CASE Untrust(c)
  BY <1>2, CallMoves, IdleIsJob DEF Untrust, Finish, sessionVars
<1> QED BY <1>1, <1>2 DEF Leaving

LEMMA StepProofs ==
  ASSUME Typed, Proofs, [Next]_vars
  PROVE  Proofs'
<1>1. ASSUME UNCHANGED <<status, remote, job>> PROVE Proofs'
  BY <1>1 DEF Proofs, RowsProved, CallsProved, RegisterAlone
<1>2. ASSUME NEW c \in Callers, Stop(c) PROVE Proofs'
  BY <1>2, CallMoves, IdleIsJob DEF Stop, Finish, sessionVars
<1>3. ASSUME NEW s \in Sessions, NEW r \in {"VERIFIED", "EXPIRED"}, ProviderDecides(s, r) PROVE Proofs'
  <2>1. /\ remote[s] = "PENDING" /\ remote' = [remote EXCEPT ![s] = r] /\ UNCHANGED <<status, job>>
    BY <1>3 DEF ProviderDecides, sessionVars
  <2>2. RowsProved'
    BY <2>1 DEF Proofs, RowsProved, Typed, TypeOK
  <2>3. CallsProved'
    BY <2>1 DEF Proofs, CallsProved, CallsFit, Typed, TypeOK
  <2>4. RegisterAlone'
    BY <2>1 DEF Proofs, RegisterAlone
  <2> QED BY <2>2, <2>3, <2>4 DEF Proofs
<1>4. CASE Around
  BY <1>1, <1>3, <1>4 DEF Around, DeleteAccount, Lapse, Forget, sessionVars
<1>5. CASE UNCHANGED vars
  BY <1>1, <1>5 DEF vars, sessionVars
<1> QED BY <1>2, <1>4, <1>5, StartProofs, CheckProofs, LeaveProofs DEF Next
-----------------------------------------------------------------------------
(* Who may sign in: every account, every token and every trusted device goes back to a session *)
(* that was spent for it.                                                                      *)

TokensSpent ==
  \A t \in Tokens : /\ via[t] \in Sessions => status[via[t]] = "CONSUMED" /\ owner[t] \in Users
                    /\ t \in live => owner[t] \in Users /\ holder[owner[t]] # NoPhone

HoldersProved ==
  \A u \in Users : holder[u] # NoPhone => \E first \in Tokens : Proof(u, first)

DevicesProved ==
  \A x \in trusted : \E first \in Tokens : Proof(x[1], first) /\ device[via[first]] = x[2]

Access == TokensSpent /\ HoldersProved /\ DevicesProved

LEMMA AccessImplies == TypeOK /\ Access => AccessProved
BY DEF TypeOK, Access, TokensSpent, HoldersProved, DevicesProved, AccessProved

\* A step that keeps spent sessions, tokens and the accounts behind them keeps a proof.
LEMMA ProofStays ==
  ASSUME Typed, Proofs, TokensSpent, NEW u \in Users, NEW t \in Tokens, Proof(u, t),
         owner'[t] = owner[t], via'[t] = via[t], holder'[u] = holder[u],
         \A s \in Sessions : status[s] = "CONSUMED" =>
           phone'[s] = phone[s] /\ device'[s] = device[s] /\ remote'[s] = remote[s]
  PROVE  Proof(u, t)' /\ device'[via'[t]] = device[via[t]]
BY DEF Proof, TokensSpent

\* A step that leaves accounts, tokens and trusted devices alone, and spent sessions as they are.
LEMMA AccessStays ==
  ASSUME Typed, Proofs, Access, UNCHANGED <<holder, trusted, live, owner, via>>,
         \A s \in Sessions : status[s] = "CONSUMED" =>
           /\ status'[s] = "CONSUMED" /\ phone'[s] = phone[s]
           /\ device'[s] = device[s] /\ remote'[s] = remote[s]
  PROVE  Access'
<1>1. TokensSpent'
  BY DEF Access, TokensSpent
<1>2. HoldersProved'
  BY ProofStays DEF Access, HoldersProved
<1>3. DevicesProved'
  BY ProofStays DEF Access, DevicesProved, Typed, TypeOK
<1> QED BY <1>1, <1>2, <1>3 DEF Access

LEMMA StartAccess ==
  ASSUME Typed, Proofs, Access, NEW c \in Callers, Starting(c)
  PROVE  Access'
<1> USE DEF Typed, TypeOK
<1>1. ASSUME NEW p \in Phones, NEW d \in Devices \cup {NoDevice}, Start(c, p, d) PROVE Access'
  BY <1>1, AccessStays DEF Start, sessionVars, userVars, tokenVars
<1>2. CASE Touch(c)
  BY <1>2, AccessStays DEF Touch, sessionVars, userVars, tokenVars
<1>3. CASE Issue(c)
  <2> DEFINE t == Fresh(NewTokens)
             u == job[c].user
  <2>1. t \in Tokens /\ owner[t] = NoUser /\ u \in Users /\ holder[u] # NoPhone
    BY <1>3 DEF Issue, Fresh, NewTokens, CallsFit, Exists
  <2>2. /\ live' = live \cup {t} /\ owner' = [owner EXCEPT ![t] = u]
        /\ via' = [via EXCEPT ![t] = NoSession]
        /\ UNCHANGED <<status, phone, device, remote, holder, trusted>>
    BY <1>3 DEF Issue, Open, sessionVars, userVars
  <2> HIDE DEF t, u
  <2>3. TokensSpent'
    BY <2>1, <2>2, NullsAssumption DEF Access, TokensSpent
  <2>4. ASSUME NEW v \in Users, NEW first \in Tokens, Proof(v, first)
        PROVE  Proof(v, first)' /\ device'[via'[first]] = device[via[first]]
    <3>1. first # t
      BY <2>1, <2>4, NullsAssumption DEF Proof
    <3> QED BY <2>2, <2>4, <3>1, ProofStays DEF Access
  <2>5. HoldersProved'
    BY <2>2, <2>4 DEF Access, HoldersProved
  <2>6. DevicesProved'
    BY <2>2, <2>4 DEF Access, DevicesProved
  <2> QED BY <2>3, <2>5, <2>6 DEF Access
<1>4. CASE Insert(c)
  <2>1. status[Fresh(NewSessions)] = "NONE" /\ Fresh(NewSessions) \in Sessions
    BY <1>4 DEF Insert, Fresh, NewSessions
  <2> QED BY <1>4, <2>1, AccessStays DEF Insert, userVars, tokenVars
<1>5. CASE Register(c)
  <2>1. status[job[c].sess] # "CONSUMED"
    BY <1>5 DEF Register, Proofs, CallsProved
  <2> QED BY <1>5, <2>1, AccessStays DEF Register, sessionVars, userVars, tokenVars
<1>6. CASE Note(c)
  BY <1>6, AccessStays DEF Note, userVars, tokenVars
<1> QED BY <1>1, <1>2, <1>3, <1>4, <1>5, <1>6 DEF Starting

LEMMA SpendAccess ==
  ASSUME Typed, Proofs, Access, NEW c \in Callers, NEW u \in Users, Spend(c, u),
         NEW s, s = job[c].sess, NEW t, t = Fresh(NewTokens)
  PROVE  Access'
<1> USE DEF Typed, TypeOK
<1>1. /\ s \in Sessions /\ status[s] = "VERIFIED" /\ remote[s] = "VERIFIED" /\ phone[s] \in Phones
      /\ t \in Tokens /\ owner[t] = NoUser
  BY DEF Spend, Spendable, CallsFit, Proofs, RowsProved, Fresh, NewTokens
<1>2. /\ status' = [status EXCEPT ![s] = "CONSUMED"] /\ holder' = [holder EXCEPT ![u] = phone[s]]
      /\ trusted' = trusted \cup ({<<u, device[s]>>} \cap (Users \X Devices))
      /\ live' = live \cup {t} /\ owner' = [owner EXCEPT ![t] = u] /\ via' = [via EXCEPT ![t] = s]
      /\ UNCHANGED <<phone, device, remote>>
  BY DEF Spend, Trust, Open
<1>3. holder[u] = phone[s] \/ \A o \in Tokens : owner[o] # u
  BY DEF Spend, AccountFor, NewUsers
<1>4. Proof(u, t)' /\ device'[via'[t]] = device[s]
  <2>1. owner'[t] = u /\ via'[t] = s /\ holder'[u] = phone[s] /\ phone'[s] = phone[s] /\ remote'[s] = "VERIFIED"
    BY <1>1, <1>2
  <2> QED BY <1>1, <1>2, <2>1 DEF Proof
<1>5. ASSUME NEW v \in Users, NEW first \in Tokens, Proof(v, first)
      PROVE  Proof(v, first)' /\ device'[via'[first]] = device[via[first]]
  <2>1. first # t
    BY <1>1, <1>5, NullsAssumption DEF Proof
  <2>2. holder'[v] = holder[v]
    BY <1>2, <1>3, <1>5 DEF Proof
  <2>3. owner'[first] = owner[first] /\ via'[first] = via[first]
    BY <1>2, <2>1
  <2> QED BY <1>2, <1>5, <2>2, <2>3, ProofStays DEF Access
<1>6. TokensSpent'
  <2>1. \A v \in Users : holder[v] # NoPhone => holder'[v] # NoPhone
    BY <1>1, <1>2, NullsAssumption
  <2>2. holder'[u] # NoPhone
    BY <1>1, <1>2, NullsAssumption
  <2> QED BY <1>1, <1>2, <2>1, <2>2 DEF Access, TokensSpent
<1>7. HoldersProved'
  <2>1. ASSUME NEW v \in Users, holder'[v] # NoPhone PROVE \E first \in Tokens : Proof(v, first)'
    <3>1. CASE v = u
      BY <1>1, <1>4, <3>1
    <3>2. CASE v # u
      <4>1. PICK first \in Tokens : Proof(v, first)
        BY <1>2, <2>1, <3>2 DEF Access, HoldersProved
      <4> QED BY <4>1, <1>5
    <3> QED BY <3>1, <3>2
  <2> QED BY <2>1 DEF HoldersProved
<1>8. DevicesProved'
  <2>1. ASSUME NEW x \in trusted'
        PROVE  \E first \in Tokens : Proof(x[1], first)' /\ device'[via'[first]] = x[2]
    <3>1. CASE x = <<u, device[s]>>
      BY <1>1, <1>4, <3>1
    <3>2. CASE x \in trusted
      <4>1. PICK first \in Tokens : Proof(x[1], first) /\ device[via[first]] = x[2]
        BY <3>2 DEF Access, DevicesProved
      <4> QED BY <4>1, <3>2, <1>5
    <3> QED BY <1>2, <2>1, <3>1, <3>2
  <2> QED BY <2>1 DEF DevicesProved
<1> QED BY <1>6, <1>7, <1>8 DEF Access

LEMMA CheckAccess ==
  ASSUME Typed, Proofs, Access, NEW c \in Callers, Checking(c)
  PROVE  Access'
<1>1. ASSUME NEW s \in Sessions, Poll(c, s) \/ Callback(c, s) PROVE Access'
  BY <1>1, AccessStays DEF Poll, Callback, Look, sessionVars, userVars, tokenVars
<1>2. CASE Ask(c)
  BY <1>2, AccessStays DEF Ask, sessionVars, userVars, tokenVars
<1>3. CASE Settle(c)
  BY <1>3, AccessStays DEF Settle, Settled, userVars, tokenVars, Typed, TypeOK
<1>4. CASE Spends(c)
  BY <1>4, SpendAccess DEF Spends
<1> QED BY <1>1, <1>2, <1>3, <1>4 DEF Checking

LEMMA LeaveAccess ==
  ASSUME Typed, Proofs, Access, NEW c \in Callers, Leaving(c)
  PROVE  Access'
<1> USE DEF Typed, TypeOK
<1>1. /\ live' \subseteq live /\ trusted' \subseteq trusted
      /\ UNCHANGED <<status, phone, device, remote, holder, owner, via>>
  BY DEF Leaving, SignOut, Untrust, sessionVars, userVars, tokenVars
<1>2. TokensSpent'
  BY <1>1 DEF Access, TokensSpent
<1>3. HoldersProved'
  BY <1>1, ProofStays DEF Access, HoldersProved
<1>4. DevicesProved'
  BY <1>1, ProofStays DEF Access, DevicesProved
<1> QED BY <1>2, <1>3, <1>4 DEF Access

LEMMA AroundAccess ==
  ASSUME Typed, Proofs, Access, Around
  PROVE  Access'
<1> USE DEF Typed, TypeOK
<1>2. ASSUME NEW u \in Users, DeleteAccount(u) PROVE Access'
  <2>1. /\ holder' = [holder EXCEPT ![u] = NoPhone]
        /\ trusted' = {x \in trusted : x[1] # u} /\ live' = {t \in live : owner[t] # u}
        /\ UNCHANGED <<status, phone, device, remote, owner, via>>
    BY <1>2 DEF DeleteAccount, sessionVars
  <2>2. TokensSpent'
    BY <2>1 DEF Access, TokensSpent
  <2>3. ASSUME NEW v \in Users \ {u}, NEW first \in Tokens, Proof(v, first)
        PROVE  Proof(v, first)' /\ device'[via'[first]] = device[via[first]]
    BY <2>1, <2>3, ProofStays DEF Access
  <2>4. HoldersProved'
    BY <2>1, <2>3 DEF Access, HoldersProved
  <2>5. DevicesProved'
    BY <2>1, <2>3 DEF Access, DevicesProved
  <2> QED BY <2>2, <2>4, <2>5 DEF Access
<1>3. ASSUME NEW s \in Sessions, Lapse(s) PROVE Access'
  BY <1>3, AccessStays DEF Lapse, userVars, tokenVars
<1>4. ASSUME NEW s \in Sessions, NEW r \in {"VERIFIED", "EXPIRED"}, ProviderDecides(s, r) PROVE Access'
  BY <1>4, AccessStays DEF ProviderDecides, Proofs, RowsProved, sessionVars, userVars, tokenVars
<1>5. ASSUME NEW x \in Users \X Devices, Forget(x) PROVE Access'
  BY <1>5, AccessStays DEF Forget, sessionVars, tokenVars
<1> QED BY <1>2, <1>3, <1>4, <1>5 DEF Around

LEMMA StepAccess ==
  ASSUME Typed, Proofs, Access, [Next]_vars
  PROVE  Access'
<1>1. ASSUME NEW c \in Callers, Stop(c) PROVE Access'
  BY <1>1, AccessStays DEF Stop, sessionVars, userVars, tokenVars
<1>2. CASE UNCHANGED vars
  BY <1>2, AccessStays DEF vars, sessionVars, userVars, tokenVars
<1> QED BY <1>1, <1>2, StartAccess, CheckAccess, LeaveAccess, AroundAccess DEF Next

\* Whoever holds a token or a trusted device holds it for an account whose number was proved.
THEOREM AccessProvedHolds == Spec => []AccessProved
<1>1. Init => Access
  BY NullsAssumption DEF Init, Access, TokensSpent, HoldersProved, DevicesProved
<1>2. Typed => TypeOK
  BY DEF Typed
<1> QED
  BY InitTyped, StepTyped, InitProofs, StepProofs, <1>1, StepAccess, <1>2, AccessImplies, PTL DEF Spec
-----------------------------------------------------------------------------
(* A text is worth one token: each step of Auth is one of OneTimeProof, or none. *)

\* Every step but an answer of verify.mn, an expiry and a spending leaves the promise as it is.
LEMMA PromiseStays ==
  ASSUME Typed, UNCHANGED <<owner, via>>,
         \A s \in Sessions : /\ remote'[s] = "VERIFIED" <=> remote[s] = "VERIFIED"
                             /\ status'[s] = "EXPIRED" <=> status[s] = "EXPIRED"
  PROVE  UNCHANGED Promise!proofVars
<1>1. Redemptions' = Redemptions
  BY DEF Redemptions
<1> QED BY <1>1 DEF Promise!proofVars

LEMMA SettlePromise ==
  ASSUME Typed, Proofs, TokensSpent, NEW c \in Callers, Settle(c)
  PROVE  [Promise!ProofNext]_Promise!proofVars
<1> DEFINE s == job[c].sess
<1>1. /\ s \in Sessions /\ status' = [status EXCEPT ![s] = Settled(s, job[c].verdict)]
      /\ UNCHANGED <<owner, via, remote>>
  BY DEF Settle, Typed, CallsFit, tokenVars
<1> HIDE DEF s
<1>2. Redemptions' = Redemptions
  BY <1>1 DEF Redemptions
<1>3. CASE status[s] = "PENDING" /\ job[c].verdict = "EXPIRED"
  <2>1. ~Promise!Redeemed(s)
    BY <1>1, <1>3 DEF Promise!Redeemed, Redemptions, TokensSpent
  <2>2. {o \in Sessions : status'[o] = "EXPIRED"} = {o \in Sessions : status[o] = "EXPIRED"} \cup {s}
    BY <1>1, <1>3 DEF Settled, Typed, TypeOK
  <2> QED BY <1>1, <1>2, <2>1, <2>2 DEF Promise!ProofNext, Promise!GiveUp
<1>4. CASE ~(status[s] = "PENDING" /\ job[c].verdict = "EXPIRED")
  BY <1>1, <1>4, PromiseStays DEF Settled, Typed, TypeOK
<1> QED BY <1>3, <1>4

LEMMA SpendPromise ==
  ASSUME Typed, Proofs, TokensSpent, NEW c \in Callers, NEW u \in Users, Spend(c, u)
  PROVE  Promise!ProofNext
<1> DEFINE s == job[c].sess
           t == Fresh(NewTokens)
<1> USE DEF Typed, TypeOK
<1>1. /\ s \in Sessions /\ status[s] = "VERIFIED" /\ remote[s] = "VERIFIED"
      /\ t \in Tokens /\ owner[t] = NoUser
  BY DEF Spend, Spendable, CallsFit, Proofs, RowsProved, Fresh, NewTokens
<1>2. /\ status' = [status EXCEPT ![s] = "CONSUMED"] /\ remote' = remote
      /\ owner' = [owner EXCEPT ![t] = u] /\ via' = [via EXCEPT ![t] = s]
  BY DEF Spend, Open
<1> HIDE DEF s, t
<1>3. Redemptions' = Redemptions \cup {<<s, t>>}
  BY <1>1, <1>2, NullsAssumption DEF Redemptions
<1>4. /\ ~Promise!Redeemed(s) /\ \A x \in Redemptions : x[2] # t
  BY <1>1 DEF Promise!Redeemed, Redemptions, TokensSpent
<1>5. {o \in Sessions : status'[o] = "EXPIRED"} = {o \in Sessions : status[o] = "EXPIRED"}
  BY <1>1, <1>2
<1> QED BY <1>1, <1>2, <1>3, <1>4, <1>5 DEF Promise!ProofNext, Promise!Redeem

LEMMA StepPromise ==
  ASSUME Typed, Proofs, Access, [Next]_vars
  PROVE  [Promise!ProofNext]_Promise!proofVars
<1> USE DEF Typed, TypeOK
<1>1. ASSUME NEW c \in Callers, Starting(c) PROVE UNCHANGED Promise!proofVars
  <2>1. CASE Issue(c)
    <3> DEFINE t == Fresh(NewTokens)
    <3>1. /\ t \in Tokens /\ owner[t] = NoUser
          /\ owner' = [owner EXCEPT ![t] = job[c].user] /\ via' = [via EXCEPT ![t] = NoSession]
          /\ UNCHANGED <<status, remote>>
      BY <2>1 DEF Issue, Open, Fresh, NewTokens, sessionVars
    <3> HIDE DEF t
    <3>2. Redemptions' = Redemptions
      BY <3>1, NullsAssumption DEF Redemptions
    <3> QED BY <3>1, <3>2 DEF Promise!proofVars
  <2>2. CASE Insert(c)
    <3>1. status[Fresh(NewSessions)] = "NONE" /\ Fresh(NewSessions) \in Sessions
      BY <2>2 DEF Insert, Fresh, NewSessions
    <3> QED BY <2>2, <3>1, PromiseStays DEF Insert, tokenVars
  <2>3. CASE Register(c)
    BY <2>3, PromiseStays DEF Register, CallsFit, Proofs, CallsProved, sessionVars, tokenVars
  <2>4. ASSUME ~Issue(c), ~Insert(c), ~Register(c) PROVE UNCHANGED Promise!proofVars
    BY <1>1, <2>4, PromiseStays DEF Starting, Start, Touch, Note, sessionVars, tokenVars
  <2> QED BY <2>1, <2>2, <2>3, <2>4
<1>2. ASSUME NEW c \in Callers, Checking(c) PROVE [Promise!ProofNext]_Promise!proofVars
  <2>1. ASSUME ~Settle(c), ~Spends(c) PROVE UNCHANGED Promise!proofVars
    BY <1>2, <2>1, PromiseStays DEF Checking, Poll, Callback, Look, Ask, sessionVars, tokenVars
  <2> QED BY <1>2, <2>1, SettlePromise, SpendPromise DEF Spends, Access
<1>3. ASSUME NEW s \in Sessions, NEW r \in {"VERIFIED", "EXPIRED"}, ProviderDecides(s, r)
      PROVE  [Promise!ProofNext]_Promise!proofVars
  <2>1. /\ remote[s] = "PENDING" /\ remote' = [remote EXCEPT ![s] = r]
        /\ UNCHANGED <<status, owner, via>>
    BY <1>3 DEF ProviderDecides, sessionVars, tokenVars
  <2>2. CASE r = "EXPIRED"
    BY <2>1, <2>2, PromiseStays
  <2>3. CASE r = "VERIFIED"
    <3>1. {o \in Sessions : remote'[o] = "VERIFIED"} = {o \in Sessions : remote[o] = "VERIFIED"} \cup {s}
      BY <2>1, <2>3
    <3>2. Redemptions' = Redemptions
      BY <2>1 DEF Redemptions
    <3> QED BY <2>1, <3>1, <3>2 DEF Promise!ProofNext, Promise!Prove
  <2> QED BY <2>2, <2>3
<1>4. CASE Around
  <2>2. ASSUME NEW u \in Users, DeleteAccount(u) PROVE UNCHANGED Promise!proofVars
    BY <2>2, PromiseStays DEF DeleteAccount, sessionVars
  <2>3. ASSUME NEW s \in Sessions, Lapse(s) PROVE UNCHANGED Promise!proofVars
    BY <2>3, PromiseStays DEF Lapse, tokenVars
  <2>4. ASSUME NEW x \in Users \X Devices, Forget(x) PROVE UNCHANGED Promise!proofVars
    BY <2>4, PromiseStays DEF Forget, sessionVars, tokenVars
  <2> QED BY <1>3, <1>4, <2>2, <2>3, <2>4 DEF Around
<1>5. ASSUME NEW c \in Callers, Leaving(c) \/ Stop(c) PROVE UNCHANGED Promise!proofVars
  BY <1>5, PromiseStays DEF Leaving, SignOut, Untrust, Stop, sessionVars, tokenVars
<1>6. CASE UNCHANGED vars
  BY <1>6, PromiseStays DEF vars, sessionVars, tokenVars
<1> QED BY <1>1, <1>2, <1>4, <1>5, <1>6 DEF Next

\* Phone verification refines the one-time proof.
THEOREM OneTimeProofImplemented == Spec => ImplementsOneTimeProof
<1>1. Init => Promise!ProofInit
  BY DEF Init, Promise!ProofInit, Redemptions
<1>2. Init => Access
  BY NullsAssumption DEF Init, Access, TokensSpent, HoldersProved, DevicesProved
<1> QED
  BY InitTyped, StepTyped, InitProofs, StepProofs, <1>1, <1>2, StepAccess, StepPromise, PTL
     DEF Spec, ImplementsOneTimeProof, Promise!ProofSpec
=============================================================================
