-------------------------------- MODULE Auth --------------------------------
(***************************************************************************)
(* Phone verification and signed-in sessions.  A client asks for a code,   *)
(* its owner texts the code to verify.mn, polls (and verify.mn's callback) *)
(* learn the outcome, and one poll spends the session for an account, a    *)
(* trusted device and a token.  A trusted device gets a token at once.     *)
(*                                                                         *)
(* A call is cut at its awaits, so that its copy of a row may be old when  *)
(* it acts.  spend() is one transaction behind a conditional UPDATE.  Dev  *)
(* mode, the per-phone rate limit (a 429 is a call that stops), the pause  *)
(* of 3 s between polls of verify.mn, and the lapse of tokens after their  *)
(* TTL are left out.                                                       *)
(***************************************************************************)
EXTENDS FiniteSets, Integers

CONSTANTS
  Phones,
  Devices,
  Users,      \* account ids; one is never used twice
  Sessions,   \* rows of verification_session
  Tokens,     \* ids of auth_sessions
  Callers,    \* calls that may be under way at once
  NoPhone, NoDevice, NoUser, NoSession

ASSUME NullsAssumption ==
  NoPhone \notin Phones /\ NoDevice \notin Devices /\ NoUser \notin Users /\ NoSession \notin Sessions

VARIABLES
  status,    \* verification_session.status, NONE before the row exists
  phone,     \* verification_session.phone_number
  device,    \* verification_session.device_hash
  lapsed,    \* sessions whose expires_at has passed
  known,     \* sessions whose provider_session_id was stored
  given,     \* sessions whose id reached the client, in startVerification's answer
  remote,    \* the session at verify.mn, NONE before it exists there
  holder,    \* users.phone_number, NoPhone when there is no such row
  trusted,   \* rows of trusted_device, <<user, device>>
  stale,     \* those of them not seen for a year
  live,      \* rows of auth_sessions
  owner,     \* whom a token was ever issued to
  via,       \* the session it was issued for, NoSession for a trusted device
  job        \* the calls under way

sessionVars == <<status, phone, device, lapsed, known, given>>
userVars    == <<holder, trusted, stale>>
tokenVars   == <<live, owner, via>>
vars == <<sessionVars, remote, userVars, tokenVars, job>>

Status == {"PENDING", "VERIFIED", "EXPIRED", "CONSUMED"}
Phase  == {"idle", "touch", "issue", "insert", "register", "note", "ask", "settle", "spend", "untrust"}
Job    == [kind : {"none", "start", "poll", "callback", "signOut"}, at : Phase, phone : Phones \cup {NoPhone},
           device : Devices \cup {NoDevice}, user : Users \cup {NoUser},
           sess : Sessions \cup {NoSession}, verdict : {"EXPIRED", "VERIFIED"}]
Call(kind, at, p, d, u, s) == [kind |-> kind, at |-> at, phone |-> p, device |-> d, user |-> u,
                               sess |-> s, verdict |-> "EXPIRED"]
Idle == Call("none", "idle", NoPhone, NoDevice, NoUser, NoSession)

TypeOK ==
  /\ status \in [Sessions -> Status \cup {"NONE"}]
  /\ phone \in [Sessions -> Phones \cup {NoPhone}]
  /\ device \in [Sessions -> Devices \cup {NoDevice}]
  /\ \A s \in Sessions : status[s] # "NONE" => phone[s] \in Phones
  /\ lapsed \subseteq Sessions /\ known \subseteq Sessions /\ given \subseteq known
  /\ remote \in [Sessions -> {"NONE", "PENDING", "VERIFIED", "EXPIRED"}]
  /\ holder \in [Users -> Phones \cup {NoPhone}]
  /\ trusted \subseteq Users \X Devices /\ stale \subseteq trusted
  /\ live \subseteq Tokens
  /\ owner \in [Tokens -> Users \cup {NoUser}]
  /\ via \in [Tokens -> Sessions \cup {NoSession}]
  /\ job \in [Callers -> Job]

Init ==
  /\ status = [s \in Sessions |-> "NONE"]
  /\ phone = [s \in Sessions |-> NoPhone]
  /\ device = [s \in Sessions |-> NoDevice]
  /\ lapsed = {} /\ known = {} /\ given = {}
  /\ remote = [s \in Sessions |-> "NONE"]
  /\ holder = [u \in Users |-> NoPhone]
  /\ trusted = {} /\ stale = {}
  /\ live = {}
  /\ owner = [t \in Tokens |-> NoUser]
  /\ via = [t \in Tokens |-> NoSession]
  /\ job = [c \in Callers |-> Idle]
-----------------------------------------------------------------------------
(* Accounts, devices and tokens.  What a name beginning with Bug defines is what a plausible    *)
(* slip would make of the next definition.                                                     *)

Unspent   == {s \in Sessions : status[s] \notin {"CONSUMED", "EXPIRED"}}

\* Ids the database has not given out yet; an account is made together with a token.
NewUsers    == {u \in Users : \A t \in Tokens : owner[t] # u}
NewTokens   == {t \in Tokens : owner[t] = NoUser}
NewSessions == {s \in Sessions : status[s] = "NONE"}
Fresh(ids)  == CHOOSE id \in ids : TRUE

BugExists(u) == u \notin NewUsers
Exists(u) == holder[u] # NoPhone

\* findOrCreateByPhone: the row of the unique phone index, or a new one.
AccountFor(p) ==
  LET found == {u \in Users : holder[u] = p} IN
  IF found # {} THEN found ELSE {u \in NewUsers : u = Fresh(NewUsers)}

BugTrust(u, d) == trusted' = trusted \cup {<<u, d>>} /\ stale' = stale \ {<<u, d>>}

\* trustDevice: an upsert; a client without a device id is not remembered.
Trust(u, d) ==
  /\ trusted' = trusted \cup ({<<u, d>>} \cap (Users \X Devices))
  /\ stale' = stale \ {<<u, d>>}

\* openSession: a row of auth_sessions for the account.
Open(t, u, s) ==
  /\ live' = live \cup {t}
  /\ owner' = [owner EXCEPT ![t] = u]
  /\ via' = [via EXCEPT ![t] = s]

Step(c, at)   == job' = [job EXCEPT ![c].at = at]
Finish(c)     == job' = [job EXCEPT ![c] = Idle]
-----------------------------------------------------------------------------
(* startVerification. *)

\* The call looks the account up; only then is there a device to recognise.
Start(c, p, d) ==
  LET found == {u \in Users : holder[u] = p}
      Goes(at, u) == job' = [job EXCEPT ![c] = Call("start", at, p, d, u, NoSession)] IN
  /\ job[c] = Idle
  /\ \/ d # NoDevice /\ \E u \in found : Goes("touch", u)
     \/ (d # NoDevice => found = {}) /\ Goes("insert", NoUser)
  /\ UNCHANGED <<sessionVars, remote, userVars, tokenVars>>

\* touchTrustedDevice: one UPDATE of a row seen within the last year.
Recognised(u, d) == <<u, d>> \in trusted \ stale

Touch(c) ==
  /\ job[c].at = "touch"
  /\ Step(c, IF Recognised(job[c].user, job[c].device) THEN "issue" ELSE "insert")
  /\ UNCHANGED <<sessionVars, remote, userVars, tokenVars>>

\* issue for a recognised device; the foreign key refuses an account deleted meanwhile.  Bound:
\* as many tokens are left as there are sessions that may still be spent.
Issue(c) ==
  /\ job[c].at = "issue"
  /\ Exists(job[c].user)
  /\ NewTokens # {} /\ Cardinality(NewTokens) > Cardinality(Unspent)
  /\ Open(Fresh(NewTokens), job[c].user, NoSession)
  /\ Finish(c)
  /\ UNCHANGED <<sessionVars, remote, userVars>>

\* The row comes first, with the engine's own expiry and no provider id.
Insert(c) ==
  LET s == Fresh(NewSessions) IN
  /\ job[c].at = "insert" /\ NewSessions # {}
  /\ status' = [status EXCEPT ![s] = "PENDING"]
  /\ phone' = [phone EXCEPT ![s] = job[c].phone]
  /\ device' = [device EXCEPT ![s] = job[c].device]
  /\ job' = [job EXCEPT ![c] = Call("start", "register", NoPhone, NoDevice, NoUser, s)]
  /\ UNCHANGED <<lapsed, known, given, remote, userVars, tokenVars>>

\* verify.mn opens its session; the answer may get lost (Stop).
Register(c) ==
  /\ job[c].at = "register"
  /\ remote' = [remote EXCEPT ![job[c].sess] = "PENDING"]
  /\ Step(c, "note")
  /\ UNCHANGED <<sessionVars, userVars, tokenVars>>

\* The provider's id and expiry are stored; the new expiry lies ahead.  Only now is the client
\* answered, and the answer may get lost.
Note(c) ==
  /\ job[c].at = "note"
  /\ known' = known \cup {job[c].sess}
  /\ lapsed' = lapsed \ {job[c].sess}
  /\ \E heard \in SUBSET {job[c].sess} : given' = given \cup heard
  /\ Finish(c)
  /\ UNCHANGED <<status, phone, device, remote, userVars, tokenVars>>
-----------------------------------------------------------------------------
(* checkVerification and handleCallback. *)

BugRefresh(s) ==
  CASE status[s] = "VERIFIED" -> "spend"
    [] status[s] = "PENDING" /\ s \in known -> "ask"
    [] status[s] = "PENDING" /\ s \notin known /\ s \in lapsed -> "settle"
    [] OTHER -> "idle"

\* refresh, on the row as it was read: what the call does next.
Refresh(s) ==
  CASE status[s] = "VERIFIED" -> "spend"
    [] status[s] = "PENDING" /\ s \in lapsed -> "settle"
    [] status[s] = "PENDING" /\ s \notin lapsed /\ s \in known -> "ask"
    [] OTHER -> "idle"

Look(c, s, kind) ==
  /\ job[c] = Idle /\ Refresh(s) # "idle"
  /\ job' = [job EXCEPT ![c] = Call(kind, Refresh(s), NoPhone, NoDevice, NoUser, s)]
  /\ UNCHANGED <<sessionVars, remote, userVars, tokenVars>>

\* Whoever polls was given the session's id.
Poll(c, s) == s \in given /\ Look(c, s, "poll")

\* A callback records, it never spends; its address went to verify.mn with the session.
Callback(c, s) == remote[s] # "NONE" /\ Refresh(s) # "spend" /\ Look(c, s, "callback")

\* verify.mn tells its session's state; a pending one changes nothing.
Ask(c) ==
  LET s == job[c].sess IN
  /\ job[c].at = "ask"
  /\ IF remote[s] \in {"VERIFIED", "EXPIRED"}
       THEN job' = [job EXCEPT ![c].at = "settle", ![c].verdict = remote[s]]
       ELSE Finish(c)
  /\ UNCHANGED <<sessionVars, remote, userVars, tokenVars>>

BugSettled(s, verdict) == verdict

\* settle: the UPDATE is conditional on PENDING.
Settled(s, verdict) == IF status[s] = "PENDING" THEN verdict ELSE status[s]

\* refresh then answers the verdict itself, whether or not the UPDATE met the row.
Settle(c) ==
  LET s == job[c].sess IN
  /\ job[c].at = "settle"
  /\ status' = [status EXCEPT ![s] = Settled(s, job[c].verdict)]
  /\ IF job[c].kind = "poll" /\ job[c].verdict = "VERIFIED" THEN Step(c, "spend") ELSE Finish(c)
  /\ UNCHANGED <<phone, device, lapsed, known, given, remote, userVars, tokenVars>>

\* The claim in spend: VERIFIED and only VERIFIED.
Spendable(s) == status[s] = "VERIFIED"

\* spend: claim, account, trusted device and token commit together or not at all.
Spend(c, u) ==
  LET s == job[c].sess
      t == Fresh(NewTokens) IN
  /\ job[c].at = "spend" /\ Spendable(s)
  /\ u \in AccountFor(phone[s]) /\ NewTokens # {}
  /\ status' = [status EXCEPT ![s] = "CONSUMED"]
  /\ holder' = [holder EXCEPT ![u] = phone[s]]
  /\ Trust(u, device[s])
  /\ Open(t, u, s)
  /\ Finish(c)
  /\ UNCHANGED <<phone, device, lapsed, known, given, remote>>

\* A call ends early: 429, GONE, a provider or database error with its rollback, a worker down.
Stop(c) ==
  /\ job[c] # Idle
  /\ Finish(c)
  /\ UNCHANGED <<sessionVars, remote, userVars, tokenVars>>
-----------------------------------------------------------------------------
(* Signed in, and around. *)

\* signOut ends this token; with a device id it goes on to forget the device.
SignOut(c, t, d) ==
  /\ job[c] = Idle /\ t \in live
  /\ live' = live \ {t}
  /\ job' = [job EXCEPT ![c] = IF d = NoDevice THEN Idle
                               ELSE Call("signOut", "untrust", NoPhone, d, owner[t], NoSession)]
  /\ UNCHANGED <<sessionVars, remote, userVars, owner, via>>

Untrust(c) ==
  /\ job[c].at = "untrust"
  /\ trusted' = trusted \ {<<job[c].user, job[c].device>>}
  /\ stale' = stale \ {<<job[c].user, job[c].device>>}
  /\ Finish(c)
  /\ UNCHANGED <<sessionVars, remote, holder, tokenVars>>

\* deleteAccount, by the owner or an admin: tokens and trusted devices go with the row.
DeleteAccount(u) ==
  /\ Exists(u)
  /\ holder' = [holder EXCEPT ![u] = NoPhone]
  /\ trusted' = {x \in trusted : x[1] # u}
  /\ stale' = {x \in stale : x[1] # u}
  /\ live' = {t \in live : owner[t] # u}
  /\ UNCHANGED <<sessionVars, remote, owner, via, job>>

\* External: verify.mn receives the text, or lets its session lapse.
ProviderDecides(s, outcome) ==
  /\ remote[s] = "PENDING"
  /\ remote' = [remote EXCEPT ![s] = outcome]
  /\ UNCHANGED <<sessionVars, userVars, tokenVars, job>>

\* Time passes: a session reaches its expires_at (refresh looks at it while PENDING only), a
\* device has not been seen for a year.
Lapse(s) ==
  /\ status[s] = "PENDING" /\ s \notin lapsed
  /\ lapsed' = lapsed \cup {s}
  /\ UNCHANGED <<status, phone, device, known, given, remote, userVars, tokenVars, job>>

Forget(x) ==
  /\ x \in trusted \ stale
  /\ stale' = stale \cup {x}
  /\ UNCHANGED <<sessionVars, remote, holder, trusted, tokenVars, job>>
-----------------------------------------------------------------------------
Starting(c) ==
  \/ \E p \in Phones, d \in Devices \cup {NoDevice} : Start(c, p, d)
  \/ Touch(c) \/ Issue(c) \/ Insert(c) \/ Register(c) \/ Note(c)

Spends(c) == \E u \in Users : Spend(c, u)

Checking(c) ==
  \/ \E s \in Sessions : Poll(c, s) \/ Callback(c, s)
  \/ Ask(c) \/ Settle(c) \/ Spends(c)

Leaving(c) == (\E t \in Tokens, d \in Devices \cup {NoDevice} : SignOut(c, t, d)) \/ Untrust(c)

Around ==
  \/ \E u \in Users : DeleteAccount(u)
  \/ \E s \in Sessions : Lapse(s) \/ \E r \in {"VERIFIED", "EXPIRED"} : ProviderDecides(s, r)
  \/ \E x \in Users \X Devices : Forget(x)

Next == (\E c \in Callers : Starting(c) \/ Checking(c) \/ Leaving(c) \/ Stop(c)) \/ Around

Spec == Init /\ [][Next]_vars

\* The clock runs; a client that was given a session's id polls every two seconds until it has an
\* answer, and not every one of its polls is cut off; calls end.  Nobody else polls.
FairSpec ==
  /\ Spec
  /\ \A s \in Sessions :
       /\ WF_vars(Lapse(s))
       /\ SF_vars(\E c \in Callers : Poll(c, s))
       /\ SF_vars(\E c \in Callers : job[c].sess = s /\ Settle(c))
       /\ SF_vars(\E c \in Callers : job[c].sess = s /\ Spends(c))
  /\ \A c \in Callers : WF_vars(Ask(c) \/ Settle(c) \/ Spends(c) \/ Stop(c))
-----------------------------------------------------------------------------
(* Properties. *)

\* Two accounts never share a phone number, however many sessions are spent for it at once
\* (findOrCreateByPhone, UQ_users_phone_number).
OneAccountPerPhone ==
  \A u, v \in Users : holder[u] # NoPhone /\ holder[u] = holder[v] => u = v

\* The session that made u the owner of its phone: its text arrived.
Proof(u, t) ==
  /\ owner[t] = u /\ via[t] \in Sessions
  /\ phone[via[t]] = holder[u] /\ remote[via[t]] = "VERIFIED"

\* Whoever holds a token, or a trusted device, holds it for an account whose phone number was
\* proved by a text, on that device; nothing outlives the account (spend, touchTrustedDevice,
\* issue, deleteAccount).
AccessProved ==
  /\ \A t \in live : \E first \in Tokens : Proof(owner[t], first)
  /\ \A x \in trusted : \E first \in Tokens : Proof(x[1], first) /\ device[via[first]] = x[2]

\* A text is worth one token, and a session that expired is worth none, whatever polls and
\* callbacks are under way (settle, spend).
Redemptions == {x \in Sessions \X Tokens : owner[x[2]] # NoUser /\ via[x[2]] = x[1]}
Promise == INSTANCE OneTimeProof WITH
  Proofs <- Sessions, Tickets <- Tokens, paidOut <- Redemptions,
  proved <- {s \in Sessions : remote[s] = "VERIFIED"},
  void <- {s \in Sessions : status[s] = "EXPIRED"}
ImplementsOneTimeProof == Promise!ProofSpec

\* Under FairSpec: a session its client was given does not stay open for good, also when verify.mn
\* never decides or is never reached (refresh's own expiry); once verified it is spent.
SessionsEnd ==
  \A s \in Sessions : /\ s \in given /\ status[s] = "PENDING" ~> status[s] # "PENDING"
                      /\ s \in given /\ status[s] = "VERIFIED" ~> status[s] = "CONSUMED"
=============================================================================
