------------------------------ MODULE Listing -------------------------------
(***************************************************************************)
(* A listing from draft to removal.  Its owner creates, submits, edits,    *)
(* renews and removes it; moderation approves it, rejects it or takes it   *)
(* down; a nightly job marks it expired.                                   *)
(*                                                                         *)
(* Moderation locks the row.  The owner's calls do not: they load it,      *)
(* change the copy and save the copy.  A save compares the copy with the   *)
(* row as it is by then and updates the columns that differ, so it is two  *)
(* steps, and a call is three: load, compare, write.  Calls that make a    *)
(* listing take a slot hold the owner's users row from the quota check to  *)
(* the write.                                                              *)
(*                                                                         *)
(* Text, photos and attributes are a content; one expiry window and one    *)
(* quota stand for those of categories and plans.  Left out: the expiry    *)
(* warning, snapshots, reasons, the featured columns (see Payment) and the *)
(* status an owner may set, which expires_at overrules.                    *)
(***************************************************************************)
EXTENDS FiniteSets, Integers

CONSTANTS
  Users,
  Posts,
  Contents,    \* what a listing may say
  Callers,     \* owners' calls that may be under way at once
  Limit,       \* planLimits(plan).posts
  Window,      \* expiryDaysFor
  Grace,       \* DELETED_LISTINGS_DAYS
  Proof,       \* POST_PROVEN_APPROVED
  MaxTime,     \* bound: the last day
  MaxRejected, \* bound: rejections counted
  MaxDeeds,    \* bound: owners' calls, decisions about a listing and deletions begun
  NoUser, NoPost, NoContent

ASSUME NumbersAssumption ==
  /\ Limit \in Nat /\ Window \in Nat /\ Grace \in Nat /\ Proof \in Nat /\ MaxTime \in Nat
  /\ MaxRejected \in Nat /\ MaxDeeds \in Nat /\ Window > 0 /\ MaxTime > 0
ASSUME NullsAssumption == NoUser \notin Users /\ NoPost \notin Posts /\ NoContent \notin Contents

VARIABLES
  accounts,   \* rows of users
  rejections, \* users.posts_rejected
  upheld,     \* owners of a listing a report was upheld against
  made,       \* ids of posts that were given out
  row,        \* posts
  leaving,    \* the account whose deletion is under way, or NoUser
  held,       \* posts that deletion has updated and keeps locked
  now,
  deeds,      \* calls, decisions and deletions begun, for the bound
  job,        \* the owner's call in each slot
  reviewed,   \* contents let through, by approval or as a proven provider's, since the last refusal
  revived,    \* listings given a slot without the quota since they last passed it: by an approval, or
              \* by a call that asked whether they had lapsed before their window closed
  overlapped  \* listings that changed while a call held a copy of them

vars == <<accounts, rejections, upheld, made, row, leaving, held, now, deeds, job, reviewed, revived, overlapped>>

\* expires is 0 for NULL; expired is status = 'EXPIRED'.  late is not in the code: the listing's
\* window closed after the call had looked at it.
Column == {"owner", "approval", "draft", "deleted", "expired", "expires", "content", "revision"}
Row == [owner : Users \cup {NoUser}, approval : {"PENDING", "APPROVED", "REJECTED"}, draft : BOOLEAN,
        deleted : BOOLEAN, expired : BOOLEAN, expires : 0..MaxTime + Window + Grace,
        content : Contents \cup {NoContent}, revision : Contents \cup {NoContent}]
Job == [op : {"none", "submit", "edit", "remove", "renew"}, at : {"idle", "loaded", "compared"},
        post : Posts \cup {NoPost}, copy : Row, columns : SUBSET Column, gated : BOOLEAN, vouched : BOOLEAN,
        late : BOOLEAN]

Blank == [owner |-> NoUser, approval |-> "PENDING", draft |-> TRUE, deleted |-> FALSE, expired |-> FALSE,
          expires |-> 0, content |-> NoContent, revision |-> NoContent]
Idle == [op |-> "none", at |-> "idle", post |-> NoPost, copy |-> Blank, columns |-> {},
         gated |-> FALSE, vouched |-> FALSE, late |-> FALSE]

TypeOK ==
  /\ accounts \subseteq Users
  /\ rejections \in [Users -> 0..MaxRejected] /\ upheld \subseteq Users
  /\ made \subseteq Posts
  /\ row \in [Posts -> Row] /\ \A p \in Posts : row[p].owner \in accounts \cup {NoUser}
  /\ leaving \in accounts \cup {NoUser} /\ held \subseteq made /\ (leaving = NoUser => held = {})
  /\ now \in 1..MaxTime /\ deeds \in 0..MaxDeeds
  /\ job \in [Callers -> Job]
  /\ reviewed \in [Posts -> SUBSET Contents]
  /\ revived \subseteq Posts /\ overlapped \subseteq Posts

Init ==
  /\ accounts = Users /\ rejections = [u \in Users |-> 0] /\ upheld = {}
  /\ made = {} /\ row = [p \in Posts |-> Blank]
  /\ leaving = NoUser /\ held = {}
  /\ now = 1 /\ deeds = 0
  /\ job = [c \in Callers |-> Idle]
  /\ reviewed = [p \in Posts |-> {}] /\ revived = {} /\ overlapped = {}
-----------------------------------------------------------------------------
(* Helpers.  What a name beginning with Bug defines is what a plausible slip would make of the *)
(* next definition.                                                                            *)

Shut(r) == 0 < r.expires /\ r.expires <= now
Standing(r) == r.approval = "APPROVED" /\ ~r.draft

\* isLive: anyone may see it.
Live(r) == Standing(r) /\ ~r.deleted /\ ~r.expired /\ ~Shut(r)

\* activeCount: everything not rejected, expired, draft or deleted holds a slot.
Holds(r) == ~r.deleted /\ ~r.draft /\ r.approval # "REJECTED" /\ ~r.expired /\ ~Shut(r)
Slots(u) == {p \in made : row[p].owner = u /\ Holds(row[p])}
UnderQuota(u) == Cardinality(Slots(u)) < Limit

\* lockUser: the users row is locked from the quota check to the commit.
Locked(u) == \E c \in Callers : job[c].at = "compared" /\ job[c].gated /\ job[c].copy.owner = u

\* isProvenProvider.
Published(u) == {p \in made : row[p].owner = u /\ Standing(row[p]) /\ ~row[p].deleted}
BugProven(u) == Cardinality(Published(u)) >= Proof

Proven(u) == rejections[u] = 0 /\ u \notin upheld /\ Cardinality(Published(u)) >= Proof

\* The listings of P change: a call that holds a copy of one of them has an old copy now.
Overlap(P, mine) ==
  overlapped' = overlapped \cup {p \in P : \E c \in Callers \ mine : job[c].at # "idle" /\ job[c].post = p}

Deed == deeds < MaxDeeds /\ deeds' = deeds + 1

\* A listing that gets a window gets it from now on.
Reopened(r) == [r EXCEPT !.expires = now + Window, !.expired = FALSE]
-----------------------------------------------------------------------------
(* The owner's calls. *)

\* create: the insert, with the quota of the plan unless it is a draft.
Create(u, p, draft, text) ==
  /\ u \in accounts /\ p \notin made
  /\ ~Locked(u) /\ (draft \/ UnderQuota(u))
  /\ made' = made \cup {p}
  /\ row' = [row EXCEPT ![p] = [Blank EXCEPT !.owner = u, !.draft = draft, !.content = text,
                                             !.expires = IF draft THEN 0 ELSE now + Window]]
  /\ UNCHANGED <<accounts, rejections, upheld, leaving, held, now, deeds, job, reviewed, revived, overlapped>>

\* loadPost and the owner's check; each call has its own refusals.
Admits(op, r) ==
  CASE op = "submit" -> r.draft
    [] op = "renew"  -> Standing(r)
    [] OTHER         -> TRUE

Load(c, p, op) ==
  /\ job[c] = Idle /\ p \in made
  /\ row[p].owner # NoUser /\ ~row[p].deleted /\ Admits(op, row[p])
  /\ job' = [job EXCEPT ![c] = [Idle EXCEPT !.op = op, !.at = "loaded", !.post = p, !.copy = row[p]]]
  /\ Deed
  /\ UNCHANGED <<accounts, rejections, upheld, made, row, leaving, held, now, reviewed, revived, overlapped>>

Submitted(r) == [Reopened(r) EXCEPT !.draft = FALSE, !.approval = "PENDING", !.expired = r.expired]
Removed(r)   == [r EXCEPT !.deleted = TRUE, !.revision = NoContent]
Lapsed(r)    == r.expired \/ Shut(r)

\* applyUpdate on a row that is not published: straight onto the row, and back to the queue.
\* The owner edits the parked edit when there is one.
Base(r) == IF r.revision # NoContent THEN r.revision ELSE r.content
Resubmits(r, text) == r.approval = "REJECTED" /\ ~r.draft /\ text # Base(r)
Rewritten(r, text) ==
  LET queued == IF text # Base(r) /\ ~r.draft THEN "PENDING" ELSE r.approval
      edited == [r EXCEPT !.content = text, !.approval = queued] IN
  IF Resubmits(r, text) /\ Lapsed(r) THEN Reopened(edited) ELSE edited

\* applyUpdate on a published row: nothing to review, a proven provider's edit, or a parked one.
Parked(r, text) ==
  CASE text = r.content -> [r EXCEPT !.revision = NoContent]
    [] text # r.content /\ Proven(r.owner) -> [r EXCEPT !.content = text, !.revision = NoContent]
    [] OTHER -> [r EXCEPT !.revision = text]

Edited(r, text) == IF Standing(r) THEN Parked(r, text) ELSE Rewritten(r, text)

\* The copy as each call leaves it.
Changed(op, r, text) ==
  CASE op = "submit" -> Submitted(r)
    [] op = "renew"  -> Reopened(r)
    [] op = "remove" -> Removed(r)
    [] OTHER         -> Edited(r, text)

\* Which calls pass the quota: submitting, resubmitting, renewing what had lapsed.
BugGated(op, r, text) == op = "submit" \/ (op = "edit" /\ ~Standing(r) /\ Resubmits(r, text))

Gated(op, r, text) ==
  \/ op = "submit"
  \/ op = "renew" /\ Lapsed(r)
  \/ op = "edit" /\ ~Standing(r) /\ Resubmits(r, text)

Differing(r, s) == {f \in Column : r[f] # s[f]}

\* The copy is changed, the quota checked under the lock, and save() reads the row to compare.
\* isProvenProvider's read belongs to this step: a change between the two reads is to another row.
Compare(c, text) ==
  LET j == job[c]
      new == Changed(j.op, j.copy, text)
      gated == Gated(j.op, j.copy, text) IN
  /\ j.at = "loaded" /\ (j.op # "edit" => text = j.copy.content)
  /\ gated => ~Locked(j.copy.owner) /\ UnderQuota(j.copy.owner)
  /\ job' = [job EXCEPT ![c].at = "compared", ![c].copy = new, ![c].gated = gated,
                        ![c].columns = Differing(new, row[j.post]),
                        ![c].vouched = rejections[j.copy.owner] = 0 /\ j.copy.owner \notin upheld]
  /\ UNCHANGED <<accounts, rejections, upheld, made, row, leaving, held, now, deeds, reviewed, revived, overlapped>>

\* The columns that differed are written, whatever the row says by now.
Merged(r, s, columns) ==
  LET pick(f) == IF f \in columns THEN s[f] ELSE r[f] IN
  [owner |-> pick("owner"), approval |-> pick("approval"), draft |-> pick("draft"),
   deleted |-> pick("deleted"), expired |-> pick("expired"), expires |-> pick("expires"),
   content |-> pick("content"), revision |-> pick("revision")]

\* posts.user_id references users.
BugRefers(r) == TRUE

Refers(r) == r.owner \in accounts \cup {NoUser}

Write(c) ==
  LET j == job[c]
      p == j.post
      new == Merged(row[p], j.copy, j.columns) IN
  /\ j.at = "compared" /\ p \notin held /\ Refers(new)
  /\ row' = [row EXCEPT ![p] = new]
  /\ reviewed' = [reviewed EXCEPT ![p] = @ \cup (IF j.vouched /\ Standing(new) THEN {new.content} ELSE {})]
  /\ revived' = CASE j.gated -> revived \ {p}
                  [] ~j.gated /\ j.late /\ ~Holds(row[p]) /\ Holds(new) -> revived \cup {p}
                  [] OTHER -> revived
  /\ Overlap({p}, {c})
  /\ job' = [job EXCEPT ![c] = Idle]
  /\ UNCHANGED <<accounts, rejections, upheld, made, leaving, held, now, deeds>>

\* A call is refused, fails, or its worker stops; nothing was written.
Stop(c) ==
  /\ job[c] # Idle
  /\ job' = [job EXCEPT ![c] = Idle]
  /\ UNCHANGED <<accounts, rejections, upheld, made, row, leaving, held, now, deeds, reviewed, revived, overlapped>>
-----------------------------------------------------------------------------
(* Moderation: one transaction behind the row's lock. *)

InQueue(r) == ~r.deleted /\ ~r.draft

\* approve; the edit becomes the listing, and a closed window opens again, quota or not.
Approve(p) ==
  LET r == row[p]
      text == IF r.revision # NoContent THEN r.revision ELSE r.content
      published == [r EXCEPT !.approval = "APPROVED", !.content = text, !.revision = NoContent] IN
  /\ p \in made \ held /\ InQueue(r)
  /\ ~(r.approval = "APPROVED" /\ r.revision = NoContent)
  /\ row' = [row EXCEPT ![p] = IF Lapsed(r) THEN Reopened(published) ELSE published]
  /\ reviewed' = [reviewed EXCEPT ![p] = @ \cup {text}]
  /\ revived' = IF Holds(r) THEN revived ELSE revived \cup {p}
  /\ Overlap({p}, {})
  /\ Deed
  /\ UNCHANGED <<accounts, rejections, upheld, made, leaving, held, now, job>>

\* posts_rejected counts a listing that was not rejected before.
CountRejection(r) ==
  rejections' = [u \in Users |-> IF u = r.owner /\ r.approval # "REJECTED" /\ rejections[u] < MaxRejected
                                   THEN rejections[u] + 1 ELSE rejections[u]]

\* reject: a parked edit is refused and the listing stays; otherwise the listing is refused.
Reject(p) ==
  LET r == row[p] IN
  /\ p \in made \ held /\ InQueue(r)
  /\ IF r.revision # NoContent
       THEN /\ row' = [row EXCEPT ![p].revision = NoContent]
            /\ UNCHANGED <<rejections, reviewed>>
       ELSE /\ row' = [row EXCEPT ![p].approval = "REJECTED"]
            /\ CountRejection(r)
            /\ reviewed' = [reviewed EXCEPT ![p] = {}]
  /\ Overlap({p}, {})
  /\ Deed
  /\ UNCHANGED <<accounts, upheld, made, leaving, held, now, job, revived>>

\* takeDown, after an upheld report: the whole listing goes, a parked edit included.
BugTakenDown(r) == [r EXCEPT !.approval = "REJECTED"]

TakenDown(r) == [r EXCEPT !.approval = "REJECTED", !.revision = NoContent]

TakeDown(p) ==
  LET r == row[p] IN
  /\ p \in made \ held /\ ~r.deleted
  /\ row' = [row EXCEPT ![p] = TakenDown(r)]
  /\ CountRejection(r)
  /\ reviewed' = [reviewed EXCEPT ![p] = {}]
  /\ Overlap({p}, {})
  /\ Deed
  /\ UNCHANGED <<accounts, upheld, made, leaving, held, now, job, revived>>

\* The statement that closes the reports of a listing that was taken down.
Uphold(u) ==
  /\ u \notin upheld /\ upheld' = upheld \cup {u}
  /\ UNCHANGED <<accounts, rejections, made, row, leaving, held, now, deeds, job, reviewed, revived, overlapped>>
-----------------------------------------------------------------------------
(* The nightly job, account deletion, the clock. *)

\* expireLapsed: one UPDATE.
ExpireLapsed ==
  LET due == {p \in made : ~row[p].expired /\ ~row[p].deleted /\ ~row[p].draft /\ Shut(row[p])} IN
  /\ due # {} /\ due \cap held = {}
  /\ row' = [p \in Posts |-> IF p \in due THEN [row[p] EXCEPT !.expired = TRUE] ELSE row[p]]
  /\ Overlap(due, {})
  /\ UNCHANGED <<accounts, rejections, upheld, made, leaving, held, now, deeds, job, reviewed, revived>>

\* LEAST(COALESCE(expires_at, ...), ...): what is up lapses soon, the rest is removed.
Orphaned(r) ==
  LET soon == IF r.expires = 0 \/ r.expires > now + Grace THEN now + Grace ELSE r.expires IN
  [r EXCEPT !.owner = NoUser, !.expires = soon, !.deleted = ~Standing(r)]

\* The deletion's first two statements: they lock the rows, and nobody reads what they wrote yet.
StartDeletion(u) ==
  /\ leaving = NoUser /\ u \in accounts
  /\ leaving' = u /\ held' = {p \in made : row[p].owner = u /\ ~row[p].deleted}
  /\ Deed
  /\ UNCHANGED <<accounts, rejections, upheld, made, row, now, job, reviewed, revived, overlapped>>

\* The row of users goes, and ON DELETE SET NULL finds the listings created meanwhile, too.
EndDeletion ==
  LET mine == {p \in made : row[p].owner = leaving} IN
  /\ leaving # NoUser /\ ~Locked(leaving)
  /\ accounts' = accounts \ {leaving} /\ upheld' = upheld \ {leaving}
  /\ row' = [p \in Posts |-> IF p \in held THEN Orphaned(row[p])
                             ELSE IF p \in mine THEN [row[p] EXCEPT !.owner = NoUser] ELSE row[p]]
  /\ Overlap(mine, {})
  /\ leaving' = NoUser /\ held' = {}
  /\ UNCHANGED <<rejections, made, now, deeds, job, reviewed, revived>>

\* It fails, or a call that holds the users row and wants a listing makes it a deadlock's victim.
AbortDeletion ==
  /\ leaving # NoUser /\ leaving' = NoUser /\ held' = {}
  /\ UNCHANGED <<accounts, rejections, upheld, made, row, now, deeds, job, reviewed, revived, overlapped>>

\* No deletion takes a day.  A window may close under a call that found it open.
Closing(c) == job[c].at = "compared" /\ ~job[c].gated /\ row[job[c].post].expires = now + 1
Tick ==
  /\ leaving = NoUser /\ now < MaxTime /\ now' = now + 1
  /\ job' = [c \in Callers |-> IF Closing(c) THEN [job[c] EXCEPT !.late = TRUE] ELSE job[c]]
  /\ UNCHANGED <<accounts, rejections, upheld, made, row, leaving, held, deeds, reviewed, revived, overlapped>>
-----------------------------------------------------------------------------
Owner ==
  \/ \E u \in Users, p \in Posts, draft \in BOOLEAN, text \in Contents : Create(u, p, draft, text)
  \/ \E c \in Callers :
       \/ \E p \in Posts, op \in {"submit", "edit", "remove", "renew"} : Load(c, p, op)
       \/ \E text \in Contents : Compare(c, text)
       \/ Write(c) \/ Stop(c)

Moderation == \/ \E p \in Posts : Approve(p) \/ Reject(p) \/ TakeDown(p)
              \/ \E u \in Users : Uphold(u)

Deletion == (\E u \in Users : StartDeletion(u)) \/ EndDeletion \/ AbortDeletion

Next == Owner \/ Moderation \/ Deletion \/ ExpireLapsed \/ Tick

Spec == Init /\ [][Next]_vars
-----------------------------------------------------------------------------
(* Properties. *)

Undisturbed == made \ overlapped

\* What anyone may see was approved, or written by a provider with a clean record, since the
\* listing was last refused, as long as no call saved an old copy of it (approve, reject, takeDown,
\* applyUpdate, isProvenProvider).
LiveIsReviewed == \A p \in Undisturbed : Live(row[p]) => row[p].content \in reviewed[p]

\* A parked edit lies beside a published listing only (post.entity.ts, pending_revision), with
\* the same proviso.
RevisionBesidePublished ==
  \A p \in Undisturbed : row[p].revision # NoContent => row[p].approval = "APPROVED"

\* An owner's listings stay within the plan, whatever calls run at once (assertQuota, lockUser).  Left
\* out are those the code gives a slot without asking: listings an approval brought back, listings
\* renewed by a call that found them running and saved when their window had closed (renew, 510-521),
\* and listings that changed under a call's copy.
WithinQuota == \A u \in Users : Cardinality((Slots(u) \cap Undisturbed) \ revived) <= Limit

\* Without the proviso: a listing that was rejected or taken down is out of browse until it is
\* approved again.
RefusedStaysDown == \A p \in made : Live(row[p]) => reviewed[p] # {}

\* Whatever old copies the calls save, an owner is written once, and a deleted account's listings never
\* come back to it: a copy taken before the deletion refers to a row of users that is gone (save).
Owned == INSTANCE Ownership WITH holder <- [p \in Posts |-> row[p].owner], Nobody <- NoUser
ImplementsOwnership == Owned!OwnershipSpec
=============================================================================
