--------------------------- MODULE ListingProofs ---------------------------
(***************************************************************************)
(* Proofs about Listing, for any owners, listings, contents, calls under   *)
(* way, quota and window.  A call that holds a copy of a listing nobody    *)
(* changed since (Apt) writes what a reviewer or the quota would have let  *)
(* through; what the lock on the users row adds is that one call at a time *)
(* may take a slot (OneLock), and finds it free (Room).                    *)
(***************************************************************************)
EXTENDS Listing, FiniteSetTheorems, TLAPS

Op == {"submit", "edit", "remove", "renew"}
-----------------------------------------------------------------------------
(* Types. *)

\* Ids that were not given out have no row; what was, says something; a call acts on such a listing.
Given ==
  /\ \A p \in Posts \ made : row[p] = Blank
  /\ \A p \in made : row[p].content \in Contents
  /\ \A c \in Callers : job[c].at # "idle" =>
       /\ job[c].op \in Op /\ job[c].post \in made
       /\ job[c].copy.content \in Contents /\ job[c].copy.owner \in Users
       /\ job[c].at = "loaded" => Admits(job[c].op, job[c].copy) /\ ~job[c].copy.deleted
Typed == TypeOK /\ Given

LEMMA BlankTyped == Blank \in Row /\ Idle \in Job /\ Idle.at = "idle"
BY NumbersAssumption DEF Blank, Row, Idle, Job

LEMMA Windows ==
  ASSUME Typed
  PROVE  /\ now \in Nat /\ now + Window \in 0..MaxTime + Window + Grace
         /\ now + Grace \in 0..MaxTime + Window + Grace /\ now < now + Window
BY NumbersAssumption DEF Typed, TypeOK

LEMMA ReopenedTyped ==
  ASSUME Typed, NEW r \in Row
  PROVE  /\ Reopened(r) \in Row /\ Reopened(r).expires = now + Window /\ ~Reopened(r).expired
         /\ \A f \in Column \ {"expires", "expired"} : Reopened(r)[f] = r[f]
BY Windows DEF Reopened, Row, Column

\* A call leaves a listing's owner alone, and a text in it.
LEMMA ChangedTyped ==
  ASSUME Typed, NEW r \in Row, NEW text \in Contents, NEW op \in Op, r.content \in Contents
  PROVE  /\ Changed(op, r, text) \in Row
         /\ Changed(op, r, text).owner = r.owner /\ Changed(op, r, text).content \in Contents
<1>0. Reopened(r) \in Row /\ Reopened(r).owner = r.owner /\ Reopened(r).content = r.content
  BY ReopenedTyped DEF Column
<1>1. Submitted(r) \in Row /\ Submitted(r).owner = r.owner /\ Submitted(r).content = r.content
  BY <1>0 DEF Submitted, Row
<1>2. Removed(r) \in Row /\ Removed(r).owner = r.owner /\ Removed(r).content = r.content
  BY DEF Removed, Row
<1>3. Parked(r, text) \in Row /\ Parked(r, text).owner = r.owner /\ Parked(r, text).content \in Contents
  BY DEF Parked, Row
<1>4. Rewritten(r, text) \in Row /\ Rewritten(r, text).owner = r.owner /\ Rewritten(r, text).content \in Contents
  <2> DEFINE queued == IF text # Base(r) /\ ~r.draft THEN "PENDING" ELSE r.approval
             edited == [r EXCEPT !.content = text, !.approval = queued]
  <2>1. edited \in Row /\ edited.owner = r.owner /\ edited.content = text
    BY DEF Row
  <2>2. Reopened(edited) \in Row /\ Reopened(edited).owner = edited.owner /\ Reopened(edited).content = edited.content
    BY <2>1, ReopenedTyped DEF Column
  <2>3. Rewritten(r, text) \in {edited, Reopened(edited)}
    BY DEF Rewritten
  <2> HIDE DEF edited
  <2> QED BY <2>1, <2>2, <2>3
<1>5. Changed(op, r, text) \in {Submitted(r), Reopened(r), Removed(r), Parked(r, text), Rewritten(r, text)}
  BY DEF Changed, Edited, Op
<1> QED BY <1>0, <1>1, <1>2, <1>3, <1>4, <1>5

LEMMA MergedTyped ==
  ASSUME NEW r \in Row, NEW s \in Row, NEW columns \in SUBSET Column
  PROVE  /\ Merged(r, s, columns) \in Row
         /\ Merged(r, s, columns).content \in {r.content, s.content}
BY DEF Merged, Row, Column

LEMMA TakenTyped ==
  ASSUME NEW r \in Row
  PROVE  /\ TakenDown(r) \in Row
         /\ TakenDown(r).owner = r.owner /\ TakenDown(r).content = r.content
         /\ TakenDown(r).approval = "REJECTED" /\ TakenDown(r).revision = NoContent
BY DEF TakenDown, Row

LEMMA OrphanedTyped ==
  ASSUME Typed, NEW r \in Row
  PROVE  /\ Orphaned(r) \in Row /\ Orphaned(r).owner = NoUser
         /\ \A f \in {"approval", "draft", "content", "revision"} : Orphaned(r)[f] = r[f]
BY Windows DEF Orphaned, Row, Standing
-----------------------------------------------------------------------------
(* The steps, one by one. *)

Called(c) == \/ \E p \in Posts, op \in Op : Load(c, p, op)
             \/ \E text \in Contents : Compare(c, text)
             \/ Write(c) \/ Stop(c)

LEMMA Steps ==
  ASSUME [Next]_vars
  PROVE  \/ \E u \in Users, p \in Posts, draft \in BOOLEAN, text \in Contents : Create(u, p, draft, text)
         \/ \E c \in Callers : Called(c)
         \/ \E p \in Posts : Approve(p) \/ Reject(p) \/ TakeDown(p)
         \/ \E u \in Users : Uphold(u) \/ StartDeletion(u)
         \/ EndDeletion \/ AbortDeletion \/ ExpireLapsed \/ Tick
         \/ UNCHANGED vars
<1>1. CASE Owner
  BY <1>1 DEF Owner, Called, Op
<1>2. CASE Moderation \/ Deletion
  BY <1>2 DEF Moderation, Deletion
<1> QED BY <1>1, <1>2 DEF Next

\* What an approval, a rejection or a take-down makes of a row.
LetThrough(r) == [r EXCEPT !.approval = "APPROVED", !.content = Base(r), !.revision = NoContent]
Approved(r) == IF Lapsed(r) THEN Reopened(LetThrough(r)) ELSE LetThrough(r)
Rejected(r) == IF r.revision # NoContent THEN [r EXCEPT !.revision = NoContent]
               ELSE [r EXCEPT !.approval = "REJECTED"]

LEMMA ApprovedTyped ==
  ASSUME Typed, NEW r \in Row, r.content \in Contents
  PROVE  /\ Approved(r) \in Row /\ Approved(r).owner = r.owner /\ Approved(r).content = Base(r)
         /\ Base(r) \in Contents /\ Approved(r).revision = NoContent
         /\ Approved(r).approval = "APPROVED" /\ Approved(r).draft = r.draft
<1>1. Base(r) \in Contents
  BY DEF Base, Row
<1>2. /\ LetThrough(r) \in Row /\ LetThrough(r).owner = r.owner /\ LetThrough(r).content = Base(r)
      /\ LetThrough(r).revision = NoContent /\ LetThrough(r).approval = "APPROVED" /\ LetThrough(r).draft = r.draft
  BY <1>1 DEF LetThrough, Row
<1>3. /\ Reopened(LetThrough(r)) \in Row
      /\ \A f \in Column \ {"expires", "expired"} : Reopened(LetThrough(r))[f] = LetThrough(r)[f]
  BY <1>2, ReopenedTyped
<1> QED BY <1>1, <1>2, <1>3 DEF Approved, Column

LEMMA RejectedTyped ==
  ASSUME NEW r \in Row
  PROVE  /\ Rejected(r) \in Row /\ Rejected(r).owner = r.owner /\ Rejected(r).content = r.content
         /\ Rejected(r).revision = NoContent /\ Rejected(r).draft = r.draft
         /\ Rejected(r).approval \in {"REJECTED", r.approval}
BY DEF Rejected, Row

LEMMA ModerationWrites ==
  ASSUME Typed, NEW p \in Posts
  PROVE  /\ Approve(p) => row' = [row EXCEPT ![p] = Approved(row[p])] /\ reviewed' = [reviewed EXCEPT ![p] = @ \cup {Base(row[p])}]
         /\ Reject(p) => row' = [row EXCEPT ![p] = Rejected(row[p])]
BY DEF Typed, TypeOK, Approve, Reject, Approved, LetThrough, Rejected, Base
-----------------------------------------------------------------------------
(* Type correctness. *)

RowsTyped ==
  /\ accounts \subseteq Users /\ made \subseteq Posts
  /\ row \in [Posts -> Row] /\ \A p \in Posts : row[p].owner \in accounts \cup {NoUser}
  /\ \A p \in Posts \ made : row[p] = Blank
  /\ \A p \in made : row[p].content \in Contents
JobsTyped ==
  /\ job \in [Callers -> Job]
  /\ \A c \in Callers : job[c].at # "idle" =>
       /\ job[c].op \in Op /\ job[c].post \in made
       /\ job[c].copy.content \in Contents /\ job[c].copy.owner \in Users
       /\ job[c].at = "loaded" => Admits(job[c].op, job[c].copy) /\ ~job[c].copy.deleted
RestTyped ==
  /\ rejections \in [Users -> 0..MaxRejected] /\ upheld \subseteq Users
  /\ leaving \in accounts \cup {NoUser} /\ held \subseteq made /\ (leaving = NoUser => held = {})
  /\ now \in 1..MaxTime /\ deeds \in 0..MaxDeeds
  /\ reviewed \in [Posts -> SUBSET Contents]
  /\ revived \subseteq Posts /\ overlapped \subseteq Posts

LEMMA TypedParts == Typed <=> RowsTyped /\ JobsTyped /\ RestTyped
BY DEF Typed, TypeOK, Given, RowsTyped, JobsTyped, RestTyped

LEMMA InitTyped == Init => Typed
<1> SUFFICES ASSUME Init PROVE Typed
  OBVIOUS
<1>1. Blank.owner = NoUser
  BY DEF Blank
<1> QED BY <1>1, BlankTyped, NumbersAssumption DEF Init, Typed, TypeOK, Given

LEMMA JobsKeep ==
  ASSUME JobsTyped, made \subseteq made', \A c \in Callers : job'[c] \in {job[c], Idle},
         job' \in [Callers -> Job]
  PROVE  JobsTyped'
BY BlankTyped DEF JobsTyped

\* A day passes: a call may find that its window closed, and keeps the rest.
SameCall(c) ==
  /\ job'[c].op = job[c].op /\ job'[c].at = job[c].at /\ job'[c].post = job[c].post
  /\ job'[c].copy = job[c].copy /\ job'[c].columns = job[c].columns
  /\ job'[c].gated = job[c].gated /\ job'[c].vouched = job[c].vouched

LEMMA TickJob ==
  ASSUME Typed, Tick
  PROVE  /\ job' \in [Callers -> Job]
         /\ \A c \in Callers : SameCall(c) /\ (job[c].late \/ Closing(c) => job'[c].late)
<1> SUFFICES ASSUME NEW c \in Callers
             PROVE  job'[c] \in Job /\ SameCall(c) /\ (job[c].late \/ Closing(c) => job'[c].late)
  BY DEF Tick
<1> DEFINE marked == [job[c] EXCEPT !.late = TRUE]
<1>1. job[c] \in Job
  BY DEF Typed, TypeOK
<1>2. /\ marked \in Job /\ marked.late /\ marked.op = job[c].op /\ marked.at = job[c].at
      /\ marked.post = job[c].post /\ marked.copy = job[c].copy /\ marked.columns = job[c].columns
      /\ marked.gated = job[c].gated /\ marked.vouched = job[c].vouched
  BY <1>1 DEF Job
<1>3. job'[c] = IF Closing(c) THEN marked ELSE job[c]
  BY DEF Tick
<1> HIDE DEF marked
<1> QED BY <1>1, <1>2, <1>3 DEF SameCall

\* What a call's first two steps leave in its slot.
LEMMA LoadJob ==
  ASSUME Typed, NEW c \in Callers, NEW p \in Posts, NEW op \in Op, Load(c, p, op)
  PROVE  /\ job' \in [Callers -> Job] /\ \A d \in Callers \ {c} : job'[d] = job[d]
         /\ job'[c].op = op /\ job'[c].at = "loaded" /\ job'[c].post = p /\ job'[c].copy = row[p]
         /\ p \in made /\ Admits(op, row[p]) /\ ~row[p].deleted /\ row[p].owner \in Users
<1> DEFINE new == [Idle EXCEPT !.op = op, !.at = "loaded", !.post = p, !.copy = row[p]]
<1>1. row[p] \in Row /\ job \in [Callers -> Job] /\ row[p].owner \in Users
  BY DEF Load, Typed, TypeOK
<1>2. new \in Job /\ new.op = op /\ new.at = "loaded" /\ new.post = p /\ new.copy = row[p]
  BY <1>1, BlankTyped DEF Job, Op
<1>3. job' = [job EXCEPT ![c] = new]
  BY DEF Load
<1>4. p \in made /\ Admits(op, row[p]) /\ ~row[p].deleted
  BY DEF Load
<1> HIDE DEF new
<1> QED BY <1>1, <1>2, <1>3, <1>4

LEMMA CompareJob ==
  ASSUME Typed, NEW c \in Callers, NEW text \in Contents, Compare(c, text)
  PROVE  LET j == job[c]
             new == Changed(j.op, j.copy, text) IN
         /\ job' \in [Callers -> Job] /\ \A d \in Callers \ {c} : job'[d] = job[d]
         /\ job'[c].op = j.op /\ job'[c].at = "compared" /\ job'[c].post = j.post /\ job'[c].copy = new
         /\ job'[c].columns = Differing(new, row[j.post])
         /\ job'[c].gated = Gated(j.op, j.copy, text)
         /\ job'[c].vouched = (rejections[j.copy.owner] = 0 /\ j.copy.owner \notin upheld)
         /\ new \in Row /\ new.owner = j.copy.owner /\ new.content \in Contents
<1> DEFINE j == job[c]
           new == Changed(j.op, j.copy, text)
           g == Gated(j.op, j.copy, text)
           f == Differing(new, row[j.post])
           v == rejections[j.copy.owner] = 0 /\ j.copy.owner \notin upheld
<1>1. /\ j \in Job /\ j.at = "loaded" /\ j.op \in Op /\ j.copy \in Row /\ j.copy.content \in Contents
      /\ job \in [Callers -> Job]
  BY DEF Compare, Typed, TypeOK, Given, Job
<1>2. new \in Row /\ new.owner = j.copy.owner /\ new.content \in Contents
  BY <1>1, ChangedTyped
<1>3. f \in SUBSET Column /\ g \in BOOLEAN /\ v \in BOOLEAN
  BY DEF Differing, Gated
<1>4. job' = [job EXCEPT ![c].at = "compared", ![c].copy = new, ![c].gated = g, ![c].columns = f, ![c].vouched = v]
  BY DEF Compare
<1> HIDE DEF new, g, f, v
<1>5. /\ job' \in [Callers -> Job] /\ \A d \in Callers \ {c} : job'[d] = job[d]
      /\ job'[c].op = j.op /\ job'[c].at = "compared" /\ job'[c].post = j.post /\ job'[c].copy = new
      /\ job'[c].columns = f /\ job'[c].gated = g /\ job'[c].vouched = v
  BY <1>1, <1>2, <1>3, <1>4 DEF Job
<1> QED BY <1>2, <1>5 DEF new, g, f, v

LEMMA TypeNext == Typed /\ [Next]_vars => Typed'
<1> SUFFICES ASSUME Typed, [Next]_vars PROVE Typed'
  OBVIOUS
<1>0. RowsTyped /\ JobsTyped /\ RestTyped
  BY TypedParts
<1>q. ASSUME RowsTyped', JobsTyped', RestTyped' PROVE Typed'
  BY <1>q DEF Typed, TypeOK, Given, RowsTyped, JobsTyped, RestTyped
<1>r. ASSUME UNCHANGED <<accounts, made, row>> PROVE RowsTyped'
  BY <1>0, <1>r DEF RowsTyped
<1>o. ASSUME NEW p \in made, NEW new \in Row, row' = [row EXCEPT ![p] = new], UNCHANGED <<accounts, made>>,
             new.owner \in accounts \cup {NoUser}, new.content \in Contents
      PROVE  RowsTyped'
  BY <1>0, <1>o DEF RowsTyped
<1>j. ASSUME UNCHANGED job, made \subseteq made' PROVE JobsTyped'
  BY <1>0, <1>j DEF JobsTyped
<1>i. ASSUME NEW c \in Callers, job' = [job EXCEPT ![c] = Idle], UNCHANGED made PROVE JobsTyped'
  BY <1>0, <1>i, BlankTyped DEF JobsTyped
<1>v. \A P, mine : P \subseteq Posts /\ Overlap(P, mine) => overlapped' \subseteq Posts
  BY <1>0 DEF Overlap, RestTyped
<1>d. Deed => deeds' \in 0..MaxDeeds
  BY <1>0, NumbersAssumption DEF Deed, RestTyped
<1>1. ASSUME NEW u \in Users, NEW p \in Posts, NEW draft \in BOOLEAN, NEW text \in Contents, Create(u, p, draft, text)
      PROVE  Typed'
  <2> DEFINE new == [Blank EXCEPT !.owner = u, !.draft = draft, !.content = text,
                                  !.expires = IF draft THEN 0 ELSE now + Window]
  <2>1. (IF draft THEN 0 ELSE now + Window) \in 0..MaxTime + Window + Grace
    BY Windows, NumbersAssumption
  <2>2. new \in Row /\ new.owner = u /\ new.content = text
    BY <2>1, BlankTyped DEF Row
  <2>3. /\ row' = [row EXCEPT ![p] = new] /\ made' = made \cup {p} /\ u \in accounts
        /\ UNCHANGED <<accounts, rejections, upheld, leaving, held, now, deeds, job, reviewed, revived, overlapped>>
    BY <1>1 DEF Create
  <2> HIDE DEF new
  <2>4. RowsTyped'
    BY <1>0, <2>2, <2>3 DEF RowsTyped
  <2>5. RestTyped'
    BY <1>0, <2>3 DEF RestTyped
  <2> QED BY <1>q, <1>j, <2>3, <2>4, <2>5
<1>2. ASSUME NEW c \in Callers, NEW p \in Posts, NEW op \in Op, Load(c, p, op) PROVE Typed'
  <2>1. /\ job' \in [Callers -> Job] /\ \A d \in Callers \ {c} : job'[d] = job[d]
        /\ job'[c].op = op /\ job'[c].at = "loaded" /\ job'[c].post = p /\ job'[c].copy = row[p]
        /\ p \in made /\ Admits(op, row[p]) /\ ~row[p].deleted /\ row[p].owner \in Users
    BY <1>2, LoadJob
  <2>2. UNCHANGED made /\ row[p].content \in Contents
    BY <1>0, <1>2, <2>1 DEF Load, RowsTyped
  <2>3. JobsTyped'
    BY <1>0, <2>1, <2>2 DEF JobsTyped
  <2>4. RestTyped'
    BY <1>0, <1>2, <1>d DEF Load, RestTyped
  <2> QED BY <1>q, <1>r, <1>2, <2>3, <2>4 DEF Load
<1>3. ASSUME NEW c \in Callers, NEW text \in Contents, Compare(c, text) PROVE Typed'
  <2>1. job[c].at = "loaded" /\ UNCHANGED made
    BY <1>3 DEF Compare
  <2>2. JobsTyped'
    BY <1>0, <1>3, <2>1, CompareJob DEF JobsTyped
  <2>3. RestTyped'
    BY <1>0, <1>3 DEF Compare, RestTyped
  <2> QED BY <1>q, <1>r, <1>3, <2>2, <2>3 DEF Compare
<1>4. ASSUME NEW c \in Callers, Write(c) PROVE Typed'
  <2> DEFINE j == job[c]
             new == Merged(row[j.post], j.copy, j.columns)
  <2>1. j \in Job /\ j.post \in made /\ made \subseteq Posts /\ row[j.post] \in Row /\ j.copy.content \in Contents
        /\ row[j.post].content \in Contents
    BY <1>0, <1>4 DEF Write, JobsTyped, RowsTyped
  <2>2. new \in Row /\ new.content \in Contents
    BY <2>1, MergedTyped DEF Job
  <2>3. /\ row' = [row EXCEPT ![j.post] = new] /\ new.owner \in accounts \cup {NoUser}
        /\ reviewed' = [reviewed EXCEPT ![j.post] = @ \cup (IF j.vouched /\ Standing(new) THEN {new.content} ELSE {})]
        /\ revived' \in {revived, revived \ {j.post}, revived \cup {j.post}}
        /\ Overlap({j.post}, {c}) /\ job' = [job EXCEPT ![c] = Idle]
        /\ UNCHANGED <<accounts, rejections, upheld, made, leaving, held, now, deeds>>
    BY <1>4 DEF Write, Refers
  <2> HIDE DEF new
  <2>4. RowsTyped'
    BY <1>o, <2>1, <2>2, <2>3
  <2>5. reviewed' \in [Posts -> SUBSET Contents] /\ revived' \subseteq Posts /\ overlapped' \subseteq Posts
    BY <1>0, <1>v, <2>1, <2>2, <2>3 DEF RestTyped
  <2>6. RestTyped'
    BY <1>0, <2>3, <2>5 DEF RestTyped
  <2> QED BY <1>q, <1>i, <2>3, <2>4, <2>6
<1>5. ASSUME NEW c \in Callers, Stop(c) PROVE Typed'
  <2>1. RestTyped'
    BY <1>0, <1>5 DEF Stop, RestTyped
  <2> QED BY <1>q, <1>r, <1>i, <1>5, <2>1 DEF Stop
<1>6. ASSUME NEW p \in Posts, Approve(p) PROVE Typed'
  <2>1. p \in made /\ row[p] \in Row /\ row[p].content \in Contents /\ row[p].owner \in accounts \cup {NoUser}
    BY <1>0, <1>6 DEF Approve, RowsTyped
  <2>2. /\ row' = [row EXCEPT ![p] = Approved(row[p])] /\ reviewed' = [reviewed EXCEPT ![p] = @ \cup {Base(row[p])}]
        /\ revived' \in {revived, revived \cup {p}} /\ Overlap({p}, {}) /\ Deed
        /\ UNCHANGED <<accounts, rejections, upheld, made, leaving, held, now, job>>
    BY <1>6, ModerationWrites DEF Approve
  <2>3. Approved(row[p]) \in Row /\ Approved(row[p]).owner = row[p].owner /\ Approved(row[p]).content = Base(row[p])
        /\ Base(row[p]) \in Contents
    BY <2>1, ApprovedTyped
  <2>4. RowsTyped'
    BY <1>o, <2>1, <2>2, <2>3
  <2>5. reviewed' \in [Posts -> SUBSET Contents] /\ revived' \subseteq Posts /\ overlapped' \subseteq Posts
    BY <1>0, <1>v, <2>2, <2>3 DEF RestTyped
  <2>6. RestTyped'
    BY <1>0, <1>d, <2>2, <2>5 DEF RestTyped
  <2> QED BY <1>q, <1>j, <2>2, <2>4, <2>6
<1>c. \A r \in Row : CountRejection(r) => rejections' \in [Users -> 0..MaxRejected]
  <2> SUFFICES ASSUME NEW r \in Row, CountRejection(r) PROVE rejections' \in [Users -> 0..MaxRejected]
    OBVIOUS
  <2>1. \A u \in Users : rejections[u] \in 0..MaxRejected
    BY <1>0 DEF RestTyped
  <2>2. \A u \in Users : rejections[u] < MaxRejected => rejections[u] + 1 \in 0..MaxRejected
    BY <2>1, NumbersAssumption
  <2> QED BY <2>1, <2>2 DEF CountRejection
<1>7. ASSUME NEW p \in Posts, Reject(p) PROVE Typed'
  <2>1. p \in made /\ row[p] \in Row /\ row[p].content \in Contents /\ row[p].owner \in accounts \cup {NoUser}
    BY <1>0, <1>7 DEF Reject, RowsTyped
  <2>2. /\ row' = [row EXCEPT ![p] = Rejected(row[p])] /\ Overlap({p}, {}) /\ Deed
        /\ UNCHANGED <<accounts, upheld, made, leaving, held, now, job, revived>>
    BY <1>7, ModerationWrites DEF Reject
  <2>3. /\ rejections' = rejections \/ CountRejection(row[p])
        /\ reviewed' \in {reviewed, [reviewed EXCEPT ![p] = {}]}
    BY <1>7 DEF Reject
  <2>4. RowsTyped'
    BY <1>o, <2>1, <2>2, RejectedTyped
  <2>5. reviewed' \in [Posts -> SUBSET Contents] /\ overlapped' \subseteq Posts /\ rejections' \in [Users -> 0..MaxRejected]
    BY <1>0, <1>c, <1>v, <2>1, <2>2, <2>3 DEF RestTyped
  <2>6. RestTyped'
    BY <1>0, <1>d, <2>2, <2>5 DEF RestTyped
  <2> QED BY <1>q, <1>j, <2>2, <2>4, <2>6
<1>8. ASSUME NEW p \in Posts, TakeDown(p) PROVE Typed'
  <2>1. p \in made /\ row[p] \in Row /\ row[p].content \in Contents /\ row[p].owner \in accounts \cup {NoUser}
    BY <1>0, <1>8 DEF TakeDown, RowsTyped
  <2>2. /\ row' = [row EXCEPT ![p] = TakenDown(row[p])] /\ Overlap({p}, {}) /\ Deed /\ CountRejection(row[p])
        /\ reviewed' = [reviewed EXCEPT ![p] = {}]
        /\ UNCHANGED <<accounts, upheld, made, leaving, held, now, job, revived>>
    BY <1>8 DEF TakeDown
  <2>3. RowsTyped'
    BY <1>o, <2>1, <2>2, TakenTyped
  <2>4. reviewed' \in [Posts -> SUBSET Contents] /\ overlapped' \subseteq Posts /\ rejections' \in [Users -> 0..MaxRejected]
    BY <1>0, <1>c, <1>v, <2>1, <2>2 DEF RestTyped
  <2>5. RestTyped'
    BY <1>0, <1>d, <2>2, <2>4 DEF RestTyped
  <2> QED BY <1>q, <1>j, <2>2, <2>3, <2>5
<1>9. ASSUME NEW u \in Users, Uphold(u) \/ StartDeletion(u) PROVE Typed'
  <2>1. ASSUME Uphold(u) PROVE RestTyped'
    BY <1>0, <2>1 DEF Uphold, RestTyped
  <2>2. ASSUME StartDeletion(u) PROVE RestTyped'
    BY <1>0, <1>d, <2>2, NullsAssumption DEF StartDeletion, RestTyped
  <2>3. RestTyped'
    BY <1>9, <2>1, <2>2
  <2> QED BY <1>q, <1>r, <1>j, <1>9, <2>3 DEF Uphold, StartDeletion
<1>10. CASE EndDeletion
  <2> DEFINE mine == {p \in made : row[p].owner = leaving}
  <2>1. /\ accounts' = accounts \ {leaving} /\ upheld' = upheld \ {leaving}
        /\ row' = [p \in Posts |-> IF p \in held THEN Orphaned(row[p])
                                   ELSE IF p \in mine THEN [row[p] EXCEPT !.owner = NoUser] ELSE row[p]]
        /\ Overlap(mine, {}) /\ leaving' = NoUser /\ held' = {}
        /\ UNCHANGED <<rejections, made, now, deeds, job, reviewed, revived>>
    BY <1>10 DEF EndDeletion
  <2>2. \A p \in Posts : /\ Orphaned(row[p]) \in Row /\ Orphaned(row[p]).owner = NoUser
                         /\ Orphaned(row[p]).content = row[p].content
    BY <1>0, OrphanedTyped DEF RowsTyped
  <2>3. \A p \in Posts : /\ [row[p] EXCEPT !.owner = NoUser] \in Row /\ [row[p] EXCEPT !.owner = NoUser].owner = NoUser
                         /\ [row[p] EXCEPT !.owner = NoUser].content = row[p].content
    BY <1>0 DEF RowsTyped, Row
  <2>4. \A p \in Posts : p \notin made => p \notin held /\ row[p].owner = NoUser
    BY <1>0 DEF RowsTyped, RestTyped, Blank
  <2>5. leaving \in Users /\ leaving # NoUser
    BY <1>0, <1>10 DEF EndDeletion, RestTyped, RowsTyped
  <2>6. \A p \in Posts : row'[p] \in Row /\ row'[p].owner \in accounts' \cup {NoUser} /\ row'[p].content = row[p].content
    BY <1>0, <2>1, <2>2, <2>3, <2>4, <2>5 DEF RowsTyped
  <2>7. \A p \in Posts \ made : row'[p] = row[p]
    BY <2>1, <2>4
  <2>8. RowsTyped'
    BY <1>0, <2>1, <2>6, <2>7 DEF RowsTyped
  <2>9. overlapped' \subseteq Posts
    BY <1>0, <1>v, <2>1 DEF RowsTyped
  <2>10. RestTyped'
    BY <1>0, <2>1, <2>9 DEF RestTyped
  <2> QED BY <1>q, <1>j, <2>1, <2>8, <2>10
<1>11. CASE AbortDeletion
  <2>1. RestTyped'
    BY <1>0, <1>11 DEF AbortDeletion, RestTyped
  <2> QED BY <1>q, <1>r, <1>j, <1>11, <2>1 DEF AbortDeletion
<1>12. CASE ExpireLapsed
  <2> DEFINE due == {p \in made : ~row[p].expired /\ ~row[p].deleted /\ ~row[p].draft /\ Shut(row[p])}
  <2>1. /\ row' = [p \in Posts |-> IF p \in due THEN [row[p] EXCEPT !.expired = TRUE] ELSE row[p]]
        /\ Overlap(due, {})
        /\ UNCHANGED <<accounts, rejections, upheld, made, leaving, held, now, deeds, job, reviewed, revived>>
    BY <1>12 DEF ExpireLapsed
  <2>2. \A p \in Posts : /\ [row[p] EXCEPT !.expired = TRUE] \in Row
                         /\ [row[p] EXCEPT !.expired = TRUE].owner = row[p].owner
                         /\ [row[p] EXCEPT !.expired = TRUE].content = row[p].content
    BY <1>0 DEF RowsTyped, Row
  <2>3. due \subseteq made
    OBVIOUS
  <2> HIDE DEF due
  <2>4. RowsTyped'
    BY <1>0, <2>1, <2>2, <2>3 DEF RowsTyped
  <2>5. overlapped' \subseteq Posts
    BY <1>0, <1>v, <2>1, <2>3 DEF RowsTyped
  <2>6. RestTyped'
    BY <1>0, <2>1, <2>5 DEF RestTyped
  <2> QED BY <1>q, <1>j, <2>1, <2>4, <2>6
<1>13. CASE Tick
  <2>1. JobsTyped'
    BY <1>0, <1>13, TickJob DEF Tick, JobsTyped, SameCall
  <2>2. RestTyped'
    BY <1>0, <1>13, NumbersAssumption DEF Tick, RestTyped
  <2> QED BY <1>q, <1>r, <1>13, <2>1, <2>2 DEF Tick
<1>14. CASE UNCHANGED vars
  BY <1>0, <1>14 DEF vars, Typed, TypeOK, Given
<1>15. ASSUME NEW c \in Callers, Called(c) PROVE Typed'
  BY <1>15, <1>2, <1>3, <1>4, <1>5 DEF Called
<1> QED BY Steps, <1>1, <1>6, <1>7, <1>8, <1>9, <1>10, <1>11, <1>12, <1>13, <1>14, <1>15

\* Every reachable state of the listings is well typed.
THEOREM TypeCorrect == Spec => []TypeOK
<1>1. Typed => TypeOK
  BY DEF Typed
<1> QED BY <1>1, InitTyped, TypeNext, PTL DEF Spec

LEMMA TypedHolds == Spec => []Typed
BY InitTyped, TypeNext, PTL DEF Spec

-----------------------------------------------------------------------------
(* Copies nobody overtook. *)

\* What a call knows as long as nothing changed its listing since it was loaded: its copy is the
\* row, and then what it will write; a text it puts up was vouched for, a parked edit lies beside
\* a published listing, and it takes a slot only through the quota, unless the window closed meanwhile.
Apt(c) ==
  LET j == job[c]
      r == row[j.post] IN
  j.at # "idle" /\ j.post \notin overlapped =>
    /\ j.at = "loaded" => j.copy = r
    /\ j.at = "compared" =>
         /\ j.columns = Differing(j.copy, r)
         /\ j.copy.owner = r.owner
         /\ Standing(j.copy) => j.vouched \/ j.copy.content \in reviewed[j.post]
         /\ j.copy.revision # NoContent => Standing(j.copy)
         /\ ~j.gated => Holds(r) \/ ~Holds(j.copy) \/ j.late

\* LiveIsReviewed and RevisionBesidePublished, whether the listing is live or not.
Sound(p) == /\ Standing(row[p]) => row[p].content \in reviewed[p]
            /\ row[p].revision # NoContent => Standing(row[p])

CopyInv == (\A c \in Callers : Apt(c)) /\ (\A p \in Undisturbed : Sound(p))

LEMMA MergedWhole ==
  ASSUME NEW r \in Row, NEW s \in Row
  PROVE  Merged(r, s, Differing(s, r)) = s
<1> DEFINE columns == Differing(s, r)
           pick(f) == IF f \in columns THEN s[f] ELSE r[f]
<1>1. \A f \in Column : pick(f) = s[f]
  BY DEF Differing
<1>2. Merged(r, s, columns) =
        [owner |-> pick("owner"), approval |-> pick("approval"), draft |-> pick("draft"),
         deleted |-> pick("deleted"), expired |-> pick("expired"), expires |-> pick("expires"),
         content |-> pick("content"), revision |-> pick("revision")]
  BY DEF Merged
<1> HIDE DEF columns, pick
<1>3. Merged(r, s, columns) =
        [owner |-> s.owner, approval |-> s.approval, draft |-> s.draft, deleted |-> s.deleted,
         expired |-> s.expired, expires |-> s.expires, content |-> s.content, revision |-> s.revision]
  BY <1>1, <1>2 DEF Column
<1>4. s = [owner |-> s.owner, approval |-> s.approval, draft |-> s.draft, deleted |-> s.deleted,
           expired |-> s.expired, expires |-> s.expires, content |-> s.content, revision |-> s.revision]
  BY DEF Row
<1> QED BY <1>3, <1>4 DEF columns

\* A call's change of a current copy.
LEMMA ChangedSound ==
  ASSUME Typed, NEW r \in Row, NEW text \in Contents, NEW op \in Op, Admits(op, r), ~r.deleted,
         r.revision # NoContent => Standing(r)
  PROVE  LET new == Changed(op, r, text) IN
         /\ Standing(new) => Standing(r) /\ (new.content = r.content \/ Proven(r.owner))
         /\ new.revision # NoContent => Standing(new)
         /\ ~Gated(op, r, text) => Holds(r) \/ ~Holds(new)
<1> DEFINE Goal(new) == /\ Standing(new) => Standing(r) /\ (new.content = r.content \/ Proven(r.owner))
                        /\ new.revision # NoContent => Standing(new)
                        /\ ~Gated(op, r, text) => Holds(r) \/ ~Holds(new)
<1>0. /\ Reopened(r) \in Row /\ Reopened(r).approval = r.approval /\ Reopened(r).draft = r.draft
      /\ Reopened(r).deleted = r.deleted /\ Reopened(r).content = r.content /\ Reopened(r).revision = r.revision
  BY ReopenedTyped DEF Column
<1>1. CASE op = "submit"
  <2>1. r.draft /\ r.revision = NoContent
    BY <1>1 DEF Admits, Standing
  <2>2. Submitted(r).approval = "PENDING" /\ Submitted(r).revision = r.revision
    BY <1>0 DEF Submitted, Row
  <2>3. Changed(op, r, text) = Submitted(r) /\ Gated(op, r, text)
    BY <1>1 DEF Changed, Gated
  <2> QED BY <2>1, <2>2, <2>3 DEF Standing
<1>2. CASE op = "renew"
  <2>1. Standing(r)
    BY <1>2 DEF Admits
  <2>2. Changed(op, r, text) = Reopened(r) /\ (Gated(op, r, text) <=> Lapsed(r))
    BY <1>2 DEF Changed, Gated
  <2>3. ~Lapsed(r) => Holds(r)
    BY <2>1 DEF Lapsed, Holds, Standing
  <2> QED BY <1>0, <2>1, <2>2, <2>3 DEF Standing
<1>3. CASE op = "remove"
  <2>1. /\ Removed(r).approval = r.approval /\ Removed(r).draft = r.draft /\ Removed(r).content = r.content
        /\ Removed(r).deleted /\ Removed(r).revision = NoContent
    BY DEF Removed, Row
  <2>2. Changed(op, r, text) = Removed(r)
    BY <1>3 DEF Changed
  <2> QED BY <2>1, <2>2 DEF Standing, Holds
<1>4. CASE op = "edit" /\ Standing(r)
  <2>1. Changed(op, r, text) = Parked(r, text)
    BY <1>4 DEF Changed, Edited
  <2>2. /\ Parked(r, text) \in Row
        /\ \A f \in Column \ {"content", "revision"} : Parked(r, text)[f] = r[f]
        /\ Parked(r, text).content = r.content \/ Proven(r.owner)
    BY DEF Parked, Row, Column
  <2>3. Standing(Parked(r, text)) /\ (Holds(Parked(r, text)) <=> Holds(r))
    BY <1>4, <2>2 DEF Standing, Holds, Shut, Column
  <2> QED BY <1>4, <2>1, <2>2, <2>3
<1>5. CASE op = "edit" /\ ~Standing(r)
  <2> DEFINE queued == IF text # Base(r) /\ ~r.draft THEN "PENDING" ELSE r.approval
             edited == [r EXCEPT !.content = text, !.approval = queued]
  <2>1. /\ edited \in Row /\ edited.content = text /\ edited.approval = queued
        /\ \A f \in Column \ {"content", "approval"} : edited[f] = r[f]
    BY DEF Row, Column
  <2>2. /\ Reopened(edited) \in Row
        /\ \A f \in Column \ {"expires", "expired"} : Reopened(edited)[f] = edited[f]
    BY <2>1, ReopenedTyped
  <2>3. Changed(op, r, text) = (IF Resubmits(r, text) /\ Lapsed(r) THEN Reopened(edited) ELSE edited)
    BY <1>5 DEF Changed, Edited, Rewritten
  <2>4. Gated(op, r, text) <=> Resubmits(r, text)
    BY <1>5 DEF Gated
  <2>5. queued \in {"PENDING", r.approval}
    OBVIOUS
  <2>6. \A s \in {edited, Reopened(edited)} : ~Standing(s) /\ s.revision = NoContent
    BY <1>5, <2>1, <2>2, <2>5 DEF Standing, Column
  <2>7. ~Resubmits(r, text) => Holds(r) \/ ~Holds(edited)
    BY <2>1 DEF Resubmits, Holds, Shut, Column
  <2> HIDE DEF edited, queued
  <2> QED BY <2>3, <2>4, <2>6, <2>7
<1> QED BY <1>1, <1>2, <1>3, <1>4, <1>5 DEF Op

\* The rows a deletion holds stay its account's.
HeldRows == \A p \in held : row[p].owner = leaving

LEMMA HeldNext == Typed /\ HeldRows /\ [Next]_vars => HeldRows'
<1> SUFFICES ASSUME Typed, HeldRows, [Next]_vars PROVE HeldRows'
  OBVIOUS
<1>0. held \subseteq made /\ made \subseteq Posts /\ row \in [Posts -> Row]
  BY DEF Typed, TypeOK
<1>o. ASSUME NEW p, p \notin held, NEW new, row' = [row EXCEPT ![p] = new], UNCHANGED <<held, leaving>> PROVE HeldRows'
  BY <1>0, <1>o DEF HeldRows
<1>s. ASSUME UNCHANGED <<row, held, leaving>> PROVE HeldRows'
  BY <1>s DEF HeldRows
<1>1. ASSUME NEW u \in Users, NEW p \in Posts, NEW draft \in BOOLEAN, NEW text \in Contents, Create(u, p, draft, text)
      PROVE  HeldRows'
  BY <1>0, <1>1, <1>o DEF Create
<1>2. ASSUME NEW c \in Callers, Called(c) PROVE HeldRows'
  <2>1. CASE Write(c)
    BY <1>o, <2>1 DEF Write
  <2>2. CASE Stop(c) \/ (\E text \in Contents : Compare(c, text)) \/ (\E p \in Posts, op \in Op : Load(c, p, op))
    BY <1>s, <2>2 DEF Stop, Compare, Load
  <2> QED BY <1>2, <2>1, <2>2 DEF Called
<1>3. ASSUME NEW p \in Posts, Approve(p) \/ Reject(p) \/ TakeDown(p) PROVE HeldRows'
  <2>1. p \notin held /\ UNCHANGED <<held, leaving>>
    BY <1>3 DEF Approve, Reject, TakeDown
  <2>2. \E new : row' = [row EXCEPT ![p] = new]
    BY <1>3, ModerationWrites DEF TakeDown
  <2> QED BY <1>o, <2>1, <2>2
<1>4. ASSUME NEW u \in Users, Uphold(u) \/ StartDeletion(u) PROVE HeldRows'
  BY <1>4 DEF Uphold, StartDeletion, HeldRows
<1>5. CASE EndDeletion \/ AbortDeletion
  BY <1>5 DEF EndDeletion, AbortDeletion, HeldRows
<1>6. CASE ExpireLapsed
  BY <1>0, <1>6 DEF ExpireLapsed, HeldRows
<1>7. CASE Tick \/ UNCHANGED vars
  BY <1>s, <1>7 DEF Tick, vars
<1> QED BY Steps, <1>1, <1>2, <1>3, <1>4, <1>5, <1>6, <1>7

\* A call that holds a copy of what others change is overtaken.
LEMMA Overtaken ==
  ASSUME NEW P, NEW mine, Overlap(P, mine)
  PROVE  /\ overlapped \subseteq overlapped'
         /\ \A c \in Callers \ mine : job[c].at # "idle" /\ job[c].post \notin overlapped' => job[c].post \notin P
BY DEF Overlap

Alone(c) == job[c].at # "idle" /\ job[c].post \notin overlapped' =>
              row'[job[c].post] = row[job[c].post] /\ reviewed'[job[c].post] = reviewed[job[c].post]

\* What a step means to a call: the call takes a step, ends, or is left alone while it is current.
LEMMA Calls ==
  ASSUME Typed, HeldRows, [Next]_vars
  PROVE  /\ overlapped \subseteq overlapped'
         /\ \A c \in Callers :
              \/ job'[c].at = "idle"
              \/ \E p \in Posts, op \in Op : Load(c, p, op)
              \/ \E text \in Contents : Compare(c, text)
              \/ Tick
              \/ job'[c] = job[c] /\ now' = now /\ Alone(c)
<1> DEFINE Left(c) == job'[c] = job[c] /\ now' = now /\ Alone(c)
           Goal == /\ overlapped \subseteq overlapped'
                   /\ \A c \in Callers :
                        \/ job'[c].at = "idle"
                        \/ \E p \in Posts, op \in Op : Load(c, p, op)
                        \/ \E text \in Contents : Compare(c, text)
                        \/ Tick
                        \/ Left(c)
<1>0. /\ held \subseteq made /\ made \subseteq Posts /\ row \in [Posts -> Row] /\ job \in [Callers -> Job]
      /\ reviewed \in [Posts -> SUBSET Contents]
      /\ \A c \in Callers : job[c].at # "idle" => job[c].post \in made
  BY DEF Typed, TypeOK, Given
<1>p. ASSUME NEW P, Overlap(P, {}), UNCHANGED <<job, now>>,
             \A q \in made \ P : row'[q] = row[q] /\ reviewed'[q] = reviewed[q]
      PROVE  Goal
  <2>1. overlapped \subseteq overlapped'
    BY <1>p, Overtaken
  <2>2. \A c \in Callers : job[c].at # "idle" /\ job[c].post \notin overlapped' => job[c].post \notin P
    BY <1>p, Overtaken
  <2>3. \A c \in Callers : Alone(c)
    BY <1>0, <1>p, <2>2 DEF Alone
  <2> QED BY <1>p, <2>1, <2>3
<1>s. ASSUME UNCHANGED <<row, reviewed, now, overlapped>>, NEW c \in Callers,
             \A d \in Callers \ {c} : job'[d] = job[d],
             \/ job'[c].at = "idle" \/ job'[c] = job[c]
             \/ \E p \in Posts, op \in Op : Load(c, p, op)
             \/ \E text \in Contents : Compare(c, text)
      PROVE  Goal
  <2>1. overlapped \subseteq overlapped'
    BY <1>s
  <2>2. \A d \in Callers : Alone(d)
    BY <1>s DEF Alone
  <2>3. \A d \in Callers \ {c} : Left(d)
    BY <1>s, <2>2
  <2>4. \/ job'[c].at = "idle" \/ Left(c)
        \/ \E p \in Posts, op \in Op : Load(c, p, op)
        \/ \E text \in Contents : Compare(c, text)
    BY <1>s, <2>2
  <2> HIDE DEF Left
  <2> QED BY <2>1, <2>3, <2>4
<1>u. ASSUME UNCHANGED <<row, reviewed, now, overlapped, job>> PROVE Goal
  BY <1>u DEF Alone
<1>1. ASSUME NEW u \in Users, NEW p \in Posts, NEW draft \in BOOLEAN, NEW text \in Contents, Create(u, p, draft, text)
      PROVE  Goal
  <2>1. p \notin made /\ UNCHANGED <<reviewed, now, overlapped, job>> /\ \A q \in Posts \ {p} : row'[q] = row[q]
    BY <1>0, <1>1 DEF Create
  <2> QED BY <1>0, <2>1 DEF Alone
<1>2. ASSUME NEW c \in Callers, NEW p \in Posts, NEW op \in Op, Load(c, p, op) PROVE Goal
  <2>1. /\ UNCHANGED <<row, reviewed, now, overlapped>> /\ \A d \in Callers \ {c} : job'[d] = job[d]
    BY <1>0, <1>2 DEF Load
  <2> HIDE DEF Goal
  <2> QED BY <1>2, <1>s, <2>1
<1>3. ASSUME NEW c \in Callers, NEW text \in Contents, Compare(c, text) PROVE Goal
  <2>1. /\ UNCHANGED <<row, reviewed, now, overlapped>> /\ \A d \in Callers \ {c} : job'[d] = job[d]
    BY <1>0, <1>3 DEF Compare
  <2> HIDE DEF Goal
  <2> QED BY <1>3, <1>s, <2>1
<1>4. ASSUME NEW c \in Callers, Write(c) PROVE Goal
  <2> DEFINE p == job[c].post
  <2>1. /\ Overlap({p}, {c}) /\ job' = [job EXCEPT ![c] = Idle] /\ now' = now
        /\ \A q \in Posts \ {p} : row'[q] = row[q] /\ reviewed'[q] = reviewed[q]
    BY <1>0, <1>4 DEF Write
  <2>2. overlapped \subseteq overlapped'
    BY <2>1, Overtaken
  <2>3. \A d \in Callers \ {c} : job[d].at # "idle" /\ job[d].post \notin overlapped' => job[d].post # p
    BY <2>1, Overtaken
  <2>4. job'[c].at = "idle" /\ \A d \in Callers \ {c} : job'[d] = job[d]
    BY <1>0, <2>1, BlankTyped
  <2>5. \A d \in Callers \ {c} : Alone(d)
    BY <1>0, <2>1, <2>3 DEF Alone
  <2> QED BY <2>1, <2>2, <2>4, <2>5
<1>5. ASSUME NEW c \in Callers, Stop(c) PROVE Goal
  <2>1. UNCHANGED <<row, reviewed, now, overlapped>> /\ job'[c].at = "idle" /\ \A d \in Callers \ {c} : job'[d] = job[d]
    BY <1>0, <1>5, BlankTyped DEF Stop
  <2> QED BY <1>s, <2>1
<1>6. ASSUME NEW p \in Posts, Approve(p) \/ Reject(p) \/ TakeDown(p) PROVE Goal
  <2>1. Overlap({p}, {}) /\ UNCHANGED <<job, now>>
    BY <1>6 DEF Approve, Reject, TakeDown
  <2>2. \A q \in Posts \ {p} : row'[q] = row[q]
    BY <1>0, <1>6, ModerationWrites DEF TakeDown
  <2>3. \A q \in Posts \ {p} : reviewed'[q] = reviewed[q]
    BY <1>0, <1>6 DEF Approve, Reject, TakeDown
  <2> QED BY <1>0, <1>p, <2>1, <2>2, <2>3
<1>7. ASSUME NEW u \in Users, Uphold(u) \/ StartDeletion(u) PROVE Goal
  BY <1>7, <1>u DEF Uphold, StartDeletion
<1>8. ASSUME EndDeletion PROVE Goal
  <2> DEFINE mine == {p \in made : row[p].owner = leaving}
  <2>1. held \subseteq mine
    BY <1>0 DEF HeldRows
  <2>2. /\ Overlap(mine, {}) /\ UNCHANGED <<job, now, reviewed>>
        /\ row' = [p \in Posts |-> IF p \in held THEN Orphaned(row[p])
                                   ELSE IF p \in mine THEN [row[p] EXCEPT !.owner = NoUser] ELSE row[p]]
    BY <1>8 DEF EndDeletion
  <2>3. \A q \in made \ mine : row'[q] = row[q]
    BY <1>0, <2>1, <2>2
  <2> HIDE DEF mine
  <2> QED BY <1>p, <2>2, <2>3
<1>9. ASSUME ExpireLapsed PROVE Goal
  <2> DEFINE due == {p \in made : ~row[p].expired /\ ~row[p].deleted /\ ~row[p].draft /\ Shut(row[p])}
  <2>1. /\ Overlap(due, {}) /\ UNCHANGED <<job, now, reviewed>>
        /\ row' = [p \in Posts |-> IF p \in due THEN [row[p] EXCEPT !.expired = TRUE] ELSE row[p]]
    BY <1>9 DEF ExpireLapsed
  <2> HIDE DEF due
  <2> QED BY <1>0, <1>p, <2>1
<1>10. ASSUME AbortDeletion \/ UNCHANGED vars PROVE Goal
  BY <1>10, <1>u DEF AbortDeletion, vars
<1>11. ASSUME Tick PROVE Goal
  BY <1>11 DEF Tick
<1>12. ASSUME NEW c \in Callers, Called(c) PROVE Goal
  <2>1. \/ \E p \in Posts, op \in Op : Load(c, p, op)
        \/ \E text \in Contents : Compare(c, text)
        \/ Write(c) \/ Stop(c)
    BY <1>12 DEF Called
  <2>2. CASE \E p \in Posts, op \in Op : Load(c, p, op)
    <3>1. PICK p \in Posts, op \in Op : Load(c, p, op)
      BY <2>2
    <3> QED BY <3>1, <1>2
  <2>3. CASE \E text \in Contents : Compare(c, text)
    <3>1. PICK text \in Contents : Compare(c, text)
      BY <2>3
    <3> QED BY <3>1, <1>3
  <2> HIDE DEF Goal
  <2> QED BY <2>1, <2>2, <2>3, <1>4, <1>5
<1>13. Goal
  <2> HIDE DEF Goal
  <2> QED BY Steps, <1>1, <1>6, <1>7, <1>8, <1>9, <1>10, <1>11, <1>12
<1> QED BY <1>13

\* A current copy stays current, and says what the row will.
LEMMA AptNext ==
  ASSUME Typed, HeldRows, CopyInv, [Next]_vars
  PROVE  \A c \in Callers : Apt(c)'
<1> SUFFICES ASSUME NEW c \in Callers, job'[c].at # "idle", job'[c].post \notin overlapped' PROVE Apt(c)'
  BY DEF Apt
<1>0. /\ made \subseteq Posts /\ row \in [Posts -> Row] /\ job \in [Callers -> Job] /\ now \in Nat
      /\ overlapped \subseteq overlapped' /\ Apt(c)
      /\ job[c].at # "idle" => job[c].post \in made
  BY Calls, Windows DEF Typed, TypeOK, Given, CopyInv
<1>1. ASSUME NEW p \in Posts, NEW op \in Op, Load(c, p, op) PROVE Apt(c)'
  <2>1. job'[c].at = "loaded" /\ job'[c].post = p /\ job'[c].copy = row[p] /\ row' = row
    BY <1>0, <1>1 DEF Load, Idle
  <2> QED BY <2>1 DEF Apt
<1>2. ASSUME NEW text \in Contents, Compare(c, text) PROVE Apt(c)'
  <2> DEFINE p == job[c].post
             r == row[p]
             op == job[c].op
             new == Changed(op, r, text)
  <2>1. p \in made /\ p \in Posts /\ r \in Row /\ op \in Op /\ job[c].at = "loaded" /\ p \notin overlapped
    BY <1>0, <1>2 DEF Compare, Typed, Given
  <2>2. job[c].copy = r /\ Admits(op, r) /\ ~r.deleted /\ r.content \in Contents /\ Sound(p)
    BY <1>0, <2>1 DEF Apt, Typed, Given, CopyInv, Undisturbed
  <2>3. /\ job'[c].at = "compared" /\ job'[c].post = p /\ job'[c].copy = new
        /\ job'[c].columns = Differing(new, r) /\ job'[c].gated = Gated(op, r, text)
        /\ job'[c].vouched = (rejections[r.owner] = 0 /\ r.owner \notin upheld)
        /\ row' = row /\ reviewed' = reviewed /\ now' = now
    <3>1. UNCHANGED <<row, reviewed, now>>
      BY <1>2 DEF Compare
    <3> QED BY <1>2, <2>2, <3>1, CompareJob
  <2>4. /\ Standing(new) => Standing(r) /\ (new.content = r.content \/ Proven(r.owner))
        /\ new.revision # NoContent => Standing(new)
        /\ ~Gated(op, r, text) => Holds(r) \/ ~Holds(new)
    BY <2>1, <2>2, ChangedSound DEF Sound
  <2>5. new.owner = r.owner
    BY <2>1, <2>2, ChangedTyped
  <2>6. Standing(new) => job'[c].vouched \/ new.content \in reviewed[p]
    BY <2>2, <2>3, <2>4 DEF Sound, Proven
  <2>7. \A s \in {r, new} : Holds(s)' <=> Holds(s)
    BY <2>3 DEF Holds, Shut
  <2> HIDE DEF new, r, p, op
  <2> QED BY <2>3, <2>4, <2>5, <2>6, <2>7 DEF Apt, Differing, Standing, p, r
<1>3. ASSUME Tick PROVE Apt(c)'
  <2> DEFINE p == job[c].post
             r == row[p]
             copy == job[c].copy
  <2>1. /\ SameCall(c) /\ (job[c].late \/ Closing(c) => job'[c].late)
        /\ now' = now + 1 /\ UNCHANGED <<row, reviewed, overlapped>>
    BY <1>3, TickJob DEF Tick
  <2>2. /\ p \in made /\ r \in Row /\ copy \in Row /\ p \notin overlapped
        /\ p' = p /\ r' = r /\ copy' = copy /\ reviewed'[p'] = reviewed[p]
    BY <1>0, <2>1 DEF SameCall, Job
  <2>3. /\ job[c].at = "loaded" => copy = r
        /\ job[c].at = "compared" =>
             /\ job[c].columns = Differing(copy, r) /\ copy.owner = r.owner
             /\ Standing(copy) => job[c].vouched \/ copy.content \in reviewed[p]
             /\ copy.revision # NoContent => Standing(copy)
             /\ ~job[c].gated => Holds(r) \/ ~Holds(copy) \/ job[c].late
             /\ ~job[c].gated /\ r.expires = now + 1 => Closing(c)
    BY <1>0, <2>1, <2>2 DEF Apt, SameCall, Closing
  <2> HIDE DEF p, r, copy
  <2>4. /\ Holds(r) /\ r.expires # now + 1 => Holds(r)'
        /\ Holds(copy)' => Holds(copy)
    BY <1>0, <2>1, <2>2 DEF Holds, Shut, Row
  <2>5. /\ Standing(copy)' <=> Standing(copy)
        /\ Differing(copy, r)' = Differing(copy, r)
    BY <2>2 DEF Standing, Differing
  <2>6. job'[c].at = "compared" =>
          /\ job'[c].columns = Differing(copy, r)' /\ copy'.owner = r'.owner
          /\ Standing(copy)' => job'[c].vouched \/ copy'.content \in reviewed'[p']
          /\ copy'.revision # NoContent => Standing(copy)'
          /\ ~job'[c].gated => Holds(r)' \/ ~Holds(copy)' \/ job'[c].late
    BY <2>1, <2>2, <2>3, <2>4, <2>5 DEF SameCall
  <2>7. job'[c].at = "loaded" => copy' = r'
    BY <2>1, <2>2, <2>3 DEF SameCall
  <2> QED BY <2>6, <2>7 DEF Apt, p, r, copy
<1>4. ASSUME job'[c] = job[c], now' = now, Alone(c) PROVE Apt(c)'
  <2>1. row'[job[c].post] = row[job[c].post] /\ reviewed'[job[c].post] = reviewed[job[c].post]
    BY <1>4 DEF Alone
  <2> QED BY <1>0, <1>4, <2>1 DEF Apt, Differing, Standing, Holds, Shut
<1> QED BY Calls, <1>1, <1>2, <1>3, <1>4

\* A listing nobody saved an old copy of stays sound: a save writes a current copy.
LEMMA SoundNext ==
  ASSUME Typed, CopyInv, [Next]_vars, \A c \in Callers : Apt(c)', overlapped \subseteq overlapped'
  PROVE  \A p \in Undisturbed' : Sound(p)'
<1> SUFFICES ASSUME NEW p \in made', p \notin overlapped' PROVE Sound(p)'
  BY DEF Undisturbed
<1>0. /\ made \subseteq Posts /\ held \subseteq made /\ row \in [Posts -> Row] /\ reviewed \in [Posts -> SUBSET Contents]
      /\ job \in [Callers -> Job] /\ (p \in made => Sound(p))
  BY DEF Typed, TypeOK, CopyInv, Undisturbed
<1>k. ASSUME p \in made, \A f \in {"approval", "draft", "content", "revision"} : row'[p][f] = row[p][f],
             reviewed[p] \subseteq reviewed'[p]
      PROVE  Sound(p)'
  BY <1>0, <1>k DEF Sound, Standing
<1>s. ASSUME p \in made, row'[p] = row[p], reviewed'[p] = reviewed[p] PROVE Sound(p)'
  BY <1>k, <1>s
<1>u. ASSUME made' = made, row' = row, reviewed' = reviewed PROVE Sound(p)'
  BY <1>s, <1>u
<1>1. ASSUME NEW u \in Users, NEW q \in Posts, NEW draft \in BOOLEAN, NEW text \in Contents, Create(u, q, draft, text)
      PROVE  Sound(p)'
  <2> DEFINE new == [Blank EXCEPT !.owner = u, !.draft = draft, !.content = text,
                                  !.expires = IF draft THEN 0 ELSE now + Window]
  <2>1. row' = [row EXCEPT ![q] = new] /\ made' = made \cup {q} /\ reviewed' = reviewed /\ q \notin made
    BY <1>1 DEF Create
  <2>2. new.approval = "PENDING" /\ new.revision = NoContent
    BY DEF Blank
  <2> HIDE DEF new
  <2>3. CASE p = q
    BY <1>0, <2>1, <2>2, <2>3 DEF Sound, Standing
  <2>4. CASE p # q
    BY <1>0, <1>s, <2>1, <2>4
  <2> QED BY <2>3, <2>4
<1>2. ASSUME NEW c \in Callers, Write(c) PROVE Sound(p)'
  <2> DEFINE q == job[c].post
             copy == job[c].copy
  <2>1. /\ job[c].at = "compared" /\ made' = made /\ copy \in Row
        /\ row' = [row EXCEPT ![q] = Merged(row[q], copy, job[c].columns)]
        /\ reviewed' = [reviewed EXCEPT ![q] = @ \cup (IF job[c].vouched /\ Standing(Merged(row[q], copy, job[c].columns))
                                                        THEN {Merged(row[q], copy, job[c].columns).content} ELSE {})]
    BY <1>0, <1>2 DEF Write, Job
  <2>2. CASE p # q
    BY <1>0, <1>s, <2>1, <2>2
  <2>3. CASE p = q
    <3>1. /\ job[c].columns = Differing(copy, row[p])
          /\ Standing(copy) => job[c].vouched \/ copy.content \in reviewed[p]
          /\ copy.revision # NoContent => Standing(copy)
      BY <2>1, <2>3 DEF CopyInv, Apt
    <3>2. Merged(row[p], copy, job[c].columns) = copy
      BY <1>0, <2>1, <3>1, MergedWhole
    <3>3. row'[p] = copy /\ reviewed'[p] = reviewed[p] \cup (IF job[c].vouched /\ Standing(copy) THEN {copy.content} ELSE {})
      BY <1>0, <2>1, <2>3, <3>2
    <3> QED BY <3>1, <3>3 DEF Sound, Standing
  <2> QED BY <2>2, <2>3
<1>3. ASSUME NEW c \in Callers, Called(c) PROVE Sound(p)'
  <2>1. Write(c) \/ UNCHANGED <<made, row, reviewed>>
    BY <1>3 DEF Called, Load, Compare, Stop
  <2> QED BY <1>2, <1>u, <2>1
<1>4. ASSUME NEW q \in Posts, Approve(q) \/ Reject(q) \/ TakeDown(q) PROVE Sound(p)'
  <2>1. made' = made /\ q \in made
    BY <1>4 DEF Approve, Reject, TakeDown
  <2>2. \A o \in Posts \ {q} : row'[o] = row[o] /\ reviewed'[o] = reviewed[o]
    BY <1>0, <1>4, ModerationWrites DEF Approve, Reject, TakeDown
  <2>3. CASE p # q
    BY <1>0, <1>s, <2>1, <2>2, <2>3
  <2>4. CASE p = q /\ Approve(q)
    <3>1. row'[p] = Approved(row[p]) /\ Base(row[p]) \in reviewed'[p]
      BY <1>0, <2>4, ModerationWrites
    <3>2. Approved(row[p]).content = Base(row[p]) /\ Approved(row[p]).revision = NoContent
      BY <1>0, <2>1, <2>4, ApprovedTyped DEF Typed, Given
    <3> QED BY <3>1, <3>2 DEF Sound
  <2>5. CASE p = q /\ Reject(q) /\ row[q].revision # NoContent
    <3>1. row'[p] = [row[p] EXCEPT !.revision = NoContent] /\ reviewed' = reviewed
      BY <1>0, <2>5 DEF Reject
    <3> QED BY <1>0, <2>1, <2>5, <3>1 DEF Sound, Standing, Row
  <2>6. CASE p = q /\ (TakeDown(q) \/ (Reject(q) /\ row[q].revision = NoContent))
    <3>1. row'[p].approval = "REJECTED" /\ row'[p].revision = NoContent
      BY <1>0, <2>6, TakenTyped DEF Reject, TakeDown, Row
    <3> QED BY <3>1 DEF Sound, Standing
  <2> QED BY <1>4, <2>3, <2>4, <2>5, <2>6
<1>5. ASSUME NEW u \in Users, Uphold(u) \/ StartDeletion(u) PROVE Sound(p)'
  BY <1>5, <1>u DEF Uphold, StartDeletion
<1>6. CASE EndDeletion
  <2>1. made' = made /\ reviewed' = reviewed /\ row'[p] \in {Orphaned(row[p]), [row[p] EXCEPT !.owner = NoUser], row[p]}
    BY <1>0, <1>6 DEF EndDeletion
  <2>2. p \in made /\ row[p] \in Row
    BY <1>0, <2>1
  <2>3. \A f \in {"approval", "draft", "content", "revision"} : [row[p] EXCEPT !.owner = NoUser][f] = row[p][f]
    BY <2>2 DEF Row
  <2>4. \A f \in {"approval", "draft", "content", "revision"} : Orphaned(row[p])[f] = row[p][f]
    BY <2>2, OrphanedTyped
  <2> DEFINE orphan == Orphaned(row[p])
             ownerless == [row[p] EXCEPT !.owner = NoUser]
  <2> HIDE DEF orphan, ownerless
  <2>5. \A f \in {"approval", "draft", "content", "revision"} : row'[p][f] = row[p][f]
    <3>1. row'[p] \in {orphan, ownerless, row[p]}
      BY <2>1 DEF orphan, ownerless
    <3>2. \A f \in {"approval", "draft", "content", "revision"} : orphan[f] = row[p][f] /\ ownerless[f] = row[p][f]
      BY <2>3, <2>4 DEF orphan, ownerless
    <3> QED BY <3>1, <3>2
  <2> QED BY <1>k, <2>1, <2>2, <2>5
<1>7. CASE ExpireLapsed
  <2>1. made' = made /\ reviewed' = reviewed /\ row'[p] \in {[row[p] EXCEPT !.expired = TRUE], row[p]}
    BY <1>0, <1>7 DEF ExpireLapsed
  <2>2. p \in made /\ row[p] \in Row
    BY <1>0, <2>1
  <2>3. \A f \in {"approval", "draft", "content", "revision"} : [row[p] EXCEPT !.expired = TRUE][f] = row[p][f]
    BY <2>2 DEF Row
  <2>4. \A f \in {"approval", "draft", "content", "revision"} : row'[p][f] = row[p][f]
    <3> DEFINE lapsed == [row[p] EXCEPT !.expired = TRUE]
    <3>1. row'[p] \in {lapsed, row[p]} /\ \A f \in {"approval", "draft", "content", "revision"} : lapsed[f] = row[p][f]
      BY <2>1, <2>3
    <3> HIDE DEF lapsed
    <3> QED BY <3>1
  <2> QED BY <1>k, <2>1, <2>2, <2>4
<1>8. CASE AbortDeletion \/ Tick \/ UNCHANGED vars
  BY <1>8, <1>u DEF AbortDeletion, Tick, vars
<1> QED BY Steps, <1>1, <1>3, <1>4, <1>5, <1>6, <1>7, <1>8

CopiesInv == Typed /\ HeldRows /\ CopyInv

LEMMA CopiesHold == Spec => []CopiesInv
<1>1. Init => CopiesInv
  <2> SUFFICES ASSUME Init PROVE CopiesInv
    OBVIOUS
  <2>1. HeldRows /\ CopyInv
    BY BlankTyped DEF Init, HeldRows, CopyInv, Apt, Undisturbed
  <2> QED BY <2>1, InitTyped DEF CopiesInv
<1>2. CopiesInv /\ [Next]_vars => CopiesInv'
  BY TypeNext, HeldNext, AptNext, SoundNext, Calls DEF CopiesInv, CopyInv
<1> QED BY <1>1, <1>2, PTL DEF Spec

\* What may be seen was approved, or vouched for, as long as nobody saved an old copy.
THEOREM LiveIsReviewedHolds == Spec => []LiveIsReviewed
<1>1. CopiesInv => LiveIsReviewed
  BY DEF CopiesInv, CopyInv, LiveIsReviewed, Live, Sound
<1> QED BY <1>1, CopiesHold, PTL

\* A parked edit lies beside a published listing, with the same proviso.
THEOREM RevisionBesidePublishedHolds == Spec => []RevisionBesidePublished
<1>1. CopiesInv => RevisionBesidePublished
  BY DEF CopiesInv, CopyInv, RevisionBesidePublished, Standing, Sound
<1> QED BY <1>1, CopiesHold, PTL

-----------------------------------------------------------------------------
(* The quota. *)

Counted(u) == (Slots(u) \cap Undisturbed) \ revived

\* The calls that hold their owner's users row: one for each owner, and it found a free slot.
Locks(c) == job[c].at = "compared" /\ job[c].gated
OneLock == \A c, d \in Callers : Locks(c) /\ Locks(d) /\ job[c].copy.owner = job[d].copy.owner => c = d
Room == \A u \in Users : Locked(u) => Cardinality(Counted(u)) < Limit
QuotaInv == IsFiniteSet(made) /\ OneLock /\ Room /\ WithinQuota

\* A listing takes a slot of u: in create, which found one free and nobody holding the row, or in
\* the save of the call that holds it.
Created(u) == ~Locked(u) /\ UnderQuota(u) /\ UNCHANGED job
Saved(u) == \E c \in Callers : Locks(c) /\ job[c].copy.owner = u /\ job' = [job EXCEPT ![c] = Idle]
Filled(u) == (Created(u) \/ Saved(u)) /\ \E p \in Posts : Counted(u)' \subseteq Counted(u) \cup {p}

LEMMA CountedIs ==
  ASSUME NEW u, NEW p
  PROVE  p \in Counted(u) <=> p \in made /\ p \notin overlapped /\ p \notin revived /\ row[p].owner = u /\ Holds(row[p])
BY DEF Counted, Slots, Undisturbed

\* A step counts a listing anew only if its owner's quota was asked.
LEMMA SlotsNext ==
  ASSUME CopiesInv, [Next]_vars, NEW u \in Users
  PROVE  Counted(u)' \subseteq Counted(u) \/ Filled(u)
<1> DEFINE Goal == Counted(u)' \subseteq Counted(u) \/ Filled(u)
<1>0. /\ made \subseteq Posts /\ held \subseteq made /\ row \in [Posts -> Row] /\ job \in [Callers -> Job]
      /\ overlapped \subseteq overlapped' /\ NoUser \notin Users /\ now \in Nat
  BY Calls, Windows, NullsAssumption DEF CopiesInv, Typed, TypeOK
<1>i. ASSUME NEW p PROVE p \in Counted(u)' <=> p \in made' /\ p \notin overlapped' /\ p \notin revived'
                                               /\ row'[p].owner = u /\ Holds(row[p])'
  BY DEF Counted, Slots, Undisturbed
<1>s. ASSUME UNCHANGED <<made, row, revived, now>> PROVE Goal
  BY <1>0, <1>i, <1>s, CountedIs DEF Holds, Shut
<1>o. ASSUME NEW q \in Posts, UNCHANGED <<made, now>>, revived \subseteq revived' \cup {q},
             \A p \in Posts \ {q} : row'[p] = row[p]
      PROVE  Counted(u)' \subseteq Counted(u) \cup {q}
  BY <1>0, <1>i, <1>o, CountedIs DEF Holds, Shut
<1>1. ASSUME NEW v \in Users, NEW q \in Posts, NEW draft \in BOOLEAN, NEW text \in Contents, Create(v, q, draft, text)
      PROVE  Goal
  <2> DEFINE new == [Blank EXCEPT !.owner = v, !.draft = draft, !.content = text,
                                  !.expires = IF draft THEN 0 ELSE now + Window]
  <2>1. /\ row' = [row EXCEPT ![q] = new] /\ made' = made \cup {q} /\ UNCHANGED <<revived, now, job, overlapped>>
        /\ ~Locked(v) /\ (draft \/ UnderQuota(v))
    BY <1>1 DEF Create
  <2>2. new.owner = v /\ new.draft = draft
    BY DEF Blank
  <2> HIDE DEF new
  <2>3. Counted(u)' \subseteq Counted(u) \cup {q}
    BY <1>0, <1>i, <2>1, CountedIs DEF Holds, Shut
  <2>4. CASE v = u /\ ~draft
    BY <2>1, <2>3, <2>4 DEF Filled, Created
  <2>5. CASE v # u \/ draft
    <3>1. q \notin Counted(u)'
      BY <1>0, <1>i, <2>1, <2>2, <2>5 DEF Holds
    <3> QED BY <2>3, <3>1
  <2> QED BY <2>4, <2>5
<1>2. ASSUME NEW c \in Callers, Write(c) PROVE Goal
  <2> DEFINE q == job[c].post
             copy == job[c].copy
  <2>1. /\ q \in Posts /\ copy \in Row /\ job[c].gated \in BOOLEAN
        /\ row' = [row EXCEPT ![q] = Merged(row[q], copy, job[c].columns)] /\ UNCHANGED <<made, now>>
        /\ revived' \in {revived, revived \ {q}, revived \cup {q}}
        /\ job' = [job EXCEPT ![c] = Idle] /\ job[c].at = "compared"
    BY <1>0, <1>2 DEF Write, Job, CopiesInv, Typed, Given
  <2>2. Counted(u)' \subseteq Counted(u) \cup {q}
    BY <1>o, <2>1
  <2>3. ASSUME q \in Counted(u)', q \notin Counted(u) PROVE Saved(u)
    <3>1. q \notin overlapped
      BY <1>0, <1>i, <2>3
    <3>2. /\ job[c].columns = Differing(copy, row[q]) /\ copy.owner = row[q].owner
          /\ ~job[c].gated => Holds(row[q]) \/ ~Holds(copy) \/ job[c].late
      BY <2>1, <3>1 DEF CopiesInv, CopyInv, Apt
    <3>3. row'[q] = copy
      BY <1>0, <2>1, <3>2, MergedWhole
    <3>4. copy.owner = u /\ Holds(copy) /\ q \in made /\ q \notin revived'
      BY <1>i, <2>1, <2>3, <3>3 DEF Holds, Shut
    <3>5. ~job[c].gated /\ q \in revived => q \in revived'
      BY <1>2 DEF Write
    <3>6. ~job[c].gated /\ job[c].late /\ ~Holds(row[q]) => q \in revived'
      BY <1>0, <1>2, <2>1, <3>2, <3>4, MergedWhole DEF Write
    <3>7. job[c].gated
      BY <2>1, <2>3, <3>1, <3>2, <3>4, <3>5, <3>6, CountedIs
    <3> QED BY <2>1, <3>4, <3>7 DEF Saved, Locks
  <2> QED BY <2>1, <2>2, <2>3 DEF Filled
<1>3. ASSUME NEW c \in Callers, Called(c) PROVE Goal
  <2>1. Write(c) \/ UNCHANGED <<made, row, revived, now>>
    BY <1>3 DEF Called, Load, Compare, Stop
  <2> HIDE DEF Goal
  <2> QED BY <1>2, <1>s, <2>1
<1>4. ASSUME NEW q \in Posts, Approve(q) \/ Reject(q) \/ TakeDown(q) PROVE Goal
  <2>1. UNCHANGED <<made, now>> /\ q \in made /\ revived \subseteq revived'
    BY <1>4 DEF Approve, Reject, TakeDown
  <2>2. \A p \in Posts \ {q} : row'[p] = row[p]
    BY <1>0, <1>4, ModerationWrites DEF CopiesInv, TakeDown
  <2>3. Counted(u)' \subseteq Counted(u) \cup {q}
    BY <1>o, <2>1, <2>2
  <2>4. ASSUME q \in Counted(u)' PROVE q \in Counted(u)
    <3>1. q \notin overlapped /\ q \notin revived /\ q \notin revived' /\ row'[q].owner = u /\ Holds(row[q])'
      BY <1>0, <1>i, <2>1, <2>4
    <3>2. CASE Approve(q)
      <4>1. row'[q] = Approved(row[q]) /\ Holds(row[q])
        BY <1>0, <3>1, <3>2, ModerationWrites DEF CopiesInv, Approve
      <4>2. row[q].owner = u
        BY <1>0, <2>1, <3>1, <4>1, ApprovedTyped DEF CopiesInv, Typed, Given
      <4> QED BY <2>1, <3>1, <4>1, <4>2, CountedIs
    <3>3. CASE Reject(q) \/ TakeDown(q)
      <4>1. row'[q] \in {Rejected(row[q]), TakenDown(row[q])}
        BY <1>0, <3>3, ModerationWrites DEF CopiesInv, TakeDown
      <4>2. row'[q].owner = row[q].owner /\ Holds(row[q])
        <5>2. \A f \in Column \ {"approval", "revision"} : Rejected(row[q])[f] = row[q][f]
          BY <1>0 DEF Rejected, Column, Row
        <5>3. row'[q].approval # "REJECTED" => row'[q].approval = row[q].approval
          BY <1>0, <4>1, TakenTyped, RejectedTyped
        <5>4. \A f \in Column \ {"approval", "revision"} : TakenDown(row[q])[f] = row[q][f]
          BY <1>0 DEF TakenDown, Column, Row
        <5>5. \A f \in Column \ {"approval", "revision"} : row'[q][f] = row[q][f]
          BY <4>1, <5>2, <5>4
        <5> QED BY <2>1, <3>1, <5>3, <5>5 DEF Holds, Shut, Column
      <4> QED BY <2>1, <3>1, <4>2, CountedIs
    <3> QED BY <1>4, <3>2, <3>3
  <2> QED BY <2>3, <2>4
<1>5. ASSUME NEW v \in Users, Uphold(v) \/ StartDeletion(v) PROVE Goal
  BY <1>5, <1>s DEF Uphold, StartDeletion
<1>6. ASSUME EndDeletion PROVE Goal
  <2> DEFINE mine == {p \in made : row[p].owner = leaving}
  <2>1. /\ held \subseteq mine /\ UNCHANGED <<made, now, revived>>
        /\ row' = [p \in Posts |-> IF p \in held THEN Orphaned(row[p])
                                   ELSE IF p \in mine THEN [row[p] EXCEPT !.owner = NoUser] ELSE row[p]]
    BY <1>0, <1>6 DEF EndDeletion, CopiesInv, HeldRows
  <2>2. \A p \in mine : row'[p].owner = NoUser
    BY <1>0, <2>1, OrphanedTyped DEF CopiesInv, Row
  <2>3. \A p \in made \ mine : row'[p] = row[p]
    BY <1>0, <2>1
  <2> HIDE DEF mine
  <2>4. ASSUME NEW p \in Counted(u)' PROVE p \in Counted(u)
    <3>1. p \in made /\ p \notin mine
      BY <1>0, <1>i, <2>1, <2>2
    <3> QED BY <1>0, <1>i, <2>1, <2>3, <3>1, CountedIs DEF Holds, Shut
  <2> QED BY <2>4
<1>7. ASSUME ExpireLapsed PROVE Goal
  <2>1. /\ UNCHANGED <<made, now, revived>>
        /\ \A p \in Posts : row'[p] = row[p] \/ row'[p].expired
    BY <1>0, <1>7 DEF ExpireLapsed, Row
  <2> QED BY <1>0, <1>i, <2>1, CountedIs DEF Holds, Shut
<1>8. ASSUME Tick PROVE Goal
  <2>1. UNCHANGED <<made, row, revived>> /\ now' = now + 1
    BY <1>8 DEF Tick
  <2>2. \A p \in Posts : Holds(row[p])' => Holds(row[p])
    BY <1>0, <2>1 DEF Holds, Shut, Row
  <2> QED BY <1>0, <1>i, <2>1, <2>2, CountedIs
<1>9. ASSUME AbortDeletion \/ UNCHANGED vars PROVE Goal
  BY <1>9, <1>s DEF AbortDeletion, vars
<1>10. Goal
  <2> HIDE DEF Goal
  <2> QED BY Steps, <1>1, <1>3, <1>4, <1>5, <1>6, <1>7, <1>8, <1>9
<1> QED BY <1>10

\* A call takes its owner's lock when nobody holds it, and finds a free slot.
LEMMA LocksNext ==
  ASSUME CopiesInv, OneLock, [Next]_vars
  PROVE  /\ OneLock'
         /\ \A u \in Users : Locked(u)' => Locked(u) \/ UnderQuota(u)
         /\ \A u \in Users : Filled(u) => ~Locked(u)'
<1> DEFINE Goal == OneLock' /\ \A u \in Users : Locked(u)' => Locked(u) \/ UnderQuota(u)
<1>0. job \in [Callers -> Job] /\ Blank \in Row
  BY BlankTyped DEF CopiesInv, Typed, TypeOK
<1>u. ASSUME UNCHANGED job PROVE Goal
  BY <1>u DEF OneLock, Locks, Locked
<1>k. ASSUME NEW c \in Callers, \A d \in Callers \ {c} : job'[d] = job[d], job'[c].at # "compared" PROVE Goal
  BY <1>k DEF OneLock, Locks, Locked
<1>1. ASSUME NEW c \in Callers, NEW p \in Posts, NEW op \in Op, Load(c, p, op) PROVE Goal
  <2>1. job'[c].at = "loaded" /\ \A d \in Callers \ {c} : job'[d] = job[d]
    BY <1>1, LoadJob DEF CopiesInv
  <2> HIDE DEF Goal
  <2> QED BY <1>k, <2>1
<1>2. ASSUME NEW c \in Callers, Write(c) \/ Stop(c) PROVE Goal
  <2>1. job' = [job EXCEPT ![c] = Idle]
    BY <1>2 DEF Write, Stop
  <2>2. job'[c].at = "idle" /\ \A d \in Callers \ {c} : job'[d] = job[d]
    BY <1>0, <2>1, BlankTyped
  <2> HIDE DEF Goal
  <2> QED BY <1>k, <2>2
<1>3. ASSUME NEW c \in Callers, NEW text \in Contents, Compare(c, text) PROVE Goal
  <2> DEFINE owner == job[c].copy.owner
  <2>1. /\ \A d \in Callers \ {c} : job'[d] = job[d]
        /\ job'[c].copy.owner = owner /\ job'[c].at = "compared"
    BY <1>3, CompareJob DEF CopiesInv
  <2>2. job'[c].gated => ~Locked(owner) /\ UnderQuota(owner)
    <3>1. job'[c].gated = Gated(job[c].op, job[c].copy, text)
      BY <1>3, CompareJob DEF CopiesInv
    <3> QED BY <1>3, <3>1 DEF Compare
  <2>3. \A d \in Callers \ {c} : Locks(d)' => Locks(d) /\ (job'[c].gated => job[d].copy.owner # owner)
    BY <2>1, <2>2 DEF Locks, Locked
  <2>4. OneLock'
    BY <2>1, <2>3 DEF OneLock, Locks
  <2>5. ASSUME NEW u \in Users, Locked(u)' PROVE Locked(u) \/ UnderQuota(u)
    <3>1. PICK d \in Callers : Locks(d)' /\ job'[d].copy.owner = u
      BY <2>5 DEF Locked, Locks
    <3>2. CASE d = c
      BY <2>1, <2>2, <3>1, <3>2 DEF Locks
    <3>3. CASE d # c
      BY <2>1, <2>3, <3>1, <3>3 DEF Locks, Locked
    <3> QED BY <3>2, <3>3
  <2> QED BY <2>4, <2>5
<1>4. ASSUME NEW c \in Callers, Called(c) PROVE Goal
  <2>1. CASE \E p \in Posts, op \in Op : Load(c, p, op)
    <3>1. PICK p \in Posts, op \in Op : Load(c, p, op)
      BY <2>1
    <3> QED BY <3>1, <1>1
  <2>2. CASE \E text \in Contents : Compare(c, text)
    <3>1. PICK text \in Contents : Compare(c, text)
      BY <2>2
    <3> QED BY <3>1, <1>3
  <2> HIDE DEF Goal
  <2> QED BY <1>4, <2>1, <2>2, <1>2 DEF Called
<1>5. ASSUME NEW q \in Posts, Approve(q) \/ Reject(q) \/ TakeDown(q) PROVE Goal
  BY <1>5, <1>u DEF Approve, Reject, TakeDown
<1>6. ASSUME NEW u \in Users, NEW q \in Posts, NEW draft \in BOOLEAN, NEW text \in Contents, Create(u, q, draft, text)
      PROVE  Goal
  BY <1>6, <1>u DEF Create
<1>7. ASSUME NEW u \in Users, Uphold(u) \/ StartDeletion(u) PROVE Goal
  BY <1>7, <1>u DEF Uphold, StartDeletion
<1>8. ASSUME EndDeletion \/ AbortDeletion \/ ExpireLapsed \/ UNCHANGED vars PROVE Goal
  BY <1>8, <1>u DEF EndDeletion, AbortDeletion, ExpireLapsed, vars
<1>t. ASSUME Tick PROVE Goal
  BY <1>t, TickJob DEF CopiesInv, SameCall, OneLock, Locks, Locked
<1>9. Goal
  <2> HIDE DEF Goal
  <2> QED BY Steps, <1>4, <1>5, <1>6, <1>7, <1>8, <1>t
<1>10. ASSUME NEW u \in Users, Filled(u) PROVE ~Locked(u)'
  <2>1. CASE Created(u)
    BY <2>1 DEF Created, Locked
  <2>2. CASE Saved(u)
    <3>1. PICK c \in Callers : Locks(c) /\ job[c].copy.owner = u /\ job' = [job EXCEPT ![c] = Idle]
      BY <2>2 DEF Saved
    <3>2. job'[c].at = "idle" /\ \A d \in Callers \ {c} : job'[d] = job[d]
      BY <1>0, <3>1, BlankTyped
    <3>3. ASSUME NEW d \in Callers, Locks(d)', job'[d].copy.owner = u PROVE FALSE
      BY <3>1, <3>2, <3>3 DEF OneLock, Locks
    <3> QED BY <3>3 DEF Locked, Locks
  <2> QED BY <1>10, <2>1, <2>2 DEF Filled
<1> QED BY <1>9, <1>10

LEMMA QuotaNext == CopiesInv /\ QuotaInv /\ [Next]_vars => QuotaInv'
<1> SUFFICES ASSUME CopiesInv, QuotaInv, [Next]_vars PROVE QuotaInv'
  OBVIOUS
<1>1. IsFiniteSet(made')
  <2>1. made' = made \/ \E p \in Posts : made' = made \cup {p}
    <3>1. ASSUME NEW c \in Callers, Called(c) PROVE made' = made
      BY <3>1 DEF Called, Load, Compare, Write, Stop
    <3>2. ASSUME NEW p \in Posts, Approve(p) \/ Reject(p) \/ TakeDown(p) PROVE made' = made
      BY <3>2 DEF Approve, Reject, TakeDown
    <3>3. ASSUME NEW u \in Users, Uphold(u) \/ StartDeletion(u) PROVE made' = made
      BY <3>3 DEF Uphold, StartDeletion
    <3>4. ASSUME EndDeletion \/ AbortDeletion \/ ExpireLapsed \/ Tick \/ UNCHANGED vars PROVE made' = made
      BY <3>4 DEF EndDeletion, AbortDeletion, ExpireLapsed, Tick, vars
    <3>5. ASSUME NEW u \in Users, NEW p \in Posts, NEW draft \in BOOLEAN, NEW text \in Contents, Create(u, p, draft, text)
          PROVE  made' = made \cup {p}
      BY <3>5 DEF Create
    <3> QED BY Steps, <3>1, <3>2, <3>3, <3>4, <3>5
  <2> QED BY <2>1, FS_AddElement DEF QuotaInv
<1>2. OneLock'
  BY LocksNext DEF QuotaInv
<1>3. ASSUME NEW u \in Users
      PROVE  Cardinality(Counted(u))' <= Limit /\ (Locked(u)' => Cardinality(Counted(u))' < Limit)
  <2>1. /\ IsFiniteSet(Slots(u)) /\ IsFiniteSet(Counted(u)) /\ Cardinality(Counted(u)) <= Cardinality(Slots(u))
    <3>1. IsFiniteSet(Slots(u)) /\ Counted(u) \subseteq Slots(u)
      BY FS_Subset DEF QuotaInv, Slots, Counted
    <3> QED BY <3>1, FS_Subset
  <2>2. Cardinality(Counted(u)) \in Nat /\ Cardinality(Slots(u)) \in Nat /\ Limit \in Nat
    BY <2>1, FS_CardinalityType, NumbersAssumption
  <2>3. /\ Cardinality(Counted(u)) <= Limit /\ (Locked(u) => Cardinality(Counted(u)) < Limit)
        /\ UnderQuota(u) => Cardinality(Counted(u)) < Limit
    BY <2>1, <2>2 DEF QuotaInv, WithinQuota, Room, UnderQuota, Counted
  <2>4. CASE Counted(u)' \subseteq Counted(u)
    <3>1. Cardinality(Counted(u)') <= Cardinality(Counted(u)) /\ Cardinality(Counted(u)') \in Nat
      BY <2>1, <2>4, FS_Subset, FS_CardinalityType
    <3>2. Locked(u)' => Locked(u) \/ UnderQuota(u)
      BY LocksNext DEF QuotaInv
    <3> QED BY <2>2, <2>3, <3>1, <3>2
  <2>5. CASE Filled(u)
    <3>1. PICK p \in Posts : Counted(u)' \subseteq Counted(u) \cup {p}
      BY <2>5 DEF Filled
    <3>2. Cardinality(Counted(u)') <= Cardinality(Counted(u)) + 1 /\ Cardinality(Counted(u)') \in Nat
      <4>1. IsFiniteSet(Counted(u) \cup {p}) /\ Cardinality(Counted(u) \cup {p}) <= Cardinality(Counted(u)) + 1
        <5>1. /\ IsFiniteSet(Counted(u) \cup {p})
              /\ Cardinality(Counted(u) \cup {p}) \in {Cardinality(Counted(u)), Cardinality(Counted(u)) + 1}
          BY <2>1, FS_AddElement, Zenon
        <5>2. Cardinality(Counted(u)) <= Cardinality(Counted(u)) + 1 /\ Cardinality(Counted(u)) + 1 <= Cardinality(Counted(u)) + 1
          BY <2>2
        <5> QED BY <5>1, <5>2, Zenon
      <4>2. Cardinality(Counted(u)') <= Cardinality(Counted(u) \cup {p}) /\ Cardinality(Counted(u)') \in Nat
        BY <3>1, <4>1, FS_Subset, FS_CardinalityType
      <4>3. Cardinality(Counted(u) \cup {p}) \in Nat
        BY <4>1, FS_CardinalityType
      <4> QED BY <2>2, <4>1, <4>2, <4>3
    <3>3. Cardinality(Counted(u)) < Limit
      BY <2>3, <2>5 DEF Filled, Created, Saved, Locked, Locks
    <3>4. ~Locked(u)'
      BY <2>5, LocksNext DEF QuotaInv
    <3> QED BY <2>2, <3>2, <3>3, <3>4
  <2> QED BY <2>4, <2>5, SlotsNext
<1>4. WithinQuota'
  BY <1>3 DEF WithinQuota, Counted
<1>5. Room'
  <2> SUFFICES ASSUME NEW u \in Users PROVE (Locked(u) => Cardinality(Counted(u)) < Limit)'
    BY DEF Room
  <2> QED BY <1>3
<1> QED BY <1>1, <1>2, <1>4, <1>5 DEF QuotaInv

\* Whatever calls run at once, an owner has no more listings up than the plan allows, counting those
\* that nobody changed under a call's copy and that took their slot through the quota: not those an
\* approval brought back, nor those a call found running and saved when their window had closed.
THEOREM WithinQuotaHolds == Spec => []WithinQuota
<1>1. Init => QuotaInv
  <2> SUFFICES ASSUME Init PROVE QuotaInv
    OBVIOUS
  <2>1. \A u \in Users : Counted(u) = {} /\ ~Locked(u)
    BY BlankTyped DEF Init, Counted, Slots, Locked
  <2>2. OneLock
    BY BlankTyped DEF Init, OneLock, Locks
  <2> QED BY <2>1, <2>2, FS_EmptySet, NumbersAssumption DEF Init, QuotaInv, Room, WithinQuota, Counted
<1>2. QuotaInv => WithinQuota
  BY DEF QuotaInv
<1> QED BY <1>1, <1>2, CopiesHold, QuotaNext, PTL DEF Spec

-----------------------------------------------------------------------------
(* Whose a listing is.  A copy agrees with its row on the owner, or the owner's account is gone; then *)
(* the copy's owner is one no save can write.                                                         *)

Agrees(c) ==
  job[c].at # "idle" =>
    /\ row[job[c].post].owner = job[c].copy.owner \/ job[c].copy.owner \notin accounts
    /\ job[c].at = "compared" /\ job[c].copy.owner \in accounts => "owner" \notin job[c].columns
OwnersInv == \A c \in Callers : Agrees(c)

\* What a save makes of the owner: nothing else than what is there.
LEMMA WriteKeepsOwner ==
  ASSUME Typed, NEW c \in Callers, Agrees(c), Write(c)
  PROVE  Merged(row[job[c].post], job[c].copy, job[c].columns).owner = row[job[c].post].owner
<1> DEFINE j == job[c]
<1>1. j.at = "compared" /\ j.copy.owner \in Users
  BY DEF Write, Typed, Given
<1>2. Merged(row[j.post], j.copy, j.columns).owner \in accounts \cup {NoUser}
  BY DEF Write, Refers
<1>3. Merged(row[j.post], j.copy, j.columns).owner =
        IF "owner" \in j.columns THEN j.copy.owner ELSE row[j.post].owner
  BY DEF Merged
<1> QED BY <1>1, <1>2, <1>3, NullsAssumption DEF Agrees

\* How a step moves the owners.
KeepsOwners == UNCHANGED <<accounts, made>> /\ \A p \in Posts : row'[p].owner = row[p].owner
GivesOwner(p, u) ==
  /\ p \in Posts \ made /\ u \in accounts /\ made' = made \cup {p} /\ UNCHANGED accounts
  /\ row'[p].owner = u /\ \A q \in Posts \ {p} : row'[q].owner = row[q].owner
LosesOwner(u) ==
  /\ u \in accounts /\ accounts' = accounts \ {u} /\ UNCHANGED made
  /\ \A p \in Posts : row'[p].owner = IF row[p].owner = u THEN NoUser ELSE row[p].owner

LEMMA OwnerMoves ==
  ASSUME Typed, HeldRows, OwnersInv, [Next]_vars
  PROVE  KeepsOwners \/ (\E p \in Posts, u \in Users : GivesOwner(p, u)) \/ \E u \in Users : LosesOwner(u)
<1> DEFINE Goal == KeepsOwners \/ (\E p \in Posts, u \in Users : GivesOwner(p, u)) \/ \E u \in Users : LosesOwner(u)
<1>0. /\ row \in [Posts -> Row] /\ made \subseteq Posts /\ accounts \subseteq Users
      /\ \A p \in Posts \ made : row[p].owner = NoUser
  BY DEF Typed, TypeOK, Given, Blank
<1>o. ASSUME NEW p \in Posts, NEW new, row' = [row EXCEPT ![p] = new], new.owner = row[p].owner,
             UNCHANGED <<accounts, made>>
      PROVE  KeepsOwners
  BY <1>0, <1>o DEF KeepsOwners
<1>s. ASSUME UNCHANGED <<accounts, made, row>> PROVE KeepsOwners
  BY <1>s DEF KeepsOwners
<1>1. ASSUME NEW u \in Users, NEW p \in Posts, NEW draft \in BOOLEAN, NEW text \in Contents, Create(u, p, draft, text)
      PROVE  GivesOwner(p, u)
  <2> DEFINE new == [Blank EXCEPT !.owner = u, !.draft = draft, !.content = text,
                                  !.expires = IF draft THEN 0 ELSE now + Window]
  <2>1. row' = [row EXCEPT ![p] = new] /\ made' = made \cup {p} /\ u \in accounts /\ p \notin made /\ UNCHANGED accounts
    BY <1>1 DEF Create
  <2>2. new.owner = u
    BY DEF Blank
  <2> HIDE DEF new
  <2> QED BY <1>0, <2>1, <2>2 DEF GivesOwner
<1>2. ASSUME NEW c \in Callers, Called(c) PROVE KeepsOwners
  <2>1. CASE Write(c)
    <3>1. job[c].post \in Posts
      BY <1>0, <2>1 DEF Write, Typed, Given
    <3>2. Agrees(c)
      BY DEF OwnersInv
    <3> DEFINE new == Merged(row[job[c].post], job[c].copy, job[c].columns)
    <3>3. row' = [row EXCEPT ![job[c].post] = new] /\ UNCHANGED <<accounts, made>>
      BY <2>1 DEF Write
    <3>4. new.owner = row[job[c].post].owner
      BY <2>1, <3>2, WriteKeepsOwner
    <3> HIDE DEF new
    <3> QED BY <1>o, <3>1, <3>3, <3>4
  <2>2. CASE ~Write(c)
    BY <1>2, <1>s, <2>2 DEF Called, Load, Compare, Stop
  <2> QED BY <2>1, <2>2
<1>3. ASSUME NEW p \in Posts, Approve(p) \/ Reject(p) \/ TakeDown(p) PROVE KeepsOwners
  <2>1. row[p] \in Row /\ row[p].content \in Contents
    BY <1>0, <1>3 DEF Approve, Reject, TakeDown, Typed, Given
  <2>2. \E new \in {Approved(row[p]), Rejected(row[p]), TakenDown(row[p])} : row' = [row EXCEPT ![p] = new]
    BY <1>3, ModerationWrites DEF TakeDown
  <2>3. \A new \in {Approved(row[p]), Rejected(row[p]), TakenDown(row[p])} : new.owner = row[p].owner
    BY <2>1, ApprovedTyped, RejectedTyped, TakenTyped
  <2>4. UNCHANGED <<accounts, made>>
    BY <1>3 DEF Approve, Reject, TakeDown
  <2> QED BY <1>o, <2>2, <2>3, <2>4
<1>4. ASSUME NEW u \in Users, Uphold(u) \/ StartDeletion(u) PROVE KeepsOwners
  BY <1>4, <1>s DEF Uphold, StartDeletion
<1>5. ASSUME EndDeletion PROVE LosesOwner(leaving) /\ leaving \in Users
  <2>1. leaving \in accounts /\ held \subseteq made
    BY <1>5 DEF EndDeletion, Typed, TypeOK
  <2>2. \A p \in Posts : row'[p] = IF p \in held THEN Orphaned(row[p])
                                   ELSE IF p \in made /\ row[p].owner = leaving THEN [row[p] EXCEPT !.owner = NoUser]
                                   ELSE row[p]
    BY <1>5 DEF EndDeletion
  <2>3. \A p \in Posts : Orphaned(row[p]).owner = NoUser /\ [row[p] EXCEPT !.owner = NoUser].owner = NoUser
    BY <1>0, OrphanedTyped DEF Row
  <2>4. \A p \in Posts : row'[p].owner = IF row[p].owner = leaving THEN NoUser ELSE row[p].owner
    BY <1>0, <2>1, <2>2, <2>3, NullsAssumption DEF HeldRows
  <2> QED BY <1>0, <1>5, <2>1, <2>4 DEF EndDeletion, LosesOwner
<1>6. ASSUME ExpireLapsed PROVE KeepsOwners
  BY <1>0, <1>6 DEF ExpireLapsed, KeepsOwners, Row
<1>7. ASSUME AbortDeletion \/ Tick \/ UNCHANGED vars PROVE KeepsOwners
  BY <1>7, <1>s DEF AbortDeletion, Tick, vars
<1> HIDE DEF Goal
<1>8. Goal
  <2> USE DEF Goal
  <2> QED BY <1>1, <1>2, <1>3, <1>4, <1>5, <1>6, <1>7, Steps
<1> QED BY <1>8 DEF Goal

LEMMA OwnersNext ==
  ASSUME Typed, HeldRows, OwnersInv, [Next]_vars
  PROVE  OwnersInv'
<1>0. /\ row \in [Posts -> Row] /\ made \subseteq Posts /\ accounts \subseteq Users /\ job \in [Callers -> Job]
      /\ \A c \in Callers : job[c].at # "idle" => job[c].post \in made /\ job[c].copy.owner \in Users
      /\ \A p \in Posts : row[p].owner \in accounts \cup {NoUser}
  BY DEF Typed, TypeOK, Given
\* A copy that agreed still does, whatever happens to the rows: no account comes back.
<1>1. ASSUME NEW c \in Callers, job'[c] = job[c] \/ SameCall(c) PROVE Agrees(c)'
  <2>0. SameCall(c)
    BY <1>1 DEF SameCall
  <2> SUFFICES ASSUME job[c].at # "idle" PROVE Agrees(c)'
    BY <2>0 DEF Agrees, SameCall
  <2>1. job[c].post \in made /\ job[c].post \in Posts /\ Agrees(c)
    BY <1>0 DEF OwnersInv
  <2>2. accounts' \subseteq accounts
    BY OwnerMoves DEF KeepsOwners, GivesOwner, LosesOwner
  <2>3. \/ row'[job[c].post].owner = row[job[c].post].owner
        \/ row[job[c].post].owner \notin accounts'
    BY <2>1, OwnerMoves DEF KeepsOwners, GivesOwner, LosesOwner
  <2> QED BY <2>0, <2>1, <2>2, <2>3 DEF Agrees, SameCall
<1>2. ASSUME NEW c \in Callers, job'[c].at = "idle" PROVE Agrees(c)'
  BY <1>2 DEF Agrees
<1>3. ASSUME NEW c \in Callers, NEW p \in Posts, NEW op \in Op, Load(c, p, op) PROVE OwnersInv'
  <2>1. /\ \A d \in Callers \ {c} : job'[d] = job[d]
        /\ job'[c].at = "loaded" /\ job'[c].post = p /\ job'[c].copy = row[p]
    BY <1>3, LoadJob
  <2>2. UNCHANGED row
    BY <1>3 DEF Load
  <2>3. Agrees(c)'
    BY <2>1, <2>2 DEF Agrees
  <2> QED BY <1>1, <2>1, <2>3 DEF OwnersInv
<1>4. ASSUME NEW c \in Callers, NEW text \in Contents, Compare(c, text) PROVE OwnersInv'
  <2> DEFINE j == job[c]
             new == Changed(j.op, j.copy, text)
  <2>1. /\ \A d \in Callers \ {c} : job'[d] = job[d]
        /\ job'[c].at = "compared" /\ job'[c].post = j.post /\ job'[c].copy = new
        /\ job'[c].columns = Differing(new, row[j.post]) /\ new.owner = j.copy.owner
    BY <1>4, CompareJob
  <2>2. UNCHANGED <<accounts, row>> /\ j.at = "loaded"
    BY <1>4 DEF Compare
  <2>3. row[j.post].owner = j.copy.owner \/ j.copy.owner \notin accounts
    BY <2>2 DEF OwnersInv, Agrees
  <2>4. "owner" \in Differing(new, row[j.post]) => new.owner # row[j.post].owner
    BY DEF Differing
  <2> HIDE DEF new
  <2>5. Agrees(c)'
    BY <2>1, <2>2, <2>3, <2>4 DEF Agrees
  <2> QED BY <1>1, <2>1, <2>5 DEF OwnersInv
<1>5. ASSUME NEW c \in Callers, job' = [job EXCEPT ![c] = Idle] PROVE OwnersInv'
  <2>1. job'[c].at = "idle" /\ \A d \in Callers \ {c} : job'[d] = job[d]
    BY <1>0, <1>5, BlankTyped
  <2> QED BY <1>1, <1>2, <2>1 DEF OwnersInv
<1>6. ASSUME UNCHANGED job PROVE OwnersInv'
  BY <1>1, <1>6 DEF OwnersInv
<1>7. ASSUME NEW c \in Callers, Called(c) PROVE OwnersInv'
  BY <1>3, <1>4, <1>5, <1>7 DEF Called, Write, Stop
<1>8. UNCHANGED job \/ Tick \/ \E c \in Callers : Called(c)
  BY Steps DEF Create, Approve, Reject, TakeDown, Uphold, StartDeletion, EndDeletion, AbortDeletion,
     ExpireLapsed, vars
<1>9. ASSUME Tick PROVE OwnersInv'
  BY <1>1, <1>9, TickJob DEF OwnersInv
<1> QED BY <1>6, <1>7, <1>8, <1>9

LEMMA OwnersHold == Spec => []OwnersInv
<1>1. Init => OwnersInv
  BY BlankTyped DEF Init, OwnersInv, Agrees
<1>2. CopiesInv /\ OwnersInv /\ [Next]_vars => OwnersInv'
  BY OwnersNext DEF CopiesInv
<1> QED BY <1>1, <1>2, CopiesHold, PTL DEF Spec

\* An owner is written once and gone for good, whatever old copies are saved.
THEOREM OwnershipImplemented == Spec => ImplementsOwnership
<1> DEFINE H == [p \in Posts |-> row[p].owner]
<1>1. Init => Owned!OwnershipInit
  BY DEF Init, Owned!OwnershipInit, Blank
<1>2. ASSUME CopiesInv, OwnersInv, [Next]_vars PROVE [Owned!OwnershipNext]_(Owned!ownershipVars)
  <2>1. CASE KeepsOwners
    <3>1. H' = H
      BY <2>1 DEF KeepsOwners
    <3> QED BY <2>1, <3>1 DEF KeepsOwners, Owned!ownershipVars
  <2>2. ASSUME NEW p \in Posts, NEW u \in Users, GivesOwner(p, u) PROVE Owned!OwnershipNext
    <3>1. H' = [H EXCEPT ![p] = u]
      BY <2>2 DEF GivesOwner
    <3>2. Owned!Give(p, u)
      BY <2>2, <3>1 DEF GivesOwner, Owned!Give
    <3> QED BY <3>2 DEF Owned!OwnershipNext
  <2>3. ASSUME NEW u \in Users, LosesOwner(u) PROVE Owned!OwnershipNext
    <3>1. H' = [p \in Posts |-> IF H[p] = u THEN NoUser ELSE H[p]]
      BY <2>3 DEF LosesOwner
    <3>2. Owned!Leave(u)
      BY <2>3, <3>1 DEF LosesOwner, Owned!Leave
    <3> QED BY <3>2 DEF Owned!OwnershipNext
  <2> QED BY <1>2, <2>1, <2>2, <2>3, OwnerMoves DEF CopiesInv
<1> QED BY <1>1, <1>2, CopiesHold, OwnersHold, PTL DEF Spec, ImplementsOwnership, Owned!OwnershipSpec
=============================================================================
