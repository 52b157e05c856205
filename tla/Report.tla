------------------------------- MODULE Report -------------------------------
(***************************************************************************)
(* Reviews of providers, and reports about listings and reviews.  A person *)
(* who finished a booking with a provider, or was answered in a chat, may  *)
(* review them; the provider may reply.  Anyone may report a listing or a  *)
(* review; an admin keeps the subject or takes it down, which closes every *)
(* open report about it and tells the reporters.                           *)
(*                                                                         *)
(* Nothing is locked here: each statement commits on its own, so a request *)
(* is cut between what it read and what it writes, and a resolution in     *)
(* three.  An event is emitted with the statement before it; that it may   *)
(* then be lost is part of Outbox.  What a take-down does to the listing's *)
(* other columns is part of Listing.  Ratings, reasons, titles and the     *)
(* admin's queue are left out.                                             *)
(***************************************************************************)
EXTENDS FiniteSets, Integers

CONSTANTS
  Accounts,
  Listings,
  Seller,      \* the owner of each listing, as long as that account exists
  Reviews,     \* ids of reviews; never reused (SERIAL)
  MaxReports,  \* bound: reports ever filed
  Requests,    \* requests under way at once
  MaxOpen,     \* MAX_OPEN_REPORTS
  Deals,       \* bound: <<author, provider>> who may come to deal with one another
  NoAccount, NoReview, NoReport, NoSubject

Reports == 1..MaxReports  \* their ids (SERIAL)
Subject == Listings \cup Reviews
Review == [provider : Accounts, author : Accounts, replied : BOOLEAN]
Filed  == [reporter : Accounts \cup {NoAccount}, subject : Subject, owner : Accounts \cup {NoAccount},
           status : {"OPEN", "RESOLVED", "DISMISSED"}]

ASSUME SellerAssumption == Seller \in [Listings -> Accounts]
ASSUME OpenAssumption == {MaxOpen, MaxReports} \subseteq Nat /\ IsFiniteSet(Requests)
ASSUME SubjectsAssumption == Listings \cap Reviews = {} /\ NoSubject \notin Subject
ASSUME ReportNullsAssumption == NoAccount \notin Accounts /\ NoReview \notin Review /\ NoReport \notin Filed

VARIABLES
  members,   \* rows of users
  listed,    \* listings: UP, REJECTED, or REMOVED by the owner
  earned,    \* <<author, provider>>: a finished booking or an answered chat
  review,    \* reviews
  report,    \* reports
  request,   \* the request in each slot
  announced, \* how often review.created and review.replied were emitted, per review
  told,      \* how often report.resolved was emitted, per report
  downed     \* subjects an admin took down, or found gone

reportVars == <<members, listed, earned, review, report, request, announced, told, downed>>

Request == [at : {"idle", "write", "reply", "file", "down", "close"}, who : Accounts \cup {NoAccount},
            to : Accounts \cup {NoAccount}, subject : Subject \cup {NoSubject},
            keep : BOOLEAN, first : BOOLEAN]
Unused == [at |-> "idle", who |-> NoAccount, to |-> NoAccount, subject |-> NoSubject,
           keep |-> FALSE, first |-> FALSE]

ReportTypeOK ==
  /\ members \subseteq Accounts
  /\ listed \in [Listings -> {"UP", "REJECTED", "REMOVED"}]
  /\ earned \subseteq members \X members
  /\ review \in [Reviews -> Review \cup {NoReview}]
  /\ report \in [Reports -> Filed \cup {NoReport}]
  /\ \A i \in Reports : report[i] # NoReport =>
       {report[i].reporter, report[i].owner} \subseteq members \cup {NoAccount}
  /\ request \in [Requests -> Request]
  /\ \A q \in Requests : request[q].at \in {"file", "down", "close"} => request[q].subject \in Subject
  /\ announced \in [Reviews -> [created : Nat, replied : Nat]]
  /\ told \in [Reports -> Nat]
  /\ downed \subseteq Subject

ReportInit ==
  /\ members = Accounts
  /\ listed = [p \in Listings |-> "UP"]
  /\ earned = {}
  /\ review = [r \in Reviews |-> NoReview]
  /\ report = [i \in Reports |-> NoReport]
  /\ request = [q \in Requests |-> Unused]
  /\ announced = [r \in Reviews |-> [created |-> 0, replied |-> 0]]
  /\ told = [i \in Reports |-> 0]
  /\ downed = {}
-----------------------------------------------------------------------------
(* Rows and counts.  What a name beginning with Bug defines is what a plausible slip would     *)
(* make of the next definition.                                                                *)

Posted == {r \in Reviews : review[r] # NoReview}
Filings == {i \in Reports : report[i] # NoReport}

\* The review of p by a (UQ_reviews_provider_author).
Of(a, p) == {r \in Posted : review[r].author = a /\ review[r].provider = p}

\* What a report may be about, with whose doing it is: POST_NOT_FOUND, REVIEW_NOT_FOUND.
Found(s) == IF s \in Listings THEN listed[s] # "REMOVED" ELSE review[s] # NoReview
OwnerOf(s) ==
  IF s \in Reviews THEN review[s].author
  ELSE IF Seller[s] \in members THEN Seller[s] ELSE NoAccount

OpenBy(u) == {i \in Filings : report[i].reporter = u /\ report[i].status = "OPEN"}

Room(u) == Cardinality(OpenBy(u)) < MaxOpen

\* UQ_reports_open_per_reporter lets the row in.
NotYet(u, s) == \A i \in OpenBy(u) : report[i].subject # s

\* The reports a resolution closes.
BugClosing(s) == {i \in Filings : report[i].subject = s}
Closing(s) == {i \in Filings : report[i].subject = s /\ report[i].status = "OPEN"}

Goes(q, new) == request' = [request EXCEPT ![q] = new]
Done(q) == Goes(q, Unused)
-----------------------------------------------------------------------------
(* Reviews. *)

\* upsert, up to canReview's answer.
MayReview(q, a, p) ==
  /\ request[q] = Unused
  /\ a \in members /\ a # p /\ <<a, p>> \in earned
  /\ Goes(q, [Unused EXCEPT !.at = "write", !.who = a, !.to = p])
  /\ UNCHANGED <<members, listed, earned, review, report, announced, told, downed>>

\* Its INSERT ... ON CONFLICT: a new row is announced, an edit keeps the reply and is not.
BugReferred(a, p) == a \in members
Referred(a, p) == a \in members /\ p \in members

WriteReview(q) ==
  LET a == request[q].who
      p == request[q].to IN
  /\ request[q].at = "write" /\ Referred(a, p)
  /\ IF Of(a, p) # {} THEN UNCHANGED <<review, announced>>
     ELSE \E r \in Reviews :
            /\ announced[r].created = 0
            /\ review' = [review EXCEPT ![r] = [provider |-> p, author |-> a, replied |-> FALSE]]
            /\ announced' = [announced EXCEPT ![r].created = 1]
  /\ Done(q)
  /\ UNCHANGED <<members, listed, earned, report, told, downed>>

\* reply reads the review, then writes; whether it is the first reply is what it read.
ReadReview(q, u, r) ==
  /\ request[q] = Unused
  /\ u \in members /\ r \in Posted /\ review[r].provider = u
  /\ Goes(q, [Unused EXCEPT !.at = "reply", !.who = u, !.subject = r, !.first = ~review[r].replied])
  /\ UNCHANGED <<members, listed, earned, review, report, announced, told, downed>>

Reply(q) ==
  LET r == request[q].subject IN
  /\ request[q].at = "reply" /\ r \in Posted
  /\ review' = [review EXCEPT ![r].replied = TRUE]
  /\ announced' = [announced EXCEPT ![r].replied = @ + (IF request[q].first THEN 1 ELSE 0)]
  /\ Done(q)
  /\ UNCHANGED <<members, listed, earned, report, told, downed>>
-----------------------------------------------------------------------------
(* Reports. *)

\* create, up to its count of the caller's open reports.
Count(q, u, s) ==
  /\ request[q] = Unused
  /\ u \in members /\ Found(s) /\ OwnerOf(s) # u
  /\ Room(u)
  /\ Goes(q, [Unused EXCEPT !.at = "file", !.who = u, !.to = OwnerOf(s), !.subject = s])
  /\ UNCHANGED <<members, listed, earned, review, report, announced, told, downed>>

\* Its INSERT: the keys it refers to must still be there, a listing removed meanwhile is.
File(q) ==
  LET u == request[q].who
      s == request[q].subject IN
  /\ request[q].at = "file"
  /\ {u, request[q].to} \subseteq members \cup {NoAccount}
  /\ s \in Reviews => s \in Posted
  /\ NotYet(u, s)
  /\ \E i \in Reports \ Filings :
       /\ 1..(i - 1) \subseteq Filings
       /\ report' = [report EXCEPT ![i] = [reporter |-> u, subject |-> s, owner |-> request[q].to, status |-> "OPEN"]]
  /\ Done(q)
  /\ UNCHANGED <<members, listed, earned, review, announced, told, downed>>

\* resolve reads one report of the subject and finds it open.
Resolve(q, i, keep) ==
  /\ request[q] = Unused
  /\ i \in Filings /\ report[i].status = "OPEN"
  /\ Goes(q, [Unused EXCEPT !.at = IF keep THEN "close" ELSE "down", !.subject = report[i].subject, !.keep = keep])
  /\ UNCHANGED <<members, listed, earned, review, report, announced, told, downed>>

\* takeDown of the listing or the review; nothing to do when it is gone.
TakeDown(q) ==
  LET s == request[q].subject IN
  /\ request[q].at = "down"
  /\ listed' = [p \in Listings |-> IF p = s /\ listed[p] # "REMOVED" THEN "REJECTED" ELSE listed[p]]
  /\ review' = [r \in Reviews |-> IF r = s THEN NoReview ELSE review[r]]
  /\ downed' = downed \cup {s}
  /\ Goes(q, [request[q] EXCEPT !.at = "close"])
  /\ UNCHANGED <<members, earned, report, announced, told>>

\* The UPDATE that closes what is open about the subject, and the notices to its reporters.
Close(q) ==
  LET S == Closing(request[q].subject)
      heard == {i \in S : ~request[q].keep /\ report[i].reporter # NoAccount} IN
  /\ request[q].at = "close"
  /\ report' = [i \in Reports |-> IF i \in S THEN [report[i] EXCEPT !.status = IF request[q].keep THEN "DISMISSED"
                                                                               ELSE "RESOLVED"]
                                  ELSE report[i]]
  /\ told' = [i \in Reports |-> told[i] + (IF i \in heard THEN 1 ELSE 0)]
  /\ Done(q)
  /\ UNCHANGED <<members, listed, earned, review, announced, downed>>

\* A request is refused, fails, or its worker stops: what it committed stays.
GiveUp(q) ==
  /\ request[q] # Unused
  /\ Done(q)
  /\ UNCHANGED <<members, listed, earned, review, report, announced, told, downed>>
-----------------------------------------------------------------------------
(* What the rest of the engine does. *)

\* A booking's last day passes, or a provider answers in a chat: neither is ever undone, as Booking and
\* Chat are shown to keep (Dealings).
Earn(a, p) ==
  /\ <<a, p>> \in Deals /\ {a, p} \subseteq members /\ a # p
  /\ earned' = earned \cup {<<a, p>>}
  /\ UNCHANGED <<members, listed, review, report, request, announced, told, downed>>

\* A listing is refused or approved, removed by its owner, or put back by a save of the owner's that
\* loaded it before.
Relisted(p, as) ==
  /\ listed[p] # as /\ (listed[p] = "REMOVED" => Seller[p] \in members)
  /\ listed' = [listed EXCEPT ![p] = as]
  /\ UNCHANGED <<members, earned, review, report, request, announced, told, downed>>

\* deleteAccount: reviews by and of the account go, its reports stay without a name, and what it
\* had not published is removed.
BugWithout(f, u) == f
Without(f, u) == IF f = u THEN NoAccount ELSE f

Quit(u) ==
  /\ u \in members
  /\ members' = members \ {u}
  /\ \E unpublished \in SUBSET {p \in Listings : Seller[p] = u} :
       /\ {p \in Listings : Seller[p] = u /\ listed[p] = "REJECTED"} \subseteq unpublished
       /\ listed' = [p \in Listings |-> IF p \in unpublished THEN "REMOVED" ELSE listed[p]]
  /\ earned' = {e \in earned : u \notin {e[1], e[2]}}
  /\ review' = [r \in Reviews |-> IF r \in Posted /\ u \in {review[r].author, review[r].provider}
                                    THEN NoReview ELSE review[r]]
  /\ report' = [i \in Reports |-> IF i \notin Filings THEN report[i]
                                  ELSE [report[i] EXCEPT !.reporter = Without(@, u), !.owner = Without(@, u)]]
  /\ UNCHANGED <<request, announced, told, downed>>
-----------------------------------------------------------------------------
Asked ==
  \E q \in Requests :
    \/ \E a, p \in Accounts : MayReview(q, a, p)
    \/ \E u \in Accounts : \/ \E r \in Reviews : ReadReview(q, u, r)
                           \/ \E s \in Subject : Count(q, u, s)
    \/ \E i \in Reports, keep \in BOOLEAN : Resolve(q, i, keep)
    \/ WriteReview(q) \/ Reply(q) \/ File(q) \/ TakeDown(q) \/ Close(q) \/ GiveUp(q)

Elsewhere ==
  \/ \E a, p \in Accounts : Earn(a, p)
  \/ \E p \in Listings, as \in {"UP", "REJECTED", "REMOVED"} : Relisted(p, as)
  \/ \E u \in Accounts : Quit(u)

ReportNext == Asked \/ Elsewhere

ReportSpec == ReportInit /\ [][ReportNext]_reportVars
-----------------------------------------------------------------------------
(* Properties. *)

\* Every review stands between two accounts that still exist, by someone who finished a booking
\* with the provider or was answered by them, although upsert asks before it writes.
ReviewEarned == \A r \in Posted : <<review[r].author, review[r].provider>> \in earned

\* The author is told of a reply at least once, however the provider's requests overlap, and a
\* review that was never replied to announces none (reply decides by the row it read).
ReplyAnnounced == \A r \in Posted : review[r].replied <=> announced[r].replied > 0

\* A ruling stands: a closed report is never reopened or ruled on again by another admin; it
\* closes every report that is open about the subject, and RESOLVED means that an admin took the
\* subject down.
RuledOnce(i) ==
  report'[i].status # report[i].status =>
    /\ report[i].status = "OPEN"
    /\ report'[i].status = "RESOLVED" => report[i].subject \in downed
    /\ \A j \in Filings : report[j].subject = report[i].subject => report'[j].status # "OPEN"
RulingStands == [][\A i \in Filings : RuledOnce(i)]_reportVars

\* Each reporter of an upheld report is told, once; of a dismissed one, never. Two admins may
\* resolve at once and an account may be deleted in between.
ReporterTold ==
  \A i \in Filings : /\ told[i] <= 1
                     /\ told[i] = 1 => report[i].status = "RESOLVED"
                     /\ report[i].status = "RESOLVED" /\ report[i].reporter # NoAccount => told[i] = 1
=============================================================================
