---------------------------- MODULE ReportProofs ----------------------------
(***************************************************************************)
(* Proofs about Report, for any accounts, listings, reviews, reports and   *)
(* requests under way.  What the slot of a request may turn into is said   *)
(* once (Slots); each invariant then needs only the actions that touch its *)
(* own rows.                                                               *)
(***************************************************************************)
EXTENDS Report, TLAPS

-----------------------------------------------------------------------------
(* Types. *)

LEMMA UnusedRequest == Unused \in Request /\ Unused.at = "idle"
BY DEF Unused, Request

Slotted == /\ request \in [Requests -> Request]
           /\ \A q \in Requests : request[q].at \in {"file", "down", "close"} => request[q].subject \in Subject
Rows == /\ members \subseteq Accounts
        /\ listed \in [Listings -> {"UP", "REJECTED", "REMOVED"}]
        /\ earned \subseteq members \X members
        /\ review \in [Reviews -> Review \cup {NoReview}]
        /\ report \in [Reports -> Filed \cup {NoReport}]
        /\ \A i \in Reports : report[i] # NoReport =>
             {report[i].reporter, report[i].owner} \subseteq members \cup {NoAccount}
Books == /\ announced \in [Reviews -> [created : Nat, replied : Nat]]
         /\ told \in [Reports -> Nat]
         /\ downed \subseteq Subject

LEMMA TypeParts == ReportTypeOK <=> Slotted /\ Rows /\ Books
BY DEF ReportTypeOK, Slotted, Rows, Books

LEMMA GoesTyped ==
  ASSUME Slotted, NEW q \in Requests, NEW new \in Request, Goes(q, new),
         new.at \in {"file", "down", "close"} => new.subject \in Subject
  PROVE  Slotted'
BY DEF Slotted, Goes

LEMMA DoneTyped == ASSUME Slotted, NEW q \in Requests, Done(q) PROVE Slotted'
BY GoesTyped, UnusedRequest DEF Done

LEMMA OwnerTyped ==
  ASSUME Rows, NEW s \in Subject, Found(s)
  PROVE  OwnerOf(s) \in Accounts \cup {NoAccount}
<1>1. CASE s \in Reviews
  <2>1. review[s] \in Review
    BY <1>1, SubjectsAssumption DEF Rows, Found
  <2> QED BY <1>1, <2>1 DEF OwnerOf, Review
<1>2. CASE s \notin Reviews
  BY <1>2, SellerAssumption DEF OwnerOf, Subject
<1> QED BY <1>1, <1>2

LEMMA TypeInit == ReportInit => ReportTypeOK
BY UnusedRequest DEF ReportInit, ReportTypeOK

\* What stands in the slot q after a step.
Fresh(q) ==
  LET now == request'[q] IN
  \/ now = request[q]
  \/ now = Unused
  \/ /\ now.at = "write" /\ <<now.who, now.to>> \in earned
     /\ UNCHANGED <<members, earned, review>>
  \/ /\ now.at = "reply" /\ now.subject \in Posted /\ now.first = ~review[now.subject].replied
     /\ UNCHANGED <<review, announced>>
  \/ now.at \in {"file", "down"}
  \/ now.at = "close" /\ (now.keep \/ now.subject \in downed')

SlotsMove == Slotted' /\ \A q \in Requests : Fresh(q)

LEMMA SlotsNext == ReportTypeOK /\ [ReportNext]_reportVars => SlotsMove
<1> SUFFICES ASSUME ReportTypeOK, [ReportNext]_reportVars PROVE SlotsMove
  OBVIOUS
<1>0. Slotted /\ Rows /\ Books
  BY TypeParts
<1>u. Unused \in Request
  BY UnusedRequest
<1>r. request \in [Requests -> Request] /\ \A q \in Requests : request[q].at \in {"file", "down", "close"} => request[q].subject \in Subject
  BY <1>0 DEF Slotted
<1>d. ASSUME NEW q \in Requests, Done(q) PROVE SlotsMove
  <2>1. Slotted'
    BY <1>d, <1>0, DoneTyped
  <2>2. \A p \in Requests : request'[p] \in {request[p], Unused}
    BY <1>d, <1>r DEF Done, Goes
  <2> QED BY <2>1, <2>2 DEF Fresh, SlotsMove
<1>s. ASSUME UNCHANGED request PROVE SlotsMove
  BY <1>s, <1>0 DEF Slotted, Fresh, SlotsMove
<1>n. ASSUME NEW q \in Requests, NEW new \in Request, Goes(q, new),
             new.at \in {"file", "down", "close"} => new.subject \in Subject,
             request'[q] = new => Fresh(q)
      PROVE  SlotsMove
  <2>1. Slotted'
    BY <1>n, <1>0, GoesTyped
  <2>2. request'[q] = new /\ \A p \in Requests \ {q} : request'[p] = request[p]
    BY <1>n, <1>r DEF Goes
  <2>3. \A p \in Requests \ {q} : Fresh(p)
    BY <2>2 DEF Fresh
  <2> QED BY <1>n, <2>1, <2>2, <2>3 DEF SlotsMove
<1>1. ASSUME NEW q \in Requests, NEW a \in Accounts, NEW p \in Accounts, MayReview(q, a, p) PROVE SlotsMove
  <2> DEFINE new == [Unused EXCEPT !.at = "write", !.who = a, !.to = p]
  <2>1. new \in Request /\ new.at = "write" /\ new.who = a /\ new.to = p
    BY <1>u DEF Request
  <2>2. Goes(q, new) /\ <<a, p>> \in earned /\ UNCHANGED <<members, earned, review>>
    BY <1>1 DEF MayReview
  <2> HIDE DEF new
  <2> QED BY <1>n, <2>1, <2>2 DEF Fresh
<1>2. ASSUME NEW q \in Requests, NEW u \in Accounts, NEW r \in Reviews, ReadReview(q, u, r) PROVE SlotsMove
  <2> DEFINE new == [Unused EXCEPT !.at = "reply", !.who = u, !.subject = r, !.first = ~review[r].replied]
  <2>1. review[r] \in Review /\ r \in Subject /\ r \in Posted
    BY <1>2, <1>0 DEF ReadReview, Rows, Posted, Subject
  <2>2. new \in Request /\ new.at = "reply" /\ new.subject = r /\ new.first = ~review[r].replied
    BY <1>u, <2>1 DEF Request
  <2>3. Goes(q, new) /\ UNCHANGED <<review, announced>>
    BY <1>2 DEF ReadReview
  <2> HIDE DEF new
  <2> QED BY <1>n, <2>1, <2>2, <2>3 DEF Fresh
<1>3. ASSUME NEW q \in Requests, NEW u \in Accounts, NEW s \in Subject, Count(q, u, s) PROVE SlotsMove
  <2> DEFINE new == [Unused EXCEPT !.at = "file", !.who = u, !.to = OwnerOf(s), !.subject = s]
  <2>1. OwnerOf(s) \in Accounts \cup {NoAccount}
    BY <1>3, <1>0, OwnerTyped DEF Count
  <2>2. new \in Request /\ new.at = "file" /\ new.subject = s
    BY <1>u, <2>1 DEF Request
  <2>3. Goes(q, new)
    BY <1>3 DEF Count
  <2> HIDE DEF new
  <2> QED BY <1>n, <2>2, <2>3 DEF Fresh
<1>4. ASSUME NEW q \in Requests, NEW i \in Reports, NEW keep \in BOOLEAN, Resolve(q, i, keep) PROVE SlotsMove
  <2> DEFINE new == [Unused EXCEPT !.at = IF keep THEN "close" ELSE "down", !.subject = report[i].subject, !.keep = keep]
  <2>1. report[i].subject \in Subject
    BY <1>4, <1>0 DEF Resolve, Rows, Filings, Filed
  <2>2. new \in Request /\ new.at = (IF keep THEN "close" ELSE "down") /\ new.subject = report[i].subject /\ new.keep = keep
    BY <1>u, <2>1 DEF Request
  <2>3. Goes(q, new)
    BY <1>4 DEF Resolve
  <2> HIDE DEF new
  <2> QED BY <1>n, <2>1, <2>2, <2>3 DEF Fresh
<1>5. ASSUME NEW q \in Requests, TakeDown(q) PROVE SlotsMove
  <2> DEFINE new == [request[q] EXCEPT !.at = "close"]
  <2>1. request[q] \in Request /\ request[q].subject \in Subject
    BY <1>5, <1>r DEF TakeDown
  <2>2. new \in Request /\ new.at = "close" /\ new.subject = request[q].subject
    BY <2>1 DEF Request
  <2>3. Goes(q, new) /\ new.subject \in downed'
    BY <1>5, <2>2 DEF TakeDown
  <2> HIDE DEF new
  <2> QED BY <1>n, <2>1, <2>2, <2>3 DEF Fresh
<1>6. ASSUME NEW q \in Requests, WriteReview(q) \/ Reply(q) \/ File(q) \/ Close(q) \/ GiveUp(q) PROVE SlotsMove
  BY <1>6, <1>d DEF WriteReview, Reply, File, Close, GiveUp
<1>7. ASSUME NEW a \in Accounts, NEW p \in Accounts, Earn(a, p) PROVE SlotsMove
  BY <1>7, <1>s DEF Earn
<1>8. ASSUME NEW p \in Listings, NEW as \in {"UP", "REJECTED", "REMOVED"}, Relisted(p, as) PROVE SlotsMove
  BY <1>8, <1>s DEF Relisted
<1>9. ASSUME NEW u \in Accounts, Quit(u) PROVE SlotsMove
  BY <1>9, <1>s DEF Quit
<1>10. CASE UNCHANGED reportVars
  BY <1>10, <1>s DEF reportVars
<1>11. CASE Asked
  <2>1. PICK q \in Requests :
          \/ \E a, p \in Accounts : MayReview(q, a, p)
          \/ \E u \in Accounts : (\E r \in Reviews : ReadReview(q, u, r)) \/ (\E s \in Subject : Count(q, u, s))
          \/ \E i \in Reports, keep \in BOOLEAN : Resolve(q, i, keep)
          \/ TakeDown(q) \/ (WriteReview(q) \/ Reply(q) \/ File(q) \/ Close(q) \/ GiveUp(q))
    BY <1>11 DEF Asked
  <2> QED BY <2>1, <1>1, <1>2, <1>3, <1>4, <1>5, <1>6
<1>12. CASE Elsewhere
  BY <1>12, <1>7, <1>8, <1>9 DEF Elsewhere
<1> QED BY <1>10, <1>11, <1>12 DEF ReportNext
-----------------------------------------------------------------------------
(* Type correctness. *)

\* The requests that only read, or that end.
Looking(q) ==
  \/ \E a, p \in Accounts : MayReview(q, a, p)
  \/ \E u \in Accounts, r \in Reviews : ReadReview(q, u, r)
  \/ \E u \in Accounts, s \in Subject : Count(q, u, s)
  \/ \E i \in Reports, keep \in BOOLEAN : Resolve(q, i, keep)
  \/ GiveUp(q)

Acting(q) == WriteReview(q) \/ Reply(q) \/ File(q) \/ TakeDown(q) \/ Close(q) \/ Looking(q)

\* The steps, one by one.
LEMMA Steps ==
  ASSUME [ReportNext]_reportVars
  PROVE  \/ \E q \in Requests : Acting(q)
         \/ \E a, p \in Accounts : Earn(a, p)
         \/ \E p \in Listings, as \in {"UP", "REJECTED", "REMOVED"} : Relisted(p, as)
         \/ \E u \in Accounts : Quit(u)
         \/ UNCHANGED reportVars
<1>1. ASSUME NEW q \in Requests, NEW u \in Accounts, NEW r \in Reviews, ReadReview(q, u, r) PROVE Looking(q)
  BY <1>1 DEF Looking
<1>2. ASSUME NEW q \in Requests, NEW u \in Accounts, NEW s \in Subject, Count(q, u, s) PROVE Looking(q)
  BY <1>2 DEF Looking
<1>3. CASE Asked
  <2>1. PICK q \in Requests :
          \/ \E a, p \in Accounts : MayReview(q, a, p)
          \/ \E u \in Accounts : (\E r \in Reviews : ReadReview(q, u, r)) \/ (\E s \in Subject : Count(q, u, s))
          \/ \E i \in Reports, keep \in BOOLEAN : Resolve(q, i, keep)
          \/ WriteReview(q) \/ Reply(q) \/ File(q) \/ TakeDown(q) \/ Close(q) \/ GiveUp(q)
    BY <1>3 DEF Asked
  <2>2. CASE WriteReview(q) \/ Reply(q) \/ File(q) \/ TakeDown(q) \/ Close(q)
    BY <2>2 DEF Acting
  <2>3. CASE \/ \E a, p \in Accounts : MayReview(q, a, p)
             \/ \E i \in Reports, keep \in BOOLEAN : Resolve(q, i, keep)
             \/ GiveUp(q)
    BY <2>3 DEF Acting, Looking
  <2>4. CASE \E u \in Accounts : (\E r \in Reviews : ReadReview(q, u, r)) \/ (\E s \in Subject : Count(q, u, s))
    BY <2>4, <1>1, <1>2 DEF Acting
  <2> QED BY <2>1, <2>2, <2>3, <2>4
<1> QED BY <1>3 DEF ReportNext, Elsewhere

LEMMA LookingKeeps ==
  ASSUME NEW q \in Requests, Looking(q)
  PROVE  UNCHANGED <<members, listed, earned, review, report, announced, told, downed>>
BY DEF Looking, MayReview, ReadReview, Count, Resolve, GiveUp

LEMMA TypeNext == ReportTypeOK /\ [ReportNext]_reportVars => ReportTypeOK'
<1> SUFFICES ASSUME ReportTypeOK, [ReportNext]_reportVars PROVE ReportTypeOK'
  OBVIOUS
<1>0. Slotted /\ Rows /\ Books
  BY TypeParts
<1>1. Slotted'
  BY SlotsNext DEF SlotsMove
<1>2. ASSUME Rows', Books' PROVE ReportTypeOK'
  BY <1>1, <1>2 DEF ReportTypeOK, Slotted, Rows, Books
<1>3. ASSUME UNCHANGED <<members, listed, earned, review, report>> PROVE Rows'
  BY <1>0, <1>3 DEF Rows
<1>4. ASSUME UNCHANGED <<announced, told, downed>> PROVE Books'
  BY <1>0, <1>4 DEF Books
<1>5. ASSUME NEW q \in Requests, WriteReview(q) PROVE ReportTypeOK'
  <2>1. request[q] \in Request /\ request[q].who \in members /\ request[q].to \in members /\ members \subseteq Accounts
    BY <1>0, <1>5 DEF WriteReview, Referred, Slotted, Rows
  <2>2. [provider |-> request[q].to, author |-> request[q].who, replied |-> FALSE] \in Review
    BY <2>1 DEF Review
  <2>3. Rows'
    BY <1>0, <1>5, <2>2 DEF WriteReview, Rows
  <2>4. Books'
    BY <1>0, <1>5 DEF WriteReview, Books
  <2> QED BY <1>2, <2>3, <2>4
<1>6. ASSUME NEW q \in Requests, Reply(q) PROVE ReportTypeOK'
  <2> DEFINE r == request[q].subject
  <2>1. r \in Reviews /\ review[r] \in Review
    BY <1>0, <1>6 DEF Reply, Posted, Rows
  <2>2. [review[r] EXCEPT !.replied = TRUE] \in Review
    BY <2>1 DEF Review
  <2>3. Rows'
    BY <1>0, <1>6, <2>1, <2>2 DEF Reply, Rows
  <2>4. \A n \in {0, 1} : [announced[r] EXCEPT !.replied = @ + n] \in [created : Nat, replied : Nat]
    BY <1>0, <2>1 DEF Books
  <2>5. Books'
    BY <1>0, <1>6, <2>1, <2>4 DEF Reply, Books
  <2> QED BY <1>2, <2>3, <2>5
<1>7. ASSUME NEW q \in Requests, File(q) PROVE ReportTypeOK'
  <2> DEFINE new == [reporter |-> request[q].who, subject |-> request[q].subject, owner |-> request[q].to, status |-> "OPEN"]
  <2>1. request[q] \in Request /\ request[q].subject \in Subject /\ {request[q].who, request[q].to} \subseteq members \cup {NoAccount}
    BY <1>0, <1>7 DEF File, Slotted
  <2>2. new \in Filed /\ {new.reporter, new.owner} \subseteq members \cup {NoAccount}
    BY <2>1 DEF Filed, Request
  <2>3. PICK i \in Reports : report' = [report EXCEPT ![i] = new]
    BY <1>7 DEF File
  <2> HIDE DEF new
  <2>4. UNCHANGED <<members, listed, earned, review, announced, told, downed>>
    BY <1>7 DEF File
  <2>5. Rows'
    BY <1>0, <2>2, <2>3, <2>4 DEF Rows
  <2> QED BY <1>2, <1>4, <2>4, <2>5
<1>8. ASSUME NEW q \in Requests, TakeDown(q) PROVE ReportTypeOK'
  <2>1. Rows'
    BY <1>0, <1>8 DEF TakeDown, Rows
  <2>2. request[q].subject \in Subject
    BY <1>0, <1>8 DEF TakeDown, Slotted
  <2>3. Books'
    BY <1>0, <1>8, <2>2 DEF TakeDown, Books
  <2> QED BY <1>2, <2>1, <2>3
<1>9. ASSUME NEW q \in Requests, Close(q) PROVE ReportTypeOK'
  <2> DEFINE S == Closing(request[q].subject)
  <2>1. \A i \in S : i \in Reports /\ report[i] \in Filed
    BY <1>0 DEF Closing, Filings, Rows
  <2>2. \A i \in S, st \in {"DISMISSED", "RESOLVED"} :
          /\ [report[i] EXCEPT !.status = st] \in Filed
          /\ [report[i] EXCEPT !.status = st].reporter = report[i].reporter
          /\ [report[i] EXCEPT !.status = st].owner = report[i].owner
    BY <2>1 DEF Filed
  <2>3. /\ report' = [i \in Reports |-> IF i \in S THEN [report[i] EXCEPT !.status = IF request[q].keep THEN "DISMISSED" ELSE "RESOLVED"]
                                      ELSE report[i]]
        /\ UNCHANGED <<members, listed, earned, review, announced, downed>>
        /\ \E heard : told' = [i \in Reports |-> told[i] + (IF i \in heard THEN 1 ELSE 0)]
    BY <1>9 DEF Close
  <2> HIDE DEF S
  <2>4. Rows'
    <3>1. report' \in [Reports -> Filed \cup {NoReport}]
      BY <1>0, <2>2, <2>3 DEF Rows
    <3>2. ASSUME NEW i \in Reports, report'[i] # NoReport
          PROVE  {report'[i].reporter, report'[i].owner} \subseteq members \cup {NoAccount}
      <4>1. CASE i \in S
        <5>1. PICK st \in {"DISMISSED", "RESOLVED"} : report'[i] = [report[i] EXCEPT !.status = st]
          BY <2>3, <4>1
        <5>2. report'[i].reporter = report[i].reporter /\ report'[i].owner = report[i].owner /\ report[i] # NoReport
          BY <2>1, <2>2, <4>1, <5>1, ReportNullsAssumption
        <5> QED BY <1>0, <2>3, <5>2 DEF Rows
      <4>2. CASE i \notin S
        BY <1>0, <2>3, <3>2, <4>2 DEF Rows
      <4> QED BY <4>1, <4>2
    <3> QED BY <1>0, <2>3, <3>1, <3>2 DEF Rows
  <2>5. Books'
    BY <1>0, <2>3 DEF Books
  <2> QED BY <1>2, <2>4, <2>5
<1>10. ASSUME NEW u \in Accounts, Quit(u) PROVE ReportTypeOK'
  <2> DEFINE new(i) == [report[i] EXCEPT !.reporter = Without(@, u), !.owner = Without(@, u)]
  <2>1. \A i \in Filings : report[i] \in Filed /\ {report[i].reporter, report[i].owner} \subseteq members \cup {NoAccount}
    BY <1>0 DEF Filings, Rows
  <2>2. \A i \in Filings : /\ new(i) \in Filed
                           /\ new(i).reporter = Without(report[i].reporter, u) /\ new(i).owner = Without(report[i].owner, u)
    BY <2>1 DEF Filed, Without
  <2>3. /\ report' = [i \in Reports |-> IF i \notin Filings THEN report[i] ELSE new(i)]
        /\ members' = members \ {u} /\ earned' = {e \in earned : u \notin {e[1], e[2]}}
        /\ review' = [r \in Reviews |-> IF r \in Posted /\ u \in {review[r].author, review[r].provider} THEN NoReview ELSE review[r]]
        /\ UNCHANGED <<announced, told, downed>>
    BY <1>10 DEF Quit
  <2>u. PICK unpublished : listed' = [p \in Listings |-> IF p \in unpublished THEN "REMOVED" ELSE listed[p]]
    BY <1>10 DEF Quit
  <2>l. listed' \in [Listings -> {"UP", "REJECTED", "REMOVED"}]
    BY <1>0, <2>u DEF Rows
  <2> HIDE DEF new
  <2>4. \A f \in members \cup {NoAccount} : Without(f, u) \in members' \cup {NoAccount}
    BY <2>3 DEF Without
  <2>5. report' \in [Reports -> Filed \cup {NoReport}]
    BY <1>0, <2>2, <2>3 DEF Rows
  <2>6. ASSUME NEW i \in Reports, report'[i] # NoReport
        PROVE  {report'[i].reporter, report'[i].owner} \subseteq members' \cup {NoAccount}
    <3>1. i \in Filings /\ report'[i] = new(i)
      BY <2>3, <2>6 DEF Filings
    <3> QED BY <2>1, <2>2, <2>4, <3>1
  <2>7. earned' \subseteq members' \X members'
    BY <1>0, <2>3 DEF Rows
  <2>8. Rows'
    BY <1>0, <2>3, <2>5, <2>6, <2>7, <2>l DEF Rows
  <2> QED BY <1>2, <1>4, <2>3, <2>8
<1>11. ASSUME NEW a \in Accounts, NEW p \in Accounts, Earn(a, p) PROVE ReportTypeOK'
  <2>1. Rows'
    BY <1>0, <1>11 DEF Earn, Rows
  <2> QED BY <1>2, <1>4, <1>11, <2>1 DEF Earn
<1>12. ASSUME NEW p \in Listings, NEW as \in {"UP", "REJECTED", "REMOVED"}, Relisted(p, as) PROVE ReportTypeOK'
  <2>1. Rows'
    BY <1>0, <1>12 DEF Relisted, Rows
  <2> QED BY <1>2, <1>4, <1>12, <2>1 DEF Relisted
<1>13. ASSUME NEW q \in Requests, Looking(q) PROVE ReportTypeOK'
  BY <1>2, <1>3, <1>4, <1>13, LookingKeeps
<1>14. CASE UNCHANGED reportVars
  BY <1>2, <1>3, <1>4, <1>14 DEF reportVars
<1> QED BY <1>5, <1>6, <1>7, <1>8, <1>9, <1>10, <1>11, <1>12, <1>13, <1>14, Steps DEF Acting

\* Every reachable state is well typed; among others, a report names only accounts that exist.
THEOREM TypeCorrect == ReportSpec => []ReportTypeOK
BY TypeInit, TypeNext, PTL DEF ReportSpec
-----------------------------------------------------------------------------
(* Reviews are earned.  A request that was let through keeps what let it through as long as both *)
(* accounts exist, since nothing but a deletion takes it back.                                   *)

Allowed == \A q \in Requests :
  request[q].at = "write" /\ {request[q].who, request[q].to} \subseteq members => <<request[q].who, request[q].to>> \in earned
EarnedInv == Allowed /\ ReviewEarned

LEMMA EarnedNext == ReportTypeOK /\ EarnedInv /\ [ReportNext]_reportVars => EarnedInv'
<1> SUFFICES ASSUME ReportTypeOK, EarnedInv, [ReportNext]_reportVars PROVE EarnedInv'
  OBVIOUS
<1>0. /\ \A q \in Requests : Fresh(q)
      /\ Slotted /\ Rows
      /\ Allowed /\ ReviewEarned
  BY SlotsNext, TypeParts DEF SlotsMove, EarnedInv
<1>1. members' \subseteq members /\ \A e \in earned : {e[1], e[2]} \subseteq members' => e \in earned'
  <2>1. CASE \E u \in Accounts : Quit(u)
    BY <2>1 DEF Quit
  <2>2. CASE \E a, p \in Accounts : Earn(a, p)
    BY <2>2 DEF Earn
  <2>3. CASE UNCHANGED <<members, earned>>
    BY <2>3
  <2>4. ASSUME NEW q \in Requests, Acting(q) PROVE UNCHANGED <<members, earned>>
    BY <2>4, LookingKeeps DEF Acting, WriteReview, Reply, File, TakeDown, Close
  <2>5. (\E p \in Listings, as \in {"UP", "REJECTED", "REMOVED"} : Relisted(p, as)) \/ UNCHANGED reportVars => UNCHANGED <<members, earned>>
    BY DEF Relisted, reportVars
  <2> QED BY <2>1, <2>2, <2>3, <2>4, <2>5, Steps
<1>2. Allowed'
  <2> SUFFICES ASSUME NEW q \in Requests, request'[q].at = "write", {request'[q].who, request'[q].to} \subseteq members'
               PROVE  <<request'[q].who, request'[q].to>> \in earned'
    BY DEF Allowed
  <2>1. CASE request'[q] = request[q]
    <3>1. <<request[q].who, request[q].to>> \in earned
      BY <1>0, <1>1, <2>1 DEF Allowed
    <3> QED BY <1>1, <2>1, <3>1
  <2>2. CASE <<request'[q].who, request'[q].to>> \in earned /\ UNCHANGED <<members, earned, review>>
    BY <2>2
  <2>3. Unused.at # "write"
    BY UnusedRequest
  <2> QED BY <1>0, <2>1, <2>2, <2>3 DEF Fresh
<1>3. ReviewEarned'
  <2> SUFFICES ASSUME NEW r \in Reviews, review'[r] # NoReview
               PROVE  <<review'[r].author, review'[r].provider>> \in earned'
    BY DEF ReviewEarned, Posted
  <2>0. review \in [Reviews -> Review \cup {NoReview}] /\ \A n \in Reviews : review[n] # NoReview => <<review[n].author, review[n].provider>> \in earned
    BY <1>0 DEF ReviewEarned, Posted, Rows
  <2>1. CASE \E u \in Accounts : Quit(u)
    BY <2>0, <2>1 DEF Quit, Posted
  <2>2. CASE earned \subseteq earned' /\ review'[r].author = review[r].author /\ review'[r].provider = review[r].provider
             /\ review[r] # NoReview
    BY <2>0, <2>2
  <2>3. ASSUME NEW q \in Requests, WriteReview(q) PROVE <<review'[r].author, review'[r].provider>> \in earned'
    <3>1. CASE review'[r] = review[r]
      BY <2>0, <2>3, <3>1 DEF WriteReview
    <3>2. CASE review'[r] # review[r]
      <4>1. review'[r] = [provider |-> request[q].to, author |-> request[q].who, replied |-> FALSE]
        BY <2>0, <2>3, <3>2 DEF WriteReview
      <4>2. <<request[q].who, request[q].to>> \in earned /\ earned' = earned
        BY <1>0, <2>3 DEF WriteReview, Referred, Allowed
      <4> QED BY <4>1, <4>2
    <3> QED BY <3>1, <3>2
  <2>4. ASSUME NEW q \in Requests, Reply(q) PROVE <<review'[r].author, review'[r].provider>> \in earned'
    <3>1. request[q].subject \in Reviews /\ review[request[q].subject] \in Review
      BY <2>0, <2>4 DEF Reply, Posted
    <3>2. review[r] # NoReview /\ review'[r].author = review[r].author /\ review'[r].provider = review[r].provider /\ earned' = earned
      BY <2>0, <2>4, <3>1, ReportNullsAssumption DEF Reply, Review
    <3> QED BY <2>2, <3>2
  <2>5. ASSUME NEW q \in Requests, TakeDown(q) PROVE <<review'[r].author, review'[r].provider>> \in earned'
    BY <2>0, <2>5 DEF TakeDown
  <2>6. CASE earned \subseteq earned' /\ review' = review
    BY <2>2, <2>6
  <2>7. ASSUME NEW q \in Requests, File(q) \/ Close(q) \/ Looking(q) PROVE earned \subseteq earned' /\ review' = review
    BY <2>7, LookingKeeps DEF File, Close
  <2>8. (\E a, p \in Accounts : Earn(a, p)) \/ (\E p \in Listings, as \in {"UP", "REJECTED", "REMOVED"} : Relisted(p, as)) \/ UNCHANGED reportVars
          => earned \subseteq earned' /\ review' = review
    BY DEF Earn, Relisted, reportVars
  <2> QED BY <2>1, <2>3, <2>4, <2>5, <2>6, <2>7, <2>8, Steps DEF Acting
<1> QED BY <1>2, <1>3 DEF EarnedInv

\* No review stands by someone who neither finished a booking with the provider nor was answered.
THEOREM ReviewEarnedHolds == ReportSpec => []ReviewEarned
<1>1. ReportInit => EarnedInv
  BY UnusedRequest DEF ReportInit, EarnedInv, Allowed, ReviewEarned, Posted
<1>2. EarnedInv => ReviewEarned
  BY DEF EarnedInv
<1> QED BY <1>1, <1>2, EarnedNext, TypeCorrect, PTL DEF ReportSpec

-----------------------------------------------------------------------------
(* Reports. *)

\* What a step does to the report i.
Same(i) == report'[i] = report[i] /\ told'[i] = told[i]
Files(i) == i \notin Filings /\ report'[i] # NoReport /\ report'[i].status = "OPEN" /\ told'[i] = told[i]
Forgets(i) ==
  /\ i \in Filings /\ report'[i] # NoReport /\ report'[i].status = report[i].status /\ told'[i] = told[i]
  /\ report'[i].subject = report[i].subject /\ report'[i].reporter \in {report[i].reporter, NoAccount}
Ruled(q, i) ==
  /\ i \in Closing(request[q].subject)
  /\ report'[i] # NoReport /\ report'[i].subject = report[i].subject /\ report'[i].reporter = report[i].reporter
  /\ report'[i].status = IF request[q].keep THEN "DISMISSED" ELSE "RESOLVED"
  /\ told'[i] = told[i] + (IF ~request[q].keep /\ report[i].reporter # NoAccount THEN 1 ELSE 0)

LEMMA ReportMoves ==
  ASSUME ReportTypeOK, [ReportNext]_reportVars
  PROVE  \/ \A i \in Reports : Same(i) \/ Files(i) \/ Forgets(i)
         \/ \E q \in Requests : Close(q) /\ \A i \in Reports : Ruled(q, i) \/ (Same(i) /\ i \notin Closing(request[q].subject))
<1>0. /\ report \in [Reports -> Filed \cup {NoReport}]
      /\ told \in [Reports -> Nat]
      /\ \A i \in Filings : report[i] \in Filed
  BY DEF ReportTypeOK, Filings
<1>1. ASSUME UNCHANGED <<report, told>> PROVE \A i \in Reports : Same(i)
  BY <1>1 DEF Same
<1>2. ASSUME NEW q \in Requests, Close(q)
      PROVE  \A i \in Reports : Ruled(q, i) \/ (Same(i) /\ i \notin Closing(request[q].subject))
  <2> SUFFICES ASSUME NEW i \in Reports PROVE Ruled(q, i) \/ (Same(i) /\ i \notin Closing(request[q].subject))
    OBVIOUS
  <2>1. CASE i \in Closing(request[q].subject)
    <3>1. report[i] \in Filed
      BY <1>0, <2>1 DEF Closing
    <3>2. PICK st \in {"DISMISSED", "RESOLVED"} : st = (IF request[q].keep THEN "DISMISSED" ELSE "RESOLVED")
      OBVIOUS
    <3>3. report'[i] = [report[i] EXCEPT !.status = st]
      BY <1>2, <2>1, <3>2 DEF Close
    <3>4. report'[i] \in Filed /\ report'[i].subject = report[i].subject /\ report'[i].reporter = report[i].reporter /\ report'[i].status = st
      BY <3>1, <3>3 DEF Filed
    <3>5. told'[i] = told[i] + (IF ~request[q].keep /\ report[i].reporter # NoAccount THEN 1 ELSE 0)
      BY <1>2, <2>1 DEF Close
    <3> QED BY <2>1, <3>2, <3>4, <3>5, ReportNullsAssumption DEF Ruled
  <2>2. CASE i \notin Closing(request[q].subject)
    BY <1>0, <1>2, <2>2 DEF Close, Same
  <2> QED BY <2>1, <2>2
<1>3. ASSUME NEW q \in Requests, File(q) PROVE \A i \in Reports : Same(i) \/ Files(i) \/ Forgets(i)
  <2> DEFINE new == [reporter |-> request[q].who, subject |-> request[q].subject, owner |-> request[q].to, status |-> "OPEN"]
  <2>1. new \in Filed
    BY <1>3 DEF File, ReportTypeOK, Filed, Request
  <2>2. PICK n \in Reports \ Filings : report' = [report EXCEPT ![n] = new]
    BY <1>3 DEF File
  <2>3. new # NoReport /\ new.status = "OPEN" /\ told' = told
    BY <1>3, <2>1, ReportNullsAssumption DEF File
  <2> HIDE DEF new
  <2> QED BY <1>0, <2>2, <2>3 DEF Same, Files
<1>4. ASSUME NEW u \in Accounts, Quit(u) PROVE \A i \in Reports : Same(i) \/ Files(i) \/ Forgets(i)
  <2> SUFFICES ASSUME NEW i \in Reports PROVE Same(i) \/ Files(i) \/ Forgets(i)
    OBVIOUS
  <2> DEFINE new == [report[i] EXCEPT !.reporter = Without(@, u), !.owner = Without(@, u)]
  <2>1. told' = told /\ report'[i] = IF i \notin Filings THEN report[i] ELSE new
    BY <1>4 DEF Quit
  <2>2. ASSUME i \in Filings
        PROVE  new \in Filed /\ new.status = report[i].status /\ new.subject = report[i].subject /\ new.reporter = Without(report[i].reporter, u)
    <3>1. report[i] \in Filed
      BY <1>0, <2>2
    <3> QED BY <3>1 DEF Filed, Without
  <2> HIDE DEF new
  <2> QED BY <2>1, <2>2, ReportNullsAssumption DEF Same, Forgets, Without
<1>5. ASSUME NEW q \in Requests, WriteReview(q) \/ Reply(q) \/ TakeDown(q) \/ Looking(q) PROVE UNCHANGED <<report, told>>
  BY <1>5, LookingKeeps DEF WriteReview, Reply, TakeDown
<1>6. (\E a, p \in Accounts : Earn(a, p)) \/ (\E p \in Listings, as \in {"UP", "REJECTED", "REMOVED"} : Relisted(p, as)) \/ UNCHANGED reportVars
        => UNCHANGED <<report, told>>
  BY DEF Earn, Relisted, reportVars
<1> QED BY <1>1, <1>2, <1>3, <1>4, <1>5, <1>6, Steps DEF Acting
Untold == \A i \in Reports : i \notin Filings \/ report[i].status = "OPEN" => told[i] = 0
ToldInv == Untold /\ ReporterTold

LEMMA ToldNext == ReportTypeOK /\ ToldInv /\ [ReportNext]_reportVars => ToldInv'
<1> SUFFICES ASSUME ReportTypeOK, ToldInv, [ReportNext]_reportVars, NEW i \in Reports
             PROVE  /\ report'[i] = NoReport \/ report'[i].status = "OPEN" => told'[i] = 0
                    /\ report'[i] # NoReport =>
                         /\ told'[i] <= 1
                         /\ told'[i] = 1 => report'[i].status = "RESOLVED"
                         /\ report'[i].status = "RESOLVED" /\ report'[i].reporter # NoAccount => told'[i] = 1
  BY DEF ToldInv, Untold, ReporterTold, Filings
<1>0. /\ told[i] \in Nat
      /\ report[i] = NoReport \/ report[i].status = "OPEN" => told[i] = 0
      /\ report[i] # NoReport =>
           /\ told[i] <= 1
           /\ told[i] = 1 => report[i].status = "RESOLVED"
           /\ report[i].status = "RESOLVED" /\ report[i].reporter # NoAccount => told[i] = 1
  BY DEF ToldInv, Untold, ReporterTold, Filings, ReportTypeOK
<1>1. CASE Same(i)
  BY <1>0, <1>1 DEF Same
<1>2. CASE Files(i)
  BY <1>0, <1>2 DEF Files, Filings
<1>3. CASE Forgets(i)
  BY <1>0, <1>3 DEF Forgets, Filings
<1>4. ASSUME NEW q \in Requests, Ruled(q, i)
      PROVE  /\ report'[i] = NoReport \/ report'[i].status = "OPEN" => told'[i] = 0
             /\ report'[i] # NoReport =>
                  /\ told'[i] <= 1
                  /\ told'[i] = 1 => report'[i].status = "RESOLVED"
                  /\ report'[i].status = "RESOLVED" /\ report'[i].reporter # NoAccount => told'[i] = 1
  BY <1>0, <1>4 DEF Ruled, Closing, Filings
<1> QED BY <1>1, <1>2, <1>3, <1>4, ReportMoves

\* Each reporter whose report was upheld is told of it once, and no other, however many admins
\* rule at once.
THEOREM ReporterToldHolds == ReportSpec => []ReporterTold
<1>1. ReportInit => ToldInv
  BY DEF ReportInit, ToldInv, Untold, ReporterTold, Filings
<1>2. ToldInv => ReporterTold
  BY DEF ToldInv
<1> QED BY <1>1, <1>2, ToldNext, TypeCorrect, PTL DEF ReportSpec

\* Who is about to close as RESOLVED took the subject down.
DownedFirst == \A q \in Requests : request[q].at = "close" => request[q].keep \/ request[q].subject \in downed

LEMMA DownedNext == ReportTypeOK /\ DownedFirst /\ [ReportNext]_reportVars => DownedFirst'
<1> SUFFICES ASSUME ReportTypeOK, DownedFirst, [ReportNext]_reportVars,
                    NEW q \in Requests, request'[q].at = "close"
             PROVE  request'[q].keep \/ request'[q].subject \in downed'
  BY DEF DownedFirst
<1>1. downed \subseteq downed'
  <2>1. ASSUME NEW p \in Requests, Acting(p) PROVE downed \subseteq downed'
    BY <2>1, LookingKeeps DEF Acting, WriteReview, Reply, File, TakeDown, Close
  <2>2. UNCHANGED reportVars => downed' = downed
    BY DEF reportVars
  <2> QED BY <2>1, <2>2, Steps DEF Earn, Relisted, Quit
<1>2. Fresh(q)
  BY SlotsNext DEF SlotsMove
<1>3. Unused.at # "close"
  BY UnusedRequest
<1>4. CASE request'[q] = request[q]
  BY <1>1, <1>4 DEF DownedFirst
<1> QED BY <1>2, <1>3, <1>4 DEF Fresh

LEMMA RulingNext == ReportTypeOK /\ DownedFirst /\ [ReportNext]_reportVars => \A i \in Filings : RuledOnce(i)
<1> SUFFICES ASSUME ReportTypeOK, DownedFirst, [ReportNext]_reportVars, NEW i \in Filings, report'[i].status # report[i].status
             PROVE  /\ report[i].status = "OPEN"
                    /\ report'[i].status = "RESOLVED" => report[i].subject \in downed
                    /\ \A j \in Filings : report[j].subject = report[i].subject => report'[j].status # "OPEN"
  BY DEF RuledOnce
<1>1. i \in Reports /\ ~Same(i) /\ ~Files(i) /\ ~Forgets(i)
  BY DEF Filings, Same, Files, Forgets
<1>2. PICK q \in Requests :
        Close(q) /\ \A j \in Reports : Ruled(q, j) \/ (Same(j) /\ j \notin Closing(request[q].subject))
  BY <1>1, ReportMoves
<1>3. Ruled(q, i)
  BY <1>1, <1>2
<1>4. report[i].status = "OPEN" /\ report[i].subject = request[q].subject
  BY <1>3 DEF Ruled, Closing
<1>5. report'[i].status = "RESOLVED" => report[i].subject \in downed
  BY <1>2, <1>3, <1>4 DEF Ruled, DownedFirst, Close
<1>6. ASSUME NEW j \in Filings, report[j].subject = report[i].subject PROVE report'[j].status # "OPEN"
  <2>1. j \in Reports
    BY DEF Filings
  <2>2. CASE Ruled(q, j)
    BY <2>2 DEF Ruled
  <2>3. CASE Same(j) /\ j \notin Closing(request[q].subject)
    BY <1>4, <1>6, <2>3 DEF Same, Closing
  <2> QED BY <1>2, <2>1, <2>2, <2>3
<1> QED BY <1>4, <1>5, <1>6

\* A ruling is made once, closes all that is open about its subject, and upholds only what an
\* admin took down.
THEOREM RulingStandsHolds == ReportSpec => RulingStands
<1>1. ReportInit => DownedFirst
  BY UnusedRequest DEF ReportInit, DownedFirst
<1>2. ReportTypeOK /\ DownedFirst /\ [ReportNext]_reportVars => [\A i \in Filings : RuledOnce(i)]_reportVars
  BY RulingNext
<1> QED BY <1>1, <1>2, DownedNext, TypeCorrect, PTL DEF ReportSpec, RulingStands

-----------------------------------------------------------------------------
(* Replies.  The id of a review is used once, so what a request read of a review stays true of   *)
(* that review for as long as it stands.                                                         *)

IdsOnce == \A r \in Reviews : /\ r \in Posted => announced[r].created = 1
                              /\ announced[r].created = 0 => announced[r].replied = 0
SawReply == \A q \in Requests : request[q].at = "reply" =>
  LET r == request[q].subject IN
  /\ r \in Reviews /\ announced[r].created = 1
  /\ ~request[q].first /\ r \in Posted => review[r].replied
RepliedInv == IdsOnce /\ SawReply /\ ReplyAnnounced

\* What a step does to the review r.
Kept(r) == review'[r] = review[r] /\ announced'[r] = announced[r]
Gone(r) == review'[r] = NoReview /\ announced'[r] = announced[r]
Written(r) == /\ announced[r].created = 0 /\ review'[r] # NoReview /\ ~review'[r].replied
              /\ announced'[r].created = 1 /\ announced'[r].replied = announced[r].replied
Answered(q, r) ==
  /\ request[q].at = "reply" /\ r = request[q].subject /\ r \in Posted
  /\ review'[r] # NoReview /\ review'[r].replied
  /\ announced'[r].created = announced[r].created
  /\ announced'[r].replied = announced[r].replied + (IF request[q].first THEN 1 ELSE 0)

LEMMA ReviewMoves ==
  ASSUME ReportTypeOK, [ReportNext]_reportVars, NEW r \in Reviews
  PROVE  Kept(r) \/ Gone(r) \/ Written(r) \/ \E q \in Requests : Answered(q, r)
<1>0. /\ review \in [Reviews -> Review \cup {NoReview}]
      /\ announced \in [Reviews -> [created : Nat, replied : Nat]]
  BY DEF ReportTypeOK
<1>1. ASSUME NEW q \in Requests, WriteReview(q) PROVE Kept(r) \/ Written(r)
  <2> DEFINE new == [provider |-> request[q].to, author |-> request[q].who, replied |-> FALSE]
  <2>1. new \in Review
    BY <1>1 DEF WriteReview, Referred, ReportTypeOK, Review
  <2>2. new # NoReview /\ ~new.replied
    BY <2>1, ReportNullsAssumption
  <2>3. \/ UNCHANGED <<review, announced>>
        \/ \E n \in Reviews : /\ announced[n].created = 0
                              /\ review' = [review EXCEPT ![n] = new]
                              /\ announced' = [announced EXCEPT ![n].created = 1]
    BY <1>1 DEF WriteReview
  <2> HIDE DEF new
  <2> QED BY <1>0, <2>2, <2>3 DEF Kept, Written
<1>2. ASSUME NEW q \in Requests, Reply(q) PROVE Kept(r) \/ Answered(q, r)
  <2> DEFINE n == request[q].subject
  <2>1. n \in Reviews /\ review[n] \in Review
    BY <1>0, <1>2 DEF Reply, Posted
  <2>2. [review[n] EXCEPT !.replied = TRUE] \in Review /\ [review[n] EXCEPT !.replied = TRUE].replied
    BY <2>1 DEF Review
  <2>3. /\ request[q].at = "reply" /\ n \in Posted
        /\ review' = [review EXCEPT ![n] = [review[n] EXCEPT !.replied = TRUE]]
        /\ announced' = [announced EXCEPT ![n].replied = @ + (IF request[q].first THEN 1 ELSE 0)]
    BY <1>0, <1>2 DEF Reply
  <2>4. CASE r = n
    BY <1>0, <2>1, <2>2, <2>3, <2>4, ReportNullsAssumption DEF Answered
  <2>5. CASE r # n
    BY <1>0, <2>1, <2>3, <2>5 DEF Kept
  <2> QED BY <2>4, <2>5
<1>3. ASSUME NEW q \in Requests, TakeDown(q) PROVE Kept(r) \/ Gone(r)
  BY <1>3 DEF TakeDown, Kept, Gone
<1>4. ASSUME NEW u \in Accounts, Quit(u) PROVE Kept(r) \/ Gone(r)
  BY <1>4 DEF Quit, Kept, Gone
<1>5. ASSUME NEW q \in Requests, File(q) \/ Close(q) \/ Looking(q) PROVE Kept(r)
  BY <1>5, LookingKeeps DEF File, Close, Kept
<1>6. (\E a, p \in Accounts : Earn(a, p)) \/ (\E p \in Listings, as \in {"UP", "REJECTED", "REMOVED"} : Relisted(p, as)) \/ UNCHANGED reportVars
        => Kept(r)
  BY DEF Earn, Relisted, reportVars, Kept
<1> QED BY <1>1, <1>2, <1>3, <1>4, <1>5, <1>6, Steps DEF Acting

LEMMA RepliedNext == ReportTypeOK /\ RepliedInv /\ [ReportNext]_reportVars => RepliedInv'
<1> SUFFICES ASSUME ReportTypeOK, RepliedInv, [ReportNext]_reportVars PROVE RepliedInv'
  OBVIOUS
<1>0. announced \in [Reviews -> [created : Nat, replied : Nat]]
  BY DEF ReportTypeOK
<1>1. \A r \in Reviews : /\ review[r] # NoReview => announced[r].created = 1 /\ (review[r].replied = TRUE <=> announced[r].replied > 0)
                         /\ review[r] # NoReview => review[r].replied \in BOOLEAN
                         /\ announced[r].created = 0 => announced[r].replied = 0
                         /\ announced[r].created \in Nat /\ announced[r].replied \in Nat
  <2>1. \A r \in Reviews : review[r] # NoReview => review[r].replied \in BOOLEAN
    BY DEF ReportTypeOK, Review
  <2> QED BY <1>0, <2>1 DEF RepliedInv, IdsOnce, ReplyAnnounced, Posted
<1>2. \A q \in Requests : request[q].at = "reply" =>
        /\ request[q].subject \in Reviews /\ announced[request[q].subject].created = 1
        /\ ~request[q].first /\ review[request[q].subject] # NoReview => review[request[q].subject].replied = TRUE
  BY DEF RepliedInv, SawReply, Posted
<1>3. ASSUME NEW r \in Reviews
      PROVE  /\ review'[r] # NoReview => announced'[r].created = 1
             /\ review'[r] # NoReview => (review'[r].replied = TRUE <=> announced'[r].replied > 0)
             /\ announced'[r].created = 0 => announced'[r].replied = 0
             /\ announced[r].created = 1 => announced'[r].created = 1
             /\ announced[r].created = 1 /\ review'[r] # NoReview => review[r] # NoReview /\ (review[r].replied = TRUE => review'[r].replied = TRUE)
  <2>1. CASE Kept(r) \/ Gone(r)
    BY <1>1, <2>1 DEF Kept, Gone
  <2>2. CASE Written(r)
    BY <1>1, <2>2 DEF Written
  <2>3. CASE \E q \in Requests : Answered(q, r)
    <3>1. PICK q \in Requests : Answered(q, r)
      BY <2>3
    <3>2. review'[r].replied = TRUE /\ review[r] # NoReview /\ announced[r].created = 1
      <4>1. review'[r].replied \in BOOLEAN
        BY <3>1, TypeNext DEF Answered, ReportTypeOK, Review
      <4> QED BY <1>1, <3>1, <4>1 DEF Answered, Posted
    <3>3. announced'[r].created = 1 /\ announced'[r].replied > 0
      BY <1>1, <1>2, <3>1, <3>2 DEF Answered
    <3> QED BY <3>2, <3>3
  <2> QED BY <2>1, <2>2, <2>3, ReviewMoves
<1>4. IdsOnce' /\ ReplyAnnounced'
  <2>1. \A r \in Reviews : review'[r] # NoReview => review'[r].replied \in BOOLEAN
    BY TypeNext DEF ReportTypeOK, Review
  <2> QED BY <1>3, <2>1 DEF IdsOnce, ReplyAnnounced, Posted
<1>5. SawReply'
  <2> SUFFICES ASSUME NEW q \in Requests, request'[q].at = "reply"
               PROVE  /\ request'[q].subject \in Reviews /\ announced'[request'[q].subject].created = 1
                      /\ ~request'[q].first /\ review'[request'[q].subject] # NoReview => review'[request'[q].subject].replied = TRUE
    BY DEF SawReply, Posted
  <2>1. Fresh(q) /\ Unused.at # "reply"
    BY SlotsNext, UnusedRequest DEF SlotsMove
  <2>2. CASE request'[q] = request[q]
    BY <1>2, <1>3, <2>2
  <2>3. CASE /\ request'[q].subject \in Posted /\ request'[q].first = ~review[request'[q].subject].replied
             /\ UNCHANGED <<review, announced>>
    <3>1. request'[q].subject \in Reviews /\ review[request'[q].subject] # NoReview
      BY <2>3 DEF Posted
    <3>2. review[request'[q].subject].replied \in BOOLEAN
      BY <3>1 DEF ReportTypeOK, Review
    <3>3. ~request'[q].first => review[request'[q].subject].replied = TRUE
      BY <2>3, <3>2
    <3>4. review' = review /\ announced' = announced
      BY <2>3
    <3> QED BY <1>1, <3>1, <3>3, <3>4
  <2> QED BY <2>1, <2>2, <2>3 DEF Fresh
<1> QED BY <1>4, <1>5 DEF RepliedInv

\* The author of a review hears of its reply, and of none that was not given.
THEOREM ReplyAnnouncedHolds == ReportSpec => []ReplyAnnounced
<1>1. ReportInit => RepliedInv
  BY UnusedRequest DEF ReportInit, RepliedInv, IdsOnce, SawReply, ReplyAnnounced, Posted
<1>2. RepliedInv => ReplyAnnounced
  BY DEF RepliedInv
<1> QED BY <1>1, <1>2, RepliedNext, TypeCorrect, PTL DEF ReportSpec
=============================================================================
