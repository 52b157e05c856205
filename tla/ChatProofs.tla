----------------------------- MODULE ChatProofs -----------------------------
(***************************************************************************)
(* Proofs about Chat, for any people, listings, callers and bounds.  What  *)
(* a step may do to one thread is said once (Moves); each property is then *)
(* a fact about the row R and the messages M of one thread.                *)
(***************************************************************************)
EXTENDS Chat, FiniteSetTheorems, TLAPS

-----------------------------------------------------------------------------
(* Types. *)

LEMMA OtherRole == \A r \in Role : Other(r) \in Role /\ Other(r) # r /\ Other(Other(r)) = r
BY DEF Other, Role

LEMMA EmptyRow == Empty \in Row
BY DEF Empty, Row, Role

\* Marking keeps every message but its read_at, and sets that only where it was not set.
LEMMA MarkedMessages ==
  ASSUME NEW M \in Seq(Message), NEW r \in Role, NEW t \in Time
  PROVE  /\ Marked(M, r, t) \in Seq(Message)
         /\ Len(Marked(M, r, t)) = Len(M)
         /\ \A i \in 1..Len(M) :
              /\ Marked(M, r, t)[i].from = M[i].from
              /\ Marked(M, r, t)[i].text = M[i].text
              /\ Marked(M, r, t)[i].born = M[i].born
              /\ Marked(M, r, t)[i].read = IF M[i].from = r \/ M[i].read # Unread THEN M[i].read ELSE t
<1> DEFINE N == Marked(M, r, t)
<1>1. DOMAIN N = 1..Len(M) /\ \A i \in 1..Len(M) : N[i] = IF M[i].from = r \/ M[i].read # Unread THEN M[i] ELSE [M[i] EXCEPT !.read = t]
  BY DEF Marked
<1>2. \A i \in 1..Len(M) : M[i] \in Message
  OBVIOUS
<1>3. \A i \in 1..Len(M) :
        /\ N[i] \in Message
        /\ N[i].from = M[i].from /\ N[i].text = M[i].text /\ N[i].born = M[i].born
        /\ N[i].read = IF M[i].from = r \/ M[i].read # Unread THEN M[i].read ELSE t
  BY <1>1, <1>2 DEF Message
<1>4. N = [i \in 1..Len(M) |-> N[i]]
  BY <1>1 DEF Marked
<1>5. N \in Seq(Message) /\ Len(N) = Len(M)
  BY <1>3, <1>4
<1> QED BY <1>3, <1>5

LEMMA SummedRow ==
  ASSUME NEW R \in Row, NEW m \in Message
  PROVE  Summed(R, m) \in Row
<1>1. m.from \in Role /\ Other(m.from) \in Role /\ m.born \in Time /\ m.text \in BOOLEAN
  BY OtherRole DEF Message
<1>2. /\ R.unread \in [Role -> Nat]
      /\ R.asked \in Time \cup {Never} /\ R.answered \in Time \cup {Never}
  BY DEF Row
<1>3. [R.unread EXCEPT ![m.from] = 0, ![Other(m.from)] = @ + 1] \in [Role -> Nat]
  BY <1>1, <1>2
<1>4. [at |-> m.born, from |-> m.from, text |-> m.text] \in Last
  BY <1>1 DEF Last
<1> QED BY <1>1, <1>2, <1>3, <1>4 DEF Summed, Row

-----------------------------------------------------------------------------
(* What a step may do to the thread k. *)

Stays(k) == row'[k] = row[k] /\ log'[k] = log[k]
Opens(k) == row[k] = NoThread /\ log[k] = <<>> /\ row'[k] = Empty /\ log'[k] = <<>>
Gains(k) ==
  \E m \in Message, R \in Row :
    /\ m.read = Unread /\ m.born <= clock
    /\ R = row[k] \/ (row[k] = NoThread /\ log[k] = <<>> /\ R = Empty)
    /\ row'[k] = Summed(R, m)
    /\ log'[k] = Marked(Append(log[k], m), m.from, m.born)
Reads(k) ==
  \E r \in Role, t \in Time :
    /\ row[k] \in Row
    /\ row'[k] = [row[k] EXCEPT !.unread[r] = 0]
    /\ log'[k] = Marked(log[k], r, t)
Ends(k) == row'[k] = NoThread /\ log'[k] = <<>>
Moved(k) == Stays(k) \/ Opens(k) \/ Gains(k) \/ Reads(k) \/ Ends(k)

LEMMA MarkedNothing == \A r, t : Marked(<<>>, r, t) = <<>>
<1>1. \A r, t : DOMAIN Marked(<<>>, r, t) = {}
  BY DEF Marked
<1> QED BY <1>1 DEF Marked

LEMMA Moves == ChatTypeOK /\ [ChatNext]_chatVars => \A k \in Key : Moved(k)
<1> SUFFICES ASSUME ChatTypeOK, [ChatNext]_chatVars, NEW k \in Key PROVE Moved(k)
  OBVIOUS
<1> USE DEF Moved
<1>0. /\ row \in [Key -> Row \cup {NoThread}] /\ log \in [Key -> Seq(Message)]
      /\ row[k] = NoThread => log[k] = <<>>
      /\ clock \in Time
  BY DEF ChatTypeOK
<1>t. \A c \in Callers : /\ call[c].who \in Role /\ call[c].text \in BOOLEAN /\ call[c].since \in Time
                         /\ call[c].at # "idle" => call[c].key \in Key /\ call[c].since <= clock
  BY DEF ChatTypeOK, Call
<1>1. CASE UNCHANGED <<row, log>>
  BY <1>1 DEF Stays
<1>2. ASSUME NEW c \in Callers, NEW removed \in BOOLEAN, Ensure(c, removed) PROVE Moved(k)
  <2>1. call[c].key \in Key
    BY <1>2, <1>t DEF Ensure
  <2>2. row'[k] = (IF k = call[c].key /\ row[k] = NoThread THEN Empty ELSE row[k]) /\ log' = log
    BY <1>2, <1>0, <2>1 DEF Ensure
  <2> QED BY <2>2, <1>0 DEF Stays, Opens
<1>3. ASSUME NEW c \in Callers, Write(c) PROVE Moved(k)
  <2> DEFINE h == call[c].key
             m == [from |-> call[c].who, text |-> call[c].text, born |-> call[c].since, read |-> Unread]
             R == IF row[h] = NoThread THEN Empty ELSE row[h]
  <2>1. h \in Key /\ m \in Message /\ m.read = Unread /\ m.born <= clock
    BY <1>3, <1>t DEF Write, Message
  <2>2. R \in Row
    BY <2>1, <1>0, EmptyRow
  <2>3. Written(h, R, m)
    BY <1>3 DEF Write
  <2>4. CASE k = h
    <3>1. row'[k] = Summed(R, m) /\ log'[k] = Marked(Append(log[k], m), m.from, m.born)
      BY <2>1, <2>3, <2>4, <1>0 DEF Written
    <3>2. R = row[k] \/ (row[k] = NoThread /\ log[k] = <<>> /\ R = Empty)
      BY <2>4, <1>0
    <3> HIDE DEF m, R
    <3> QED BY <3>1, <3>2, <2>1, <2>2 DEF Gains
  <2>5. CASE k # h
    BY <2>1, <2>3, <2>5, <1>0 DEF Written, Stays
  <2> QED BY <2>4, <2>5
<1>4. ASSUME NEW c \in Callers, Mark(c) PROVE Moved(k)
  <2> DEFINE h == call[c].key
  <2>1. h \in Key /\ call[c].who \in Role /\ call[c].since \in Time
    BY <1>4, <1>t DEF Mark
  <2>2. CASE k = h /\ row[k] # NoThread
    <3>1. row'[k] = [row[k] EXCEPT !.unread[call[c].who] = 0] /\ log'[k] = Marked(log[k], call[c].who, call[c].since)
      BY <1>4, <2>1, <2>2, <1>0 DEF Mark
    <3> QED BY <3>1, <2>1, <2>2, <1>0 DEF Reads
  <2>3. CASE k = h /\ row[k] = NoThread
    <3>1. row'[k] = NoThread /\ log'[k] = Marked(log[k], call[c].who, call[c].since)
      BY <1>4, <2>1, <2>3, <1>0 DEF Mark
    <3> QED BY <3>1, <2>3, <1>0, MarkedNothing DEF Ends
  <2>4. CASE k # h
    BY <1>4, <2>1, <2>4, <1>0 DEF Mark, Stays
  <2> QED BY <2>2, <2>3, <2>4
<1>5. ASSUME NEW u \in Users, Leave(u) PROVE Moved(k)
  BY <1>5, <1>0 DEF Leave, Stays, Ends
<1>6. CASE ChatNext
  <2>1. ASSUME NEW c \in Callers, NEW q \in Key, NEW say \in BOOLEAN, NEW live \in BOOLEAN, Open(c, q, say, live) PROVE Moved(k)
    BY <2>1, <1>1 DEF Open
  <2>2. ASSUME NEW c \in Callers, NEW q \in Key, NEW r \in Role, Send(c, q, r) \/ Deal(c, q, r) \/ Look(c, q, r) PROVE Moved(k)
    BY <2>2, <1>1 DEF Send, Deal, Look
  <2>3. ASSUME NEW c \in Callers, Say(c) \/ Stop(c) PROVE Moved(k)
    BY <2>3, <1>1 DEF Say, Stop
  <2>4. CASE Tick
    BY <2>4, <1>1 DEF Tick
  <2> QED BY <1>6, <1>2, <1>3, <1>4, <1>5, <2>1, <2>2, <2>3, <2>4 DEF ChatNext, Participant, Around
<1>7. CASE UNCHANGED chatVars
  BY <1>7, <1>1 DEF chatVars
<1> QED BY <1>6, <1>7
-----------------------------------------------------------------------------
(* Type correctness. *)

\* The rows and messages of one thread stay well typed, and a thread without a row has no message.
LEMMA ThreadTyped ==
  ChatTypeOK /\ [ChatNext]_chatVars =>
    \A k \in Key : /\ row'[k] \in Row \cup {NoThread} /\ log'[k] \in Seq(Message)
                   /\ row'[k] = NoThread => log'[k] = <<>>
<1> SUFFICES ASSUME ChatTypeOK, [ChatNext]_chatVars, NEW k \in Key
             PROVE  /\ row'[k] \in Row \cup {NoThread} /\ log'[k] \in Seq(Message)
                    /\ row'[k] = NoThread => log'[k] = <<>>
  OBVIOUS
<1>0. row[k] \in Row \cup {NoThread} /\ log[k] \in Seq(Message) /\ (row[k] = NoThread => log[k] = <<>>)
  BY DEF ChatTypeOK
<1>1. Moved(k)
  BY Moves
<1>2. CASE Gains(k)
  <2>1. PICK m \in Message, R \in Row : row'[k] = Summed(R, m) /\ log'[k] = Marked(Append(log[k], m), m.from, m.born)
    BY <1>2 DEF Gains
  <2>2. Append(log[k], m) \in Seq(Message) /\ m.from \in Role /\ m.born \in Time
    BY <1>0 DEF Message
  <2>3. log'[k] \in Seq(Message)
    <3> DEFINE M == Append(log[k], m)
    <3>1. \A r \in Role, t \in Time : Marked(M, r, t) \in Seq(Message)
      BY <2>2, MarkedMessages
    <3> QED BY <2>1, <2>2, <3>1
  <2>4. row'[k] \in Row
    BY <2>1, SummedRow
  <2> QED BY <2>3, <2>4, ChatNullsAssumption
<1>3. CASE Reads(k)
  <2>1. PICK r \in Role, t \in Time : /\ row[k] \in Row /\ row'[k] = [row[k] EXCEPT !.unread[r] = 0]
                                      /\ log'[k] = Marked(log[k], r, t)
    BY <1>3 DEF Reads
  <2>2. row'[k] \in Row
    <3>1. row[k].unread \in [Role -> Nat]
      BY <2>1 DEF Row
    <3>2. [row[k].unread EXCEPT ![r] = 0] \in [Role -> Nat]
      BY <3>1
    <3>3. row'[k] = [unread |-> [row[k].unread EXCEPT ![r] = 0], last |-> row[k].last,
                     asked |-> row[k].asked, answered |-> row[k].answered]
      BY <2>1 DEF Row
    <3> QED BY <2>1, <3>2, <3>3 DEF Row
  <2>3. log'[k] \in Seq(Message)
    BY <1>0, <2>1, MarkedMessages
  <2> QED BY <2>2, <2>3, ChatNullsAssumption
<1>4. CASE Stays(k)
  BY <1>0, <1>4 DEF Stays
<1>5. CASE Opens(k) \/ Ends(k)
  <2>1. <<>> \in Seq(Message)
    OBVIOUS
  <2>2. Empty \in Row /\ Empty # NoThread
    BY EmptyRow, ChatNullsAssumption
  <2> QED BY <1>5, <2>1, <2>2 DEF Opens, Ends
<1> QED BY <1>1, <1>2, <1>3, <1>4, <1>5 DEF Moved

LEMMA TypeInit == ChatInit => ChatTypeOK
<1>1. Free \in Call
  BY ChatBoundsAssumption DEF Free, Call, Role, Time
<1>2. <<>> \in Seq(Message)
  OBVIOUS
<1> QED BY <1>1, <1>2, ChatBoundsAssumption DEF ChatInit, ChatTypeOK, Time, Free

LEMMA TypeNext == ChatTypeOK /\ [ChatNext]_chatVars => ChatTypeOK'
<1> SUFFICES ASSUME ChatTypeOK, [ChatNext]_chatVars PROVE ChatTypeOK'
  OBVIOUS
<1>a. \A k \in Key : /\ row'[k] \in Row \cup {NoThread} /\ log'[k] \in Seq(Message)
                     /\ row'[k] = NoThread => log'[k] = <<>>
  BY ThreadTyped
<1>b. /\ people \subseteq Users /\ row \in [Key -> Row \cup {NoThread}] /\ log \in [Key -> Seq(Message)]
      /\ \A k \in Key : row[k] # NoThread => {Person(k, r) : r \in Role} \subseteq people
      /\ contacts \subseteq Key /\ clock \in Time /\ call \in [Callers -> Call]
      /\ \A c \in Callers : call[c].at # "idle" => call[c].key \in Key /\ call[c].since <= clock
  BY DEF ChatTypeOK
<1>c. clock \in Nat /\ 0 \in Time
  BY <1>b, ChatBoundsAssumption DEF Time
<1>d. Free \in Call /\ Free.at = "idle"
  BY <1>c DEF Free, Call, Role
<1>e. \A k \in Key : BothExist(k) => {Person(k, r) : r \in Role} \subseteq people
  BY DEF BothExist, Role
<1> DEFINE Calls == /\ call' \in [Callers -> Call]
                    /\ \A c \in Callers : call'[c].at # "idle" => call'[c].key \in Key /\ call'[c].since <= clock'
           Funs == row' = [k \in Key |-> row'[k]] /\ log' = [k \in Key |-> log'[k]]
           Theirs == \A k \in Key : row'[k] # NoThread => {Person(k, r) : r \in Role} \subseteq people'
           Rest == people' \subseteq Users /\ contacts' \subseteq Key /\ clock' \in Time
<1>x. ASSUME Calls, Funs, Theirs, Rest PROVE ChatTypeOK'
  <2>1. row' \in [Key -> Row \cup {NoThread}] /\ log' \in [Key -> Seq(Message)]
    BY <1>a, <1>x
  <2> QED BY <1>a, <1>x, <2>1 DEF ChatTypeOK
<1>y. ASSUME UNCHANGED <<people, row, log, contacts, clock>>, Calls PROVE ChatTypeOK'
  BY <1>b, <1>x, <1>y
<1>w. ASSUME NEW c \in Callers, NEW new \in Call, call' = [call EXCEPT ![c] = new], clock' = clock,
             new.at # "idle" => new.key \in Key /\ new.since <= clock
      PROVE  Calls
  <2>1. call' \in [Callers -> Call]
    BY <1>b, <1>w
  <2>2. ASSUME NEW d \in Callers, call'[d].at # "idle" PROVE call'[d].key \in Key /\ call'[d].since <= clock'
    BY <1>b, <1>w, <2>2
  <2> QED BY <2>1, <2>2
<1>z. ASSUME NEW c \in Callers, call' = [call EXCEPT ![c] = Free], clock' = clock PROVE Calls
  <2> HIDE DEF Calls
  <2> QED BY <1>d, <1>w, <1>z
<1>v. ASSUME NEW c \in Callers, NEW at \in {"append", "mark"}, NEW k \in Key, NEW r \in Role, NEW text \in BOOLEAN,
             Begins(c, at, k, r, text), clock' = clock
      PROVE  Calls
  <2> DEFINE new == [at |-> at, key |-> k, who |-> r, text |-> text, known |-> FALSE, since |-> clock]
  <2>1. new \in Call /\ new.key = k /\ new.since = clock
    BY <1>b DEF Call
  <2>2. call' = [call EXCEPT ![c] = new] /\ clock <= clock
    BY <1>v, <1>c DEF Begins
  <2> HIDE DEF Calls, new
  <2> QED BY <1>v, <1>w, <2>1, <2>2
<1>1. ASSUME NEW c \in Callers, NEW k \in Key, NEW say \in BOOLEAN, NEW live \in BOOLEAN, Open(c, k, say, live) PROVE ChatTypeOK'
  <2> DEFINE new == [at |-> "ensure", key |-> k, who |-> "customer", text |-> say, known |-> row[k] # NoThread, since |-> 0]
  <2>1. new \in Call /\ new.key = k /\ new.since = 0
    BY <1>c DEF Call, Role
  <2>2. call' = [call EXCEPT ![c] = new] /\ 0 <= clock /\ UNCHANGED <<people, row, log, contacts, clock>>
    BY <1>1, <1>c DEF Open
  <2> HIDE DEF Calls, new
  <2>3. Calls
    BY <1>w, <2>1, <2>2
  <2> QED BY <1>y, <2>2, <2>3
<1>2. ASSUME NEW c \in Callers, NEW removed \in BOOLEAN, Ensure(c, removed) PROVE ChatTypeOK'
  <2> DEFINE h == call[c].key
  <2>0. h \in Key /\ call[c] \in Call /\ BothExist(h) /\ call[c].since <= clock /\ clock' = clock
    BY <1>2, <1>b DEF Ensure
  <2>1. ASSUME call[c].text PROVE Calls
    <3> DEFINE new == [call[c] EXCEPT !.at = "say", !.known = FALSE]
    <3>1. new \in Call /\ new.key = h /\ new.since = call[c].since
      BY <2>0 DEF Call
    <3>2. call' = [call EXCEPT ![c] = new]
      BY <1>2, <2>1, <1>b DEF Ensure
    <3> HIDE DEF Calls, new
    <3> QED BY <1>w, <2>0, <3>1, <3>2
  <2>2. ASSUME ~call[c].text PROVE Calls
    <3>1. call' = [call EXCEPT ![c] = Free]
      BY <1>2, <2>2, <1>b DEF Ensure
    <3> HIDE DEF Calls
    <3> QED BY <3>1, <2>0, <1>z
  <2>3. Calls
    <3> HIDE DEF Calls
    <3> QED BY <2>0, <2>1, <2>2 DEF Call
  <2>4. Funs /\ Rest
    BY <1>2, <1>b, <2>0 DEF Ensure
  <2>5. Theirs
    <3> SUFFICES ASSUME NEW k \in Key, row'[k] # NoThread PROVE {Person(k, r) : r \in Role} \subseteq people'
      OBVIOUS
    <3>1. CASE k = h
      BY <1>2, <2>0, <1>e, <3>1 DEF Ensure
    <3>2. CASE k # h
      BY <1>2, <1>b, <2>0, <3>2 DEF Ensure
    <3> QED BY <3>1, <3>2
  <2> QED BY <2>3, <2>4, <2>5, <1>x
<1>3. ASSUME NEW c \in Callers, Say(c) PROVE ChatTypeOK'
  <2> DEFINE new == [call[c] EXCEPT !.at = "append", !.since = clock]
  <2>1. call[c] \in Call /\ call[c].key \in Key
    BY <1>3, <1>b DEF Say
  <2>2. new \in Call /\ new.key = call[c].key /\ new.since = clock
    BY <2>1, <1>b DEF Call
  <2>3. call' = [call EXCEPT ![c] = new] /\ clock' = clock
    BY <1>3, <1>b DEF Say
  <2> HIDE DEF new
  <2>4. Calls
    BY <1>b, <1>c, <2>1, <2>2, <2>3
  <2> QED BY <1>3, <1>y, <2>4 DEF Say
<1>4. ASSUME NEW c \in Callers, NEW k \in Key, NEW r \in Role, Send(c, k, r) \/ Deal(c, k, r) \/ Look(c, k, r) PROVE ChatTypeOK'
  <2>1. UNCHANGED <<people, row, log, contacts, clock>>
    BY <1>4 DEF Send, Deal, Look
  <2>2. \E at \in {"append", "mark"}, text \in BOOLEAN : Begins(c, at, k, r, text)
    BY <1>4 DEF Send, Deal, Look
  <2>3. Calls
    BY <2>1, <2>2, <1>v
  <2> QED BY <2>1, <2>3, <1>y
<1>5. ASSUME NEW c \in Callers, Write(c) PROVE ChatTypeOK'
  <2> DEFINE h == call[c].key
  <2>0. h \in Key /\ call[c] \in Call
    BY <1>5, <1>b DEF Write
  <2>1. Funs /\ \A k \in Key \ {h} : row'[k] = row[k]
    BY <1>5, <1>b, <2>0 DEF Write, Written
  <2>2. {Person(h, r) : r \in Role} \subseteq people
    BY <1>5, <1>b, <1>e, <2>0 DEF Write
  <2>3. people' = people /\ Rest /\ Calls
    BY <1>5, <1>b, <1>z DEF Write
  <2>4. Theirs
    BY <1>b, <2>1, <2>2, <2>3
  <2> QED BY <1>x, <2>1, <2>3, <2>4
<1>6. ASSUME NEW c \in Callers, Mark(c) PROVE ChatTypeOK'
  <2> DEFINE h == call[c].key
  <2>0. h \in Key
    BY <1>6, <1>b DEF Mark
  <2>1. Funs /\ \A k \in Key : row[k] = NoThread => row'[k] = NoThread
    BY <1>6, <1>b, <2>0 DEF Mark
  <2>2. people' = people /\ Rest /\ Calls
    BY <1>6, <1>b, <1>z DEF Mark
  <2>3. Theirs
    BY <1>b, <2>1, <2>2
  <2> QED BY <1>x, <2>1, <2>2, <2>3
<1>7. ASSUME NEW c \in Callers, Stop(c) PROVE ChatTypeOK'
  BY <1>7, <1>y, <1>z DEF Stop
<1>8. ASSUME NEW u \in Users, Leave(u) PROVE ChatTypeOK'
  <2>1. Funs /\ Rest /\ Calls
    BY <1>8, <1>b DEF Leave
  <2>2. Theirs
    <3> SUFFICES ASSUME NEW k \in Key, row'[k] # NoThread PROVE {Person(k, r) : r \in Role} \subseteq people'
      OBVIOUS
    <3>1. row'[k] = row[k] /\ u \notin {Person(k, "customer"), Person(k, "provider")}
      BY <1>8 DEF Leave
    <3>2. {Person(k, r) : r \in Role} \subseteq people
      BY <1>b, <3>1
    <3> QED BY <1>8, <3>1, <3>2 DEF Leave, Role
  <2> QED BY <1>x, <2>1, <2>2
<1>9. CASE Tick
  <2>1. Calls
    <3>1. \A c \in Callers : call[c].since \in Nat
      BY <1>b, ChatBoundsAssumption DEF Call, Time
    <3> QED BY <1>9, <1>b, <1>c, <3>1 DEF Tick
  <2>2. clock' \in Time
    BY <1>9, <1>c, ChatBoundsAssumption DEF Tick, Time
  <2> QED BY <1>9, <1>b, <1>x, <2>1, <2>2 DEF Tick
<1>10. CASE UNCHANGED chatVars
  BY <1>10, <1>b, <1>x DEF chatVars
<1> QED BY <1>1, <1>2, <1>3, <1>4, <1>5, <1>6, <1>7, <1>8, <1>9, <1>10 DEF ChatNext, Participant, Around

\* Every reachable state is well typed: among others, no thread outlives its two people and no
\* message its thread.
THEOREM TypeCorrect == ChatSpec => []ChatTypeOK
BY TypeInit, TypeNext, PTL DEF ChatSpec
-----------------------------------------------------------------------------
(* The messages N of a thread after the append of m to M. *)

LEMMA AppendedMessages ==
  ASSUME NEW M \in Seq(Message), NEW m \in Message, m.read = Unread
  PROVE  LET N == Marked(Append(M, m), m.from, m.born) IN
         /\ N \in Seq(Message) /\ Len(N) = Len(M) + 1 /\ N # <<>>
         /\ \A i \in 1..Len(M) :
              /\ N[i].from = M[i].from /\ N[i].text = M[i].text /\ N[i].born = M[i].born
              /\ N[i].read = IF M[i].from = m.from \/ M[i].read # Unread THEN M[i].read ELSE m.born
         /\ N[Len(M) + 1].from = m.from /\ N[Len(M) + 1].text = m.text
         /\ N[Len(M) + 1].born = m.born /\ N[Len(M) + 1].read = Unread
<1> DEFINE A == Append(M, m)
           N == Marked(A, m.from, m.born)
<1>1. A \in Seq(Message) /\ Len(A) = Len(M) + 1 /\ A[Len(M) + 1] = m /\ \A i \in 1..Len(M) : A[i] = M[i]
  OBVIOUS
<1>2. m.from \in Role /\ m.born \in Time
  BY DEF Message
<1>3. Len(M) \in Nat
  OBVIOUS
<1> HIDE DEF A
<1>4. /\ N \in Seq(Message) /\ Len(N) = Len(A)
      /\ \A i \in 1..Len(A) :
           /\ N[i].from = A[i].from /\ N[i].text = A[i].text /\ N[i].born = A[i].born
           /\ N[i].read = IF A[i].from = m.from \/ A[i].read # Unread THEN A[i].read ELSE m.born
  BY <1>1, <1>2, MarkedMessages
<1> HIDE DEF N
<1>5. /\ N \in Seq(Message) /\ Len(N) = Len(M) + 1 /\ N # <<>>
      /\ \A i \in 1..Len(M) :
           /\ N[i].from = M[i].from /\ N[i].text = M[i].text /\ N[i].born = M[i].born
           /\ N[i].read = IF M[i].from = m.from \/ M[i].read # Unread THEN M[i].read ELSE m.born
      /\ N[Len(M) + 1].from = m.from /\ N[Len(M) + 1].text = m.text
      /\ N[Len(M) + 1].born = m.born /\ N[Len(M) + 1].read = Unread
  BY <1>1, <1>3, <1>4
<1> QED BY <1>5 DEF N, A

-----------------------------------------------------------------------------
(* Read marks. *)

LEMMA ReadBelowMarked ==
  ASSUME NEW M \in Seq(Message), NEW r \in Role, NEW t \in Time, ReadBelow(M)
  PROVE  ReadBelow(Marked(M, r, t))
<1> DEFINE N == Marked(M, r, t)
<1>1. /\ N \in Seq(Message) /\ Len(N) = Len(M)
      /\ \A i \in 1..Len(M) :
           /\ N[i].from = M[i].from
           /\ N[i].read = IF M[i].from = r \/ M[i].read # Unread THEN M[i].read ELSE t
  BY MarkedMessages
<1> HIDE DEF N
<1>2. DOMAIN M = 1..Len(M) /\ DOMAIN N = 1..Len(M)
  BY <1>1
<1>3. ReadBelow(N)
  BY <1>1, <1>2, ChatNullsAssumption DEF ReadBelow
<1> QED BY <1>3 DEF N

LEMMA ReadBelowAppended ==
  ASSUME NEW M \in Seq(Message), NEW m \in Message, m.read = Unread, ReadBelow(M)
  PROVE  ReadBelow(Marked(Append(M, m), m.from, m.born))
<1> DEFINE N == Marked(Append(M, m), m.from, m.born)
<1>1. /\ N \in Seq(Message) /\ Len(N) = Len(M) + 1
      /\ \A i \in 1..Len(M) :
           /\ N[i].from = M[i].from
           /\ N[i].read = IF M[i].from = m.from \/ M[i].read # Unread THEN M[i].read ELSE m.born
      /\ N[Len(M) + 1].from = m.from /\ N[Len(M) + 1].read = Unread
  BY AppendedMessages
<1> HIDE DEF N
<1>2. DOMAIN M = 1..Len(M) /\ DOMAIN N = 1..(Len(M) + 1) /\ Len(M) \in Nat
  BY <1>1
<1>3. m.born # Unread
  BY ChatNullsAssumption DEF Message
<1>4. ReadBelow(N)
  BY <1>1, <1>2, <1>3 DEF ReadBelow
<1> QED BY <1>4 DEF N

LEMMA ReadBelowNext == ChatTypeOK /\ NothingUnreadBelow /\ [ChatNext]_chatVars => NothingUnreadBelow'
<1> SUFFICES ASSUME ChatTypeOK, NothingUnreadBelow, [ChatNext]_chatVars, NEW k \in Key PROVE ReadBelow(log'[k])
  BY DEF NothingUnreadBelow
<1>1. log[k] \in Seq(Message) /\ ReadBelow(log[k])
  BY DEF ChatTypeOK, NothingUnreadBelow
<1>2. ReadBelow(<<>>)
  BY DEF ReadBelow
<1>3. Moved(k)
  BY Moves
<1> QED BY <1>1, <1>2, <1>3, ReadBelowMarked, ReadBelowAppended DEF Moved, Stays, Opens, Gains, Reads, Ends

\* Nothing lies unread below a message that was read or that the other side wrote, however
\* reads and appends overtake one another.
THEOREM NothingUnreadBelowHolds == ChatSpec => []NothingUnreadBelow
<1>1. ChatInit => NothingUnreadBelow
  BY DEF ChatInit, NothingUnreadBelow, ReadBelow
<1> QED BY <1>1, ReadBelowNext, TypeCorrect, PTL DEF ChatSpec

-----------------------------------------------------------------------------
(* A thread that stays only grows. *)

LEMMA ThreadGrows == ChatTypeOK /\ [ChatNext]_chatVars => \A k \in Key : Grows(k)
<1> SUFFICES ASSUME ChatTypeOK, [ChatNext]_chatVars, NEW k \in Key, row[k] # NoThread PROVE Grows(k)
  BY DEF Grows
<1>0. log[k] \in Seq(Message) /\ row[k] \in Row
  BY DEF ChatTypeOK
<1>1. DOMAIN log[k] = 1..Len(log[k]) /\ Len(log[k]) \in Nat /\ \A i \in DOMAIN log[k] : log[k][i] \in Message
  BY <1>0
<1>2. CASE Gains(k)
  <2>1. PICK m \in Message : /\ m.read = Unread /\ row'[k] = Summed(row[k], m)
                             /\ log'[k] = Marked(Append(log[k], m), m.from, m.born)
    BY <1>2 DEF Gains
  <2>2. /\ Len(log'[k]) = Len(log[k]) + 1
        /\ \A i \in 1..Len(log[k]) :
             /\ log'[k][i].from = log[k][i].from /\ log'[k][i].text = log[k][i].text /\ log'[k][i].born = log[k][i].born
             /\ log'[k][i].read = IF log[k][i].from = m.from \/ log[k][i].read # Unread THEN log[k][i].read ELSE m.born
    <3> DEFINE N == Marked(Append(log[k], m), m.from, m.born)
    <3>1. /\ Len(N) = Len(log[k]) + 1
          /\ \A i \in 1..Len(log[k]) :
               /\ N[i].from = log[k][i].from /\ N[i].text = log[k][i].text /\ N[i].born = log[k][i].born
               /\ N[i].read = IF log[k][i].from = m.from \/ log[k][i].read # Unread THEN log[k][i].read ELSE m.born
      BY <1>0, <2>1, AppendedMessages
    <3> QED BY <2>1, <3>1
  <2>3. row[k].asked \in {Never, row'[k].asked} /\ row[k].answered \in {Never, row'[k].answered}
    BY <2>1 DEF Summed
  <2> QED BY <1>1, <2>2, <2>3 DEF Grows, Kept
<1>3. CASE Reads(k)
  <2>1. PICK r \in Role, t \in Time : row'[k] = [row[k] EXCEPT !.unread[r] = 0] /\ log'[k] = Marked(log[k], r, t)
    BY <1>3 DEF Reads
  <2>2. /\ Len(log'[k]) = Len(log[k])
        /\ \A i \in 1..Len(log[k]) :
             /\ log'[k][i].from = log[k][i].from /\ log'[k][i].text = log[k][i].text /\ log'[k][i].born = log[k][i].born
             /\ log'[k][i].read = IF log[k][i].from = r \/ log[k][i].read # Unread THEN log[k][i].read ELSE t
    BY <1>0, <2>1, MarkedMessages
  <2>3. row'[k].asked = row[k].asked /\ row'[k].answered = row[k].answered
    BY <1>0, <2>1 DEF Row
  <2> QED BY <1>1, <2>2, <2>3 DEF Grows, Kept
<1>4. CASE Stays(k) \/ Opens(k) \/ Ends(k)
  BY <1>1, <1>4 DEF Stays, Opens, Ends, Grows, Kept
<1> QED BY <1>2, <1>3, <1>4, Moves DEF Moved

\* No message changes, no read_at moves and no answer is taken back while the thread exists.
THEOREM ThreadStandsHolds == ChatSpec => ThreadStands
<1>1. ChatTypeOK /\ [ChatNext]_chatVars => [\A k \in Key : Grows(k)]_chatVars
  BY ThreadGrows
<1> QED BY <1>1, TypeCorrect, PTL DEF ChatSpec, ThreadStands
-----------------------------------------------------------------------------
(* Counters. *)

Counted(R, M) == \A r \in Role : R.unread[r] = Cardinality(Unseen(M, r))

LEMMA CountedEmpty == Counted(Empty, <<>>)
<1>1. \A r \in Role : Unseen(<<>>, r) = {} /\ Empty.unread[r] = 0
  BY DEF Unseen, Empty
<1> QED BY <1>1, FS_EmptySet DEF Counted

LEMMA UnseenFinite == \A M \in Seq(Message), r \in Role : IsFiniteSet(Unseen(M, r))
<1> TAKE M \in Seq(Message), r \in Role
<1>1. IsFiniteSet(1..Len(M))
  BY FS_Interval
<1>2. Unseen(M, r) \subseteq 1..Len(M)
  BY DEF Unseen
<1> QED BY <1>1, <1>2, FS_Subset

\* Appending m empties what its writer has not read and adds m to what the other has not.
LEMMA CountedAppended ==
  ASSUME NEW M \in Seq(Message), NEW R \in Row, NEW m \in Message, m.read = Unread, Counted(R, M)
  PROVE  Counted(Summed(R, m), Marked(Append(M, m), m.from, m.born))
<1> DEFINE N == Marked(Append(M, m), m.from, m.born)
           w == m.from
           n == Len(M)
<1>1. /\ N \in Seq(Message) /\ Len(N) = n + 1
      /\ \A i \in 1..n :
           /\ N[i].from = M[i].from
           /\ N[i].read = IF M[i].from = w \/ M[i].read # Unread THEN M[i].read ELSE m.born
      /\ N[n + 1].from = w /\ N[n + 1].read = Unread
  BY AppendedMessages
<1>2. w \in Role /\ Other(w) \in Role /\ Other(w) # w /\ Other(Other(w)) = w /\ m.born # Unread
      /\ Role = {w, Other(w)}
  BY ChatNullsAssumption DEF Message, Other, Role
<1>3. n \in Nat /\ \A i \in 1..n : M[i].from \in Role
  <2>1. n \in Nat /\ \A i \in 1..n : M[i] \in Message
    OBVIOUS
  <2> QED BY <2>1 DEF Message
<1> HIDE DEF N, w, n
<1>4. DOMAIN N = 1..(n + 1) /\ DOMAIN M = 1..n
  BY <1>1 DEF n
<1>5. Unseen(N, w) = {}
  BY <1>1, <1>2, <1>3, <1>4 DEF Unseen
<1>6. Unseen(N, Other(w)) = Unseen(M, Other(w)) \cup {n + 1} /\ n + 1 \notin Unseen(M, Other(w))
  <2>1. \A i \in 1..n : i \in Unseen(N, Other(w)) <=> i \in Unseen(M, Other(w))
    BY <1>1, <1>2, <1>3, <1>4 DEF Unseen
  <2>2. n + 1 \in Unseen(N, Other(w))
    BY <1>1, <1>2, <1>3, <1>4 DEF Unseen
  <2>3. Unseen(N, Other(w)) \subseteq 1..(n + 1) /\ Unseen(M, Other(w)) \subseteq 1..n
    BY <1>4 DEF Unseen
  <2> QED BY <1>3, <2>1, <2>2, <2>3
<1>7. Cardinality(Unseen(N, Other(w))) = Cardinality(Unseen(M, Other(w))) + 1
  BY <1>2, <1>6, UnseenFinite, FS_AddElement
<1>8. Summed(R, m).unread[w] = 0 /\ Summed(R, m).unread[Other(w)] = R.unread[Other(w)] + 1
  <2>1. R.unread \in [Role -> Nat]
    BY DEF Row
  <2> QED BY <1>2, <2>1 DEF Summed, w
<1>9. Counted(Summed(R, m), N)
  BY <1>2, <1>5, <1>7, <1>8, FS_EmptySet DEF Counted
<1> QED BY <1>9 DEF N, w

LEMMA CountedMarked ==
  ASSUME NEW M \in Seq(Message), NEW R \in Row, NEW r \in Role, NEW t \in Time, Counted(R, M)
  PROVE  Counted([R EXCEPT !.unread[r] = 0], Marked(M, r, t))
<1> DEFINE N == Marked(M, r, t)
           S == [R EXCEPT !.unread[r] = 0]
<1>1. /\ N \in Seq(Message) /\ Len(N) = Len(M)
      /\ \A i \in 1..Len(M) :
           /\ N[i].from = M[i].from
           /\ N[i].read = IF M[i].from = r \/ M[i].read # Unread THEN M[i].read ELSE t
  BY MarkedMessages
<1>2. S.unread[r] = 0 /\ \A q \in Role \ {r} : S.unread[q] = R.unread[q]
  BY DEF Row
<1> HIDE DEF N, S
<1>3. DOMAIN N = 1..Len(M) /\ DOMAIN M = 1..Len(M) /\ \A i \in 1..Len(M) : M[i].from \in Role
  <2>1. \A i \in 1..Len(M) : M[i] \in Message
    OBVIOUS
  <2> QED BY <1>1, <2>1 DEF Message
<1>4. Unseen(N, r) = {}
  BY <1>1, <1>3, OtherRole, ChatNullsAssumption DEF Unseen
<1>5. \A q \in Role \ {r} : Unseen(N, q) = Unseen(M, q)
  <2> TAKE q \in Role \ {r}
  <2>1. Other(q) = r
    BY DEF Other, Role
  <2>2. \A i \in 1..Len(M) : i \in Unseen(N, q) <=> i \in Unseen(M, q)
    BY <1>1, <1>3, <2>1 DEF Unseen
  <2> QED BY <1>3, <2>2 DEF Unseen
<1>6. Counted(S, N)
  BY <1>2, <1>4, <1>5, FS_EmptySet DEF Counted
<1> QED BY <1>6 DEF N, S

LEMMA CountersNext == ChatTypeOK /\ CountersMatch /\ [ChatNext]_chatVars => CountersMatch'
<1> SUFFICES ASSUME ChatTypeOK, CountersMatch, [ChatNext]_chatVars, NEW k \in Key, row'[k] # NoThread
             PROVE  Counted(row'[k], log'[k])
  BY DEF CountersMatch, Counted
<1>1. log[k] \in Seq(Message) /\ (row[k] # NoThread => Counted(row[k], log[k]))
  BY DEF ChatTypeOK, CountersMatch, Counted
<1>2. CASE Gains(k)
  <2>1. PICK m \in Message, R \in Row :
          /\ m.read = Unread
          /\ R = row[k] \/ (row[k] = NoThread /\ log[k] = <<>> /\ R = Empty)
          /\ row'[k] = Summed(R, m) /\ log'[k] = Marked(Append(log[k], m), m.from, m.born)
    BY <1>2 DEF Gains
  <2>2. Counted(R, log[k])
    BY <1>1, <2>1, CountedEmpty, ChatNullsAssumption
  <2> QED BY <1>1, <2>1, <2>2, CountedAppended
<1>3. CASE Reads(k)
  <2>1. PICK r \in Role, t \in Time : /\ row[k] \in Row /\ row'[k] = [row[k] EXCEPT !.unread[r] = 0]
                                      /\ log'[k] = Marked(log[k], r, t)
    BY <1>3 DEF Reads
  <2>2. Counted(row[k], log[k])
    BY <1>1, <2>1, ChatNullsAssumption
  <2> QED BY <1>1, <2>1, <2>2, CountedMarked
<1>4. CASE Stays(k) \/ Opens(k) \/ Ends(k)
  BY <1>1, <1>4, CountedEmpty DEF Stays, Opens, Ends
<1> QED BY <1>2, <1>3, <1>4, Moves DEF Moved

\* The badges are right: an unread counter is the number of messages without read_at.
THEOREM CountersMatchHolds == ChatSpec => []CountersMatch
<1>1. ChatInit => CountersMatch
  BY DEF ChatInit, CountersMatch
<1> QED BY <1>1, CountersNext, TypeCorrect, PTL DEF ChatSpec
-----------------------------------------------------------------------------
(* What the row says of the thread. *)

LEMMA FirstIsNever ==
  ASSUME NEW M \in Seq(Message), NEW S \in SUBSET (1..Len(M)), NEW t, FirstOf(M, S, t)
  PROVE  t = Never <=> S = {}
<1>1. \A i \in S : M[i] \in Message /\ M[i].born # Never
  <2>1. \A i \in S : M[i] \in Message
    OBVIOUS
  <2> QED BY <2>1, ChatNullsAssumption DEF Message
<1> QED BY <1>1 DEF FirstOf

\* The first of S stays the first when the next position joins S.
LEMMA FirstKept ==
  ASSUME NEW M, NEW N, NEW n \in Nat, NEW S \in SUBSET (1..n), NEW T, NEW t,
         FirstOf(M, S, t), S # {}, T = S \/ T = S \cup {n + 1},
         \A i \in 1..n : N[i].born = M[i].born
  PROVE  FirstOf(N, T, t)
<1>1. PICK i \in S : t = M[i].born /\ \A j \in S : i <= j
  BY DEF FirstOf
<1>2. t = N[i].born /\ i \in T
  BY <1>1
<1>3. i \in Nat /\ i <= n + 1
  OBVIOUS
<1>4. ASSUME NEW j \in T PROVE i <= j
  <2>1. j \in S \/ j = n + 1
    BY <1>4
  <2> QED BY <1>1, <1>3, <2>1
<1> QED BY <1>2, <1>4 DEF FirstOf

LEMMA AsksAnswers ==
  ASSUME NEW M \in Seq(Message)
  PROVE  Asks(M) \in SUBSET (1..Len(M)) /\ Answers(M) \in SUBSET (1..Len(M))
BY DEF Asks, Answers

LEMMA TellsEmpty == Tells(Empty, <<>>)
<1>1. Asks(<<>>) = {} /\ Answers(<<>>) = {}
  BY DEF Asks, Answers
<1> QED BY <1>1 DEF Tells, LastOf, FirstOf, Empty

LEMMA TellsMarked ==
  ASSUME NEW M \in Seq(Message), NEW R \in Row, NEW r \in Role, NEW t \in Time, Tells(R, M)
  PROVE  Tells([R EXCEPT !.unread[r] = 0], Marked(M, r, t))
<1> DEFINE N == Marked(M, r, t)
           S == [R EXCEPT !.unread[r] = 0]
<1>1. /\ N \in Seq(Message) /\ Len(N) = Len(M)
      /\ \A i \in 1..Len(M) : N[i].from = M[i].from /\ N[i].text = M[i].text /\ N[i].born = M[i].born
  BY MarkedMessages
<1>2. S.last = R.last /\ S.asked = R.asked /\ S.answered = R.answered
  BY DEF Row
<1> HIDE DEF N, S
<1>3. DOMAIN N = 1..Len(M) /\ DOMAIN M = 1..Len(M) /\ Len(M) \in Nat
  BY <1>1
<1>4. Asks(N) = Asks(M)
  BY <1>1, <1>3 DEF Asks
<1>5. Answers(N) = Answers(M)
  BY <1>1, <1>3, <1>4 DEF Answers
<1>6. LastOf(N) = LastOf(M)
  <2>1. CASE Len(M) = 0
    <3>1. M = <<>> /\ N = <<>>
      BY <1>1, <2>1
    <3> QED BY <3>1 DEF LastOf
  <2>2. CASE Len(M) # 0
    <3>1. M # <<>> /\ N # <<>> /\ Len(M) \in 1..Len(M)
      BY <1>1, <1>3, <2>2
    <3> QED BY <1>1, <3>1 DEF LastOf
  <2> QED BY <2>1, <2>2
<1>7. \A A \in SUBSET (1..Len(M)) : \A b : FirstOf(M, A, b) => FirstOf(N, A, b)
  BY <1>1 DEF FirstOf
<1>8. Tells(S, N)
  BY <1>2, <1>4, <1>5, <1>6, <1>7, AsksAnswers DEF Tells
<1> QED BY <1>8 DEF N, S

LEMMA TellsAppended ==
  ASSUME NEW M \in Seq(Message), NEW R \in Row, NEW m \in Message, m.read = Unread, Tells(R, M)
  PROVE  Tells(Summed(R, m), Marked(Append(M, m), m.from, m.born))
<1> DEFINE N == Marked(Append(M, m), m.from, m.born)
           S == Summed(R, m)
           n == Len(M)
           asks == m.from = "customer" /\ m.text
           answers == m.from = "provider" /\ m.text /\ Asks(M) # {}
<1>1. /\ N \in Seq(Message) /\ Len(N) = n + 1 /\ N # <<>>
      /\ \A i \in 1..n : N[i].from = M[i].from /\ N[i].text = M[i].text /\ N[i].born = M[i].born
      /\ N[n + 1].from = m.from /\ N[n + 1].text = m.text /\ N[n + 1].born = m.born
  BY AppendedMessages
<1>2. S.last = [at |-> m.born, from |-> m.from, text |-> m.text]
  BY DEF Summed
<1>3. /\ Asks(M) \in SUBSET (1..n) /\ Answers(M) \in SUBSET (1..n) /\ n \in Nat
      /\ FirstOf(M, Asks(M), R.asked) /\ FirstOf(M, Answers(M), R.answered) /\ R.last = LastOf(M)
  BY AsksAnswers DEF Tells
<1>4. (R.asked = Never <=> Asks(M) = {}) /\ (R.answered = Never <=> Answers(M) = {})
  BY <1>3, FirstIsNever
<1>5. /\ S.asked = IF asks /\ Asks(M) = {} THEN m.born ELSE R.asked
      /\ S.answered = IF answers /\ Answers(M) = {} THEN m.born ELSE R.answered
  BY <1>4 DEF Summed
<1>6. DOMAIN N = 1..(n + 1) /\ DOMAIN M = 1..n
  BY <1>1
<1> HIDE DEF N, S, n
<1>7. Asks(N) = Asks(M) \cup (IF asks THEN {n + 1} ELSE {})
  <2>1. \A i \in 1..n : i \in Asks(N) <=> i \in Asks(M)
    BY <1>1, <1>3, <1>6 DEF Asks
  <2>2. n + 1 \in Asks(N) <=> asks
    BY <1>1, <1>3, <1>6 DEF Asks
  <2>3. Asks(N) \subseteq 1..(n + 1) /\ Asks(M) \subseteq 1..n
    BY <1>6 DEF Asks
  <2> QED BY <1>3, <2>1, <2>2, <2>3
<1>8. Answers(N) = Answers(M) \cup (IF answers THEN {n + 1} ELSE {})
  <2>1. \A i \in 1..n : i \in Answers(N) <=> i \in Answers(M)
    <3> SUFFICES ASSUME NEW i \in 1..n PROVE i \in Answers(N) <=> i \in Answers(M)
      OBVIOUS
    <3>1. (\E j \in Asks(N) : j < i) <=> (\E j \in Asks(M) : j < i)
      BY <1>3, <1>7
    <3> QED BY <1>1, <1>3, <1>6, <3>1 DEF Answers
  <2>2. n + 1 \in Answers(N) <=> answers
    <3>1. m.from = "provider" => Asks(N) = Asks(M)
      BY <1>7
    <3>2. (\E j \in Asks(M) : j < n + 1) <=> Asks(M) # {}
      BY <1>3
    <3> QED BY <1>1, <1>3, <1>6, <3>1, <3>2 DEF Answers
  <2>3. Answers(N) \subseteq 1..(n + 1) /\ Answers(M) \subseteq 1..n
    BY <1>6 DEF Answers
  <2> QED BY <1>3, <2>1, <2>2, <2>3
<1>9. \A i \in 1..n : N[i].born = M[i].born
  BY <1>1
<1>10. \A b : FirstOf(N, {}, b) <=> b = Never
  BY DEF FirstOf
<1>11. FirstOf(N, {n + 1}, m.born)
  BY <1>1, <1>3 DEF FirstOf
<1>12. FirstOf(N, Asks(N), S.asked)
  <2>1. CASE Asks(M) # {}
    <3>1. Asks(N) = Asks(M) \/ Asks(N) = Asks(M) \cup {n + 1}
      BY <1>7
    <3>2. FirstOf(N, Asks(N), R.asked)
      BY <1>3, <1>9, <2>1, <3>1, FirstKept
    <3> QED BY <1>5, <2>1, <3>2
  <2>2. CASE Asks(M) = {} /\ asks
    BY <1>5, <1>7, <1>11, <2>2
  <2>3. CASE Asks(M) = {} /\ ~asks
    BY <1>4, <1>5, <1>7, <1>10, <2>3
  <2> QED BY <2>1, <2>2, <2>3
<1>13. FirstOf(N, Answers(N), S.answered)
  <2>1. CASE Answers(M) # {}
    <3>1. Answers(N) = Answers(M) \/ Answers(N) = Answers(M) \cup {n + 1}
      BY <1>8
    <3>2. FirstOf(N, Answers(N), R.answered)
      BY <1>3, <1>9, <2>1, <3>1, FirstKept
    <3> QED BY <1>5, <2>1, <3>2
  <2>2. CASE Answers(M) = {} /\ answers
    BY <1>5, <1>8, <1>11, <2>2
  <2>3. CASE Answers(M) = {} /\ ~answers
    BY <1>4, <1>5, <1>8, <1>10, <2>3
  <2> QED BY <2>1, <2>2, <2>3
<1>14. S.last = LastOf(N)
  BY <1>1, <1>2 DEF LastOf
<1>15. Tells(S, N)
  BY <1>12, <1>13, <1>14 DEF Tells
<1> QED BY <1>15 DEF N, S

LEMMA TellsNext == ChatTypeOK /\ RowTellsThread /\ [ChatNext]_chatVars => RowTellsThread'
<1> SUFFICES ASSUME ChatTypeOK, RowTellsThread, [ChatNext]_chatVars, NEW k \in Key, row'[k] # NoThread
             PROVE  Tells(row'[k], log'[k])
  BY DEF RowTellsThread
<1>1. log[k] \in Seq(Message) /\ (row[k] # NoThread => Tells(row[k], log[k]))
  BY DEF ChatTypeOK, RowTellsThread
<1>2. CASE Gains(k)
  <2>1. PICK m \in Message, R \in Row :
          /\ m.read = Unread
          /\ R = row[k] \/ (row[k] = NoThread /\ log[k] = <<>> /\ R = Empty)
          /\ row'[k] = Summed(R, m) /\ log'[k] = Marked(Append(log[k], m), m.from, m.born)
    BY <1>2 DEF Gains
  <2>2. Tells(R, log[k])
    BY <1>1, <2>1, TellsEmpty, ChatNullsAssumption
  <2>3. Tells(Summed(R, m), Marked(Append(log[k], m), m.from, m.born))
    BY <1>1, <2>1, <2>2, TellsAppended
  <2> QED BY <2>1, <2>3
<1>3. CASE Reads(k)
  <2>1. PICK r \in Role, t \in Time : /\ row[k] \in Row /\ row'[k] = [row[k] EXCEPT !.unread[r] = 0]
                                      /\ log'[k] = Marked(log[k], r, t)
    BY <1>3 DEF Reads
  <2>2. Tells(row[k], log[k])
    BY <1>1, <2>1, ChatNullsAssumption
  <2>3. Tells([row[k] EXCEPT !.unread[r] = 0], Marked(log[k], r, t))
    BY <1>1, <2>1, <2>2, TellsMarked
  <2> QED BY <2>1, <2>3
<1>4. CASE Stays(k) \/ Opens(k) \/ Ends(k)
  BY <1>1, <1>4, TellsEmpty DEF Stays, Opens, Ends
<1> QED BY <1>2, <1>3, <1>4, Moves DEF Moved

\* The inbox line and the two reply times are those of the messages, in the order of their commits.
THEOREM RowTellsThreadHolds == ChatSpec => []RowTellsThread
<1>1. ChatInit => RowTellsThread
  BY DEF ChatInit, RowTellsThread
<1> QED BY <1>1, TellsNext, TypeCorrect, PTL DEF ChatSpec
-----------------------------------------------------------------------------
(* An answered chat is a dealing of two people, for as long as both have accounts. *)

Answer(k) == <<Person(k, "customer"), Person(k, "provider")>>
AnsweredBy == {Answer(k) : k \in Replied}

\* Two different people, and the pair names both.
LEMMA AnswerTyped ==
  ASSUME NEW k \in Key
  PROVE  /\ Answer(k)[1] = k[2] /\ Answer(k)[2] = Owner[k[1]] /\ k[2] # Owner[k[1]]
         /\ Person(k, "customer") = k[2] /\ Person(k, "provider") = Owner[k[1]]
  BY DEF Answer, Person, Key

LEMMA AnswersBothLive ==
  ASSUME ChatTypeOK
  PROVE  AnsweredBy \subseteq Dealt!Pairs
<1> SUFFICES ASSUME NEW k \in Replied PROVE Answer(k) \in Dealt!Pairs
  BY DEF AnsweredBy
<1>1. k \in Key /\ row[k] # NoThread
  BY DEF Replied
<1>2. {Person(k, r) : r \in Role} \subseteq people
  BY <1>1 DEF ChatTypeOK
<1>3. Person(k, "customer") \in people /\ Person(k, "provider") \in people
  BY <1>2 DEF Role
<1> QED BY <1>1, <1>3, AnswerTyped DEF Answer, Dealt!Pairs

\* Only an account's end takes a thread away.
LEMMA ThreadStays ==
  ASSUME ChatTypeOK, [ChatNext]_chatVars, people' = people, NEW k \in Key, row[k] # NoThread
  PROVE  row'[k] # NoThread
<1>1. ASSUME NEW c \in Callers, NEW removed \in BOOLEAN, Ensure(c, removed) PROVE row'[k] # NoThread
  BY <1>1, EmptyRow, ChatNullsAssumption DEF Ensure, ChatTypeOK
<1>2. ASSUME NEW c \in Callers, Write(c) PROVE row'[k] # NoThread
  <2>1. PICK m \in Message : Written(call[c].key, IF row[call[c].key] = NoThread THEN Empty ELSE row[call[c].key], m)
    <3>1. call[c] \in Call /\ call[c].at = "append"
      BY <1>2 DEF Write, ChatTypeOK
    <3>2. [from |-> call[c].who, text |-> call[c].text, born |-> call[c].since, read |-> Unread] \in Message
      BY <3>1 DEF Call, Message
    <3> QED BY <1>2, <3>2 DEF Write
  <2>2. call[c].key \in Key
    BY <1>2 DEF Write, ChatTypeOK
  <2>3. Summed(IF row[call[c].key] = NoThread THEN Empty ELSE row[call[c].key], m) \in Row
    BY <2>2, EmptyRow, SummedRow DEF ChatTypeOK
  <2> QED BY <2>1, <2>2, <2>3, ChatNullsAssumption DEF Written, ChatTypeOK
<1>3. ASSUME NEW c \in Callers, Mark(c) PROVE row'[k] # NoThread
  <2>1. row[k] \in Row /\ call[c].who \in Role
    BY <1>3 DEF Mark, ChatTypeOK, Call
  <2>2. [row[k] EXCEPT !.unread[call[c].who] = 0] \in Row
    BY <2>1 DEF Row
  <2>3. row'[k] \in {row[k], [row[k] EXCEPT !.unread[call[c].who] = 0]}
    BY <1>3 DEF Mark, ChatTypeOK
  <2> QED BY <2>1, <2>2, <2>3, ChatNullsAssumption
<1>4. ASSUME NEW u \in Users, Leave(u) PROVE FALSE
  BY <1>4 DEF Leave
<1>5. CASE UNCHANGED row
  BY <1>5
<1> QED
  BY <1>1, <1>2, <1>3, <1>4, <1>5
  DEF ChatNext, Participant, Around, Open, Send, Deal, Look, Say, Stop, Tick, chatVars

LEMMA DealingsStep ==
  ASSUME ChatTypeOK, ChatTypeOK', [ChatNext]_chatVars
  PROVE  [Dealt!DealingsNext]_(Dealt!dealingsVars)
<1>1. ASSUME people' = people PROVE Dealt!Earn
  <2>1. ASSUME NEW k \in Replied PROVE k \in Replied'
    <3>1. k \in Key /\ row[k] # NoThread /\ row[k].answered # Never /\ row'[k] # NoThread
      BY <1>1, <2>1, ThreadStays DEF Replied
    <3>2. row[k].answered \in {Never, row'[k].answered}
      BY <3>1, ThreadGrows DEF Grows
    <3> QED BY <3>1, <3>2 DEF Replied
  <2>2. AnsweredBy \subseteq AnsweredBy'
    BY <2>1 DEF AnsweredBy, Answer, Person
  <2>3. AnsweredBy' \subseteq Dealt!Pairs
    <3>1. (AnsweredBy \subseteq Dealt!Pairs)'
      BY AnswersBothLive, PTL
    <3>2. Dealt!Pairs' = Dealt!Pairs
      BY <1>1 DEF Dealt!Pairs
    <3> QED BY <3>1, <3>2
  <2> QED BY <1>1, <2>2, <2>3 DEF Dealt!Earn, AnsweredBy, Answer
<1>2. ASSUME NEW u \in Users, Leave(u) PROVE Dealt!Part(u)
  <2>1. u \in people /\ people' = people \ {u}
        /\ row' = [k \in Key |-> IF u \in {Person(k, "customer"), Person(k, "provider")} THEN NoThread ELSE row[k]]
    BY <1>2 DEF Leave
  <2>2. \A k \in Key : k \in Replied' <=> k \in Replied /\ u \notin {Answer(k)[1], Answer(k)[2]}
    BY <2>1, AnswerTyped DEF Replied
  <2>3. AnsweredBy' = {d \in AnsweredBy : u \notin {d[1], d[2]}}
    BY <2>2 DEF AnsweredBy, Answer, Person, Replied
  <2> QED BY <2>1, <2>3 DEF Dealt!Part, AnsweredBy, Answer
<1>3. people' = people \/ \E u \in Users : Leave(u)
  BY DEF ChatNext, Participant, Around, Open, Ensure, Say, Send, Deal, Write, Look, Mark, Stop, Tick, chatVars
<1> QED BY <1>1, <1>2, <1>3 DEF Dealt!DealingsNext

\* An answer once given entitles to a review until one of the two goes, and both exist when it is
\* given (append, canReview, deleteAccount).
THEOREM DealingsImplemented == ChatSpec => ImplementsDealings
<1>1. ChatInit => Dealt!DealingsInit
  BY DEF ChatInit, Dealt!DealingsInit, Replied
<1>2. ChatTypeOK /\ ChatTypeOK' /\ [ChatNext]_chatVars => [Dealt!DealingsNext]_(Dealt!dealingsVars)
  BY DealingsStep
<1> QED BY <1>1, <1>2, TypeCorrect, PTL DEF ChatSpec, ImplementsDealings, Dealt!DealingsSpec
=============================================================================
