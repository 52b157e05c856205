-------------------------------- MODULE Chat --------------------------------
(***************************************************************************)
(* Threads between a customer and the owner of a listing.  A thread is a   *)
(* row of conversations, whose columns sum up the messages it owns: who    *)
(* has how many unread, which message is the last, when the customer first *)
(* wrote and when that was first answered.                                 *)
(*                                                                         *)
(* An append is one step, because it holds the thread's row from its load  *)
(* to its commit; so is a read's transaction, whose first statement locks  *)
(* the row.  But a message carries the time its transaction began, and     *)
(* another one may commit before it gets the lock: positions in `log` are  *)
(* the order of the commits, and `born` need not grow with them.           *)
(*                                                                         *)
(* A booking step is a message that is no text.  Whether a listing is live *)
(* or removed is an input here and state of Listing.  Bodies, paging and   *)
(* sockets are left out; message.created is an event of Outbox.            *)
(***************************************************************************)
EXTENDS FiniteSets, Integers, Sequences

CONSTANTS
  Users,
  Posts,
  Owner,       \* posts.user_id, as long as that account exists
  Callers,     \* requests under way at once
  MaxTime,     \* bound: the clock stops here
  MaxMessages, \* bound: messages in a thread
  Unread,      \* messages.read_at IS NULL
  Never,       \* first_customer_at or first_reply_at IS NULL
  NoLast,      \* last_message_at IS NULL
  NoThread,    \* no row of conversations
  NoKey

Role == {"customer", "provider"}
Other(r) == IF r = "customer" THEN "provider" ELSE "customer"
Time == 0..MaxTime

\* A thread is found by its listing and its customer (UQ_conversations_post_customer).
Key == {k \in Posts \X Users : k[2] # Owner[k[1]]}
Person(k, r) == IF r = "customer" THEN k[2] ELSE Owner[k[1]]

Message == [from : Role, text : BOOLEAN, born : Time, read : Time \cup {Unread}]
Last == [at : Time, from : Role, text : BOOLEAN]
Row == [unread : [Role -> Nat], last : Last \cup {NoLast},
        asked : Time \cup {Never}, answered : Time \cup {Never}]
Call == [at : {"idle", "ensure", "say", "append", "mark"}, key : Key \cup {NoKey}, who : Role,
         text : BOOLEAN, known : BOOLEAN, since : Time]

ASSUME ChatBoundsAssumption == MaxTime \in Nat /\ MaxMessages \in Nat
ASSUME OwnerAssumption == Owner \in [Posts -> Users]
ASSUME ChatNullsAssumption ==
  Unread \notin Time /\ Never \notin Time /\ NoLast \notin Last /\ NoThread \notin Row /\ NoKey \notin Key

VARIABLES
  people,    \* rows of users
  row,       \* conversations
  log,       \* messages, per thread, in the order they were committed
  contacts,  \* post_contacts of kind CHAT and of today
  clock,
  call       \* the request in each slot

chatVars == <<people, row, log, contacts, clock, call>>

Empty == [unread |-> [r \in Role |-> 0], last |-> NoLast, asked |-> Never, answered |-> Never]
Free == [at |-> "idle", key |-> NoKey, who |-> "customer", text |-> FALSE, known |-> FALSE, since |-> 0]

ChatTypeOK ==
  /\ people \subseteq Users
  /\ row \in [Key -> Row \cup {NoThread}]
  /\ log \in [Key -> Seq(Message)]
  /\ \A k \in Key : /\ row[k] = NoThread => log[k] = <<>>
                    /\ row[k] # NoThread => {Person(k, r) : r \in Role} \subseteq people
  /\ contacts \subseteq Key
  /\ clock \in Time
  /\ call \in [Callers -> Call]
  /\ \A c \in Callers : call[c].at # "idle" => call[c].key \in Key /\ call[c].since <= clock

ChatInit ==
  /\ people = Users
  /\ row = [k \in Key |-> NoThread]
  /\ log = [k \in Key |-> <<>>]
  /\ contacts = {}
  /\ clock = 0
  /\ call = [c \in Callers |-> Free]
-----------------------------------------------------------------------------
(* The columns of a thread.  What a name beginning with Bug defines is what a plausible slip   *)
(* would make of the next definition.                                                          *)

\* The foreign keys of conversations to users.
BugBothExist(k) == Person(k, "provider") \in people
BothExist(k) == {Person(k, "customer"), Person(k, "provider")} \subseteq people

\* What r has not read of the other's messages is read at t; what was read before keeps its time.
BugMarked(M, r, t) == [i \in DOMAIN M |-> IF M[i].from = r THEN M[i] ELSE [M[i] EXCEPT !.read = t]]
Marked(M, r, t) ==
  [i \in DOMAIN M |-> IF M[i].from = r \/ M[i].read # Unread THEN M[i] ELSE [M[i] EXCEPT !.read = t]]

BugAnswered(r, m) ==
  [unread   |-> [r.unread EXCEPT ![m.from] = 0, ![Other(m.from)] = @ + 1],
   last     |-> [at |-> m.born, from |-> m.from, text |-> m.text],
   asked    |-> IF m.from = "customer" /\ m.text /\ r.asked = Never THEN m.born ELSE r.asked,
   answered |-> IF m.from = "provider" /\ r.asked # Never /\ r.answered = Never THEN m.born ELSE r.answered]

\* The UPDATE of append: the writer has read everything, and only text asks or answers.
BugSummed(r, m) ==
  [unread   |-> [r.unread EXCEPT ![Other(m.from)] = @ + 1],
   last     |-> [at |-> m.born, from |-> m.from, text |-> m.text],
   asked    |-> IF m.from = "customer" /\ m.text /\ r.asked = Never THEN m.born ELSE r.asked,
   answered |-> IF m.from = "provider" /\ m.text /\ r.asked # Never /\ r.answered = Never
                  THEN m.born ELSE r.answered]
Summed(r, m) ==
  [unread   |-> [r.unread EXCEPT ![m.from] = 0, ![Other(m.from)] = @ + 1],
   last     |-> [at |-> m.born, from |-> m.from, text |-> m.text],
   asked    |-> IF m.from = "customer" /\ m.text /\ r.asked = Never THEN m.born ELSE r.asked,
   answered |-> IF m.from = "provider" /\ m.text /\ r.asked # Never /\ r.answered = Never
                  THEN m.born ELSE r.answered]

BugWritten(k, R, m) ==
  /\ row' = [row EXCEPT ![k] = Summed(R, m)]
  /\ log' = [log EXCEPT ![k] = Append(@, m)]

\* append on the row R of thread k, as it is behind the row's lock.
Written(k, R, m) ==
  /\ row' = [row EXCEPT ![k] = Summed(R, m)]
  /\ log' = [log EXCEPT ![k] = Marked(Append(log[k], m), m.from, m.born)]

Begins(c, at, k, r, text) ==
  call' = [call EXCEPT ![c] = [at |-> at, key |-> k, who |-> r, text |-> text, known |-> FALSE, since |-> clock]]
-----------------------------------------------------------------------------
(* Opening a thread and writing in it. *)

\* open, up to its transaction: an existing thread survives the listing lapsing, a new one
\* needs a live listing.  `say` is a first message in the same request.
Open(c, k, say, live) ==
  /\ call[c] = Free
  /\ k[2] \in people /\ Owner[k[1]] \in people
  /\ row[k] # NoThread \/ live
  /\ call' = [call EXCEPT ![c] = [at |-> "ensure", key |-> k, who |-> "customer", text |-> say,
                                  known |-> row[k] # NoThread, since |-> 0]]
  /\ UNCHANGED <<people, row, log, contacts, clock>>

\* ensure, and the contact of a thread that was not there when the request looked, unless the
\* listing was removed meanwhile.
Ensure(c, removed) ==
  LET k == call[c].key IN
  /\ call[c].at = "ensure" /\ BothExist(k)
  /\ row' = [row EXCEPT ![k] = IF @ = NoThread THEN Empty ELSE @]
  /\ contacts' = IF call[c].known \/ removed THEN contacts ELSE contacts \cup {k}
  /\ call' = [call EXCEPT ![c] = IF @.text THEN [@ EXCEPT !.at = "say", !.known = FALSE] ELSE Free]
  /\ UNCHANGED <<people, log, clock>>

\* send's transaction begins, after open or on its own.
Say(c) ==
  /\ call[c].at = "say"
  /\ call' = [call EXCEPT ![c] = [@ EXCEPT !.at = "append", !.since = clock]]
  /\ UNCHANGED <<people, row, log, contacts, clock>>

Send(c, k, r) ==
  /\ call[c] = Free
  /\ row[k] # NoThread
  /\ Begins(c, "append", k, r, TRUE)
  /\ UNCHANGED <<people, row, log, contacts, clock>>

\* A transaction of BookingService begins that will write a step in the thread.
Deal(c, k, r) ==
  /\ call[c] = Free
  /\ BothExist(k)
  /\ Begins(c, "append", k, r, FALSE)
  /\ UNCHANGED <<people, row, log, contacts, clock>>

\* The thread's row is locked (a step makes the thread if need be) and the message written.
Write(c) ==
  LET k == call[c].key
      m == [from |-> call[c].who, text |-> call[c].text, born |-> call[c].since, read |-> Unread] IN
  /\ call[c].at = "append" /\ Len(log[k]) < MaxMessages
  /\ IF call[c].text THEN row[k] # NoThread ELSE BothExist(k)
  /\ Written(k, IF row[k] = NoThread THEN Empty ELSE row[k], m)
  /\ call' = [call EXCEPT ![c] = Free]
  /\ UNCHANGED <<people, contacts, clock>>
-----------------------------------------------------------------------------
(* Reading. *)

\* read: who is reading, and when, is settled before the row is locked.
Look(c, k, r) ==
  /\ call[c] = Free
  /\ row[k] # NoThread
  /\ Begins(c, "mark", k, r, FALSE)
  /\ UNCHANGED <<people, row, log, contacts, clock>>

\* Its transaction; both statements find nothing when the thread went away meanwhile.
Mark(c) ==
  LET k == call[c].key IN
  /\ call[c].at = "mark"
  /\ row' = [row EXCEPT ![k] = IF @ = NoThread THEN @ ELSE [@ EXCEPT !.unread[call[c].who] = 0]]
  /\ log' = [log EXCEPT ![k] = Marked(@, call[c].who, call[c].since)]
  /\ call' = [call EXCEPT ![c] = Free]
  /\ UNCHANGED <<people, contacts, clock>>

\* A request is refused, fails, or its worker stops: what it committed stays.
Stop(c) ==
  /\ call[c] # Free
  /\ call' = [call EXCEPT ![c] = Free]
  /\ UNCHANGED <<people, row, log, contacts, clock>>
-----------------------------------------------------------------------------
(* What the rest of the engine does to the rows chat reads. *)

\* deleteAccount: the account's threads cascade away with their messages.
Leave(u) ==
  LET gone == {k \in Key : u \in {Person(k, "customer"), Person(k, "provider")}} IN
  /\ u \in people
  /\ people' = people \ {u}
  /\ row' = [k \in Key |-> IF k \in gone THEN NoThread ELSE row[k]]
  /\ log' = [k \in Key |-> IF k \in gone THEN <<>> ELSE log[k]]
  /\ UNCHANGED <<contacts, clock, call>>

Tick ==
  /\ clock < MaxTime /\ clock' = clock + 1
  /\ UNCHANGED <<people, row, log, contacts, call>>
-----------------------------------------------------------------------------
Participant ==
  \E c \in Callers :
    \/ \E k \in Key, say, live \in BOOLEAN : Open(c, k, say, live)
    \/ \E k \in Key, r \in Role : Send(c, k, r) \/ Deal(c, k, r) \/ Look(c, k, r)
    \/ \E removed \in BOOLEAN : Ensure(c, removed)
    \/ Say(c) \/ Write(c) \/ Mark(c) \/ Stop(c)

Around ==
  \/ \E u \in Users : Leave(u)
  \/ Tick

ChatNext == Participant \/ Around

ChatSpec == ChatInit /\ [][ChatNext]_chatVars
-----------------------------------------------------------------------------
(* Properties. *)

\* What r has not read.
Unseen(M, r) == {i \in DOMAIN M : M[i].from = Other(r) /\ M[i].read = Unread}

\* The badge is the messages: each side's unread counter, kept by increments and resets of two
\* requests, is the number of the other's messages without read_at (append, read, unreadCount).
CountersMatch ==
  \A k \in Key : row[k] # NoThread => \A r \in Role : row[k].unread[r] = Cardinality(Unseen(log[k], r))

\* The first message of the set S, or none: what first_customer_at and first_reply_at remember.
FirstOf(M, S, t) ==
  \/ S = {} /\ t = Never
  \/ \E i \in S : t = M[i].born /\ \A j \in S : i <= j

Asks(M) == {i \in DOMAIN M : M[i].from = "customer" /\ M[i].text}
Answers(M) == {i \in DOMAIN M : M[i].from = "provider" /\ M[i].text /\ \E j \in Asks(M) : j < i}

LastOf(M) == IF M = <<>> THEN NoLast
             ELSE [at |-> M[Len(M)].born, from |-> M[Len(M)].from, text |-> M[Len(M)].text]

\* The row sums up the thread: the inbox shows the message written last, the reply time runs from
\* the customer's first text to the first text written after it by the provider, and no booking
\* step asks or answers ("only typed text counts as a reply").
Tells(R, M) == /\ R.last = LastOf(M)
               /\ FirstOf(M, Asks(M), R.asked)
               /\ FirstOf(M, Answers(M), R.answered)
RowTellsThread == \A k \in Key : row[k] # NoThread => Tells(row[k], log[k])

\* "Writing in a thread reads it", and reading reads everything: below a message that was read,
\* or that the other side wrote, nothing of the writer's is unread.
ReadBelow(M) ==
  \A i, j \in DOMAIN M : i < j /\ (M[j].from # M[i].from \/ M[j].read # Unread) => M[i].read # Unread
NothingUnreadBelow == \A k \in Key : ReadBelow(log[k])

\* A thread that stays only grows: no message changes hands or time, a read_at once shown to its
\* writer is never moved by a later or an overtaken read, and an answer is never taken back (it
\* entitles the customer to a review).
Kept(m, n) == /\ m.from = n.from /\ m.text = n.text /\ m.born = n.born
              /\ m.read \in {Unread, n.read}
Grows(k) ==
  row[k] # NoThread /\ row'[k] # NoThread =>
    /\ Len(log[k]) <= Len(log'[k])
    /\ \A i \in DOMAIN log[k] : Kept(log[k][i], log'[k][i])
    /\ row[k].asked \in {Never, row'[k].asked}
    /\ row[k].answered \in {Never, row'[k].answered}
ThreadStands == [][\A k \in Key : Grows(k)]_chatVars

\* An answered chat entitles its customer to a review while both accounts exist: canReview reads
\* first_reply_at, which append sets once and only an account's end takes away.
Replied == {k \in Key : row[k] # NoThread /\ row[k].answered # Never}
Dealt == INSTANCE Dealings WITH People <- Users,
           dealt <- {<<Person(k, "customer"), Person(k, "provider")>> : k \in Replied}
ImplementsDealings == Dealt!DealingsSpec
=============================================================================
