----------------------------- MODULE Messaging -----------------------------
(***************************************************************************)
(* Conversations (messaging/).  Opening one is a transaction that looks    *)
(* for an open conversation before it writes, without a lock; the other    *)
(* endpoints are statements that commit one by one.  A message's time is   *)
(* its position in the log; last_message_at, which only orders lists, is   *)
(* left out, and the status, which no endpoint takes away from ACTIVE.     *)
(***************************************************************************)
EXTENDS Naturals, Sequences, FiniteSets, FiniteSetsExt

CONSTANTS
  Users, Listings,
  Manager,       \* Manager[l]: the agent of l, or its owner
  Conversations, \* Conversation primary keys
  Clients,       \* requests in progress
  Outside,       \* not among the rows: the read mark of who is no participant, a deleted conversation
  None,
  MaxMessages    \* messages written (bound)

\* What the constants stand for; whoever instantiates the module assumes it.
Terms == None \notin Conversations

VARIABLES
  published, \* the listings on the market
  conv,      \* Conversation rows
  mark,      \* mark[k][u]: last_read_at of u's participation in k, 0 when never read
  log,       \* Message rows in the order of created_at
  job        \* what each request read

vars == <<published, conv, mark, log, job>>

NoConv   == [guest |-> None, listing |-> None]
GoneConv == [guest |-> None, listing |-> Outside]     \* deleted: its primary key is never used again
Idle     == [op |-> "none", user |-> None, conv |-> None, row |-> NoConv, at |-> 0]
Open(k)  == conv[k] \notin {NoConv, GoneConv}
In(u, k) == mark[k][u] # Outside
can_access(u, k) == Open(k) /\ (In(u, k) \/ Manager[conv[k].listing] = u)
Send(k, u) == /\ Len(log) < MaxMessages
              /\ log' = Append(log, [conv |-> k, sender |-> u, deleted |-> FALSE])
Go(c, j) == job' = [job EXCEPT ![c] = j]
Done(c)  == Go(c, Idle)
-----------------------------------------------------------------------------
\* create_conversation's lookup: any of those this guest has about this listing, or none.
Talks(u, l) == {k \in Conversations : conv[k] = [guest |-> u, listing |-> l]}
LoadEnquiry(c) ==
  \E u \in Users, l \in published, k \in Conversations \cup {None} :
    /\ Manager[l] # u
    /\ k \in Talks(u, l) \/ (k = None /\ Talks(u, l) = {})
    /\ Go(c, [Idle EXCEPT !.op = "talk", !.user = u, !.conv = k, !.row = [guest |-> u, listing |-> l]])

\* Its writes, whatever was opened or withdrawn since; a message needs its conversation.
Talk(c) ==
  LET j == job[c]
  IN  /\ j.op = "talk"
      /\ \/ /\ j.conv # None /\ Open(j.conv)
            /\ conv' = [conv EXCEPT ![j.conv] = j.row]
            /\ Send(j.conv, j.user) /\ UNCHANGED mark
         \/ /\ j.conv = None
            /\ \E k \in Conversations :
                 /\ conv[k] = NoConv
                 /\ conv' = [conv EXCEPT ![k] = j.row]
                 /\ mark' = [mark EXCEPT ![k] = [@ EXCEPT ![j.user] = 0, ![Manager[j.row.listing]] = 0]]
                 /\ Send(k, j.user)
      /\ Done(c) /\ UNCHANGED published

\* messages: the row is inserted, then every column of the conversation is saved as it was read.
Post(c) ==
  /\ job[c] = Idle
  /\ \E k \in Conversations, u \in Users :
       can_access(u, k) /\ Send(k, u) /\ Go(c, [Idle EXCEPT !.op = "save", !.conv = k, !.row = conv[k]])
  /\ UNCHANGED <<published, conv, mark>>

\* The viewset also lets its people point a conversation at another listing ...
LoadUpdate(c) ==
  \E k \in Conversations, l \in Listings :
    Open(k) /\ Go(c, [Idle EXCEPT !.op = "save", !.conv = k, !.row = [conv[k] EXCEPT !.listing = l]])
\* A save of a conversation that was deleted meanwhile brings it back, without its people.
Save(c) ==
  /\ job[c].op = "save"
  /\ conv' = [conv EXCEPT ![job[c].conv] = job[c].row]
  /\ Done(c) /\ UNCHANGED <<published, mark, log>>

\* ... or delete it with its messages and its people.
Destroy(k) ==
  /\ Open(k)
  /\ conv' = [conv EXCEPT ![k] = GoneConv]
  /\ mark' = [mark EXCEPT ![k] = [u \in Users |-> Outside]]
  /\ log' = [i \in DOMAIN log |-> IF log[i].conv = k THEN [log[i] EXCEPT !.conv = None] ELSE log[i]]
  /\ UNCHANGED <<published, job>>

\* system_message: what a viewing or a booking tells its conversation.
Announce == /\ \E k \in Conversations : Open(k) /\ Send(k, None)
            /\ UNCHANGED <<published, conv, mark, job>>

\* mark_read: the instant is taken before it is saved; who only manages the listing joins.
LoadRead(c) ==
  \E k \in Conversations, u \in Users :
    can_access(u, k) /\ Go(c, [Idle EXCEPT !.op = "read", !.user = u, !.conv = k, !.at = Len(log)])
MarkRead(c) ==
  /\ job[c].op = "read" /\ Open(job[c].conv)
  /\ mark' = [mark EXCEPT ![job[c].conv][job[c].user] = job[c].at]
  /\ Done(c) /\ UNCHANGED <<published, conv, log>>

\* MessageViewSet.remove: the row stays, without its text.
Remove == /\ \E i \in DOMAIN log : log[i].sender # None /\ log[i].conv # None
                                   /\ log' = [log EXCEPT ![i].deleted = TRUE]
          /\ UNCHANGED <<published, conv, mark, job>>

Load(c) == /\ job[c] = Idle
           /\ LoadEnquiry(c) \/ LoadRead(c) \/ LoadUpdate(c)
           /\ UNCHANGED <<published, conv, mark, log>>
\* A refused request, an error, a crash.
GiveUp(c) == job[c] # Idle /\ Done(c) /\ UNCHANGED <<published, conv, mark, log>>

Market == /\ \E l \in Listings : published' = (published \ {l}) \cup ({l} \ published)
          /\ UNCHANGED <<conv, mark, log, job>>
-----------------------------------------------------------------------------
Init == /\ published = Listings
        /\ conv = [k \in Conversations |-> NoConv]
        /\ mark = [k \in Conversations |-> [u \in Users |-> Outside]]
        /\ log = <<>>
        /\ job = [c \in Clients |-> Idle]

Step(c) == Load(c) \/ Talk(c) \/ Post(c) \/ Save(c) \/ MarkRead(c) \/ GiveUp(c)
Next == (\E c \in Clients : Step(c)) \/ (\E k \in Conversations : Destroy(k)) \/ Announce \/ Remove \/ Market
Spec == Init /\ [][Next]_vars
-----------------------------------------------------------------------------
ConversationRows == [guest: Users \cup {None}, listing: Listings \cup {None, Outside}]
MessageRows == [conv: Conversations \cup {None}, sender: Users \cup {None}, deleted: BOOLEAN]
TypeOK ==
  /\ published \subseteq Listings
  /\ conv \in [Conversations -> ConversationRows]
  /\ mark \in [Conversations -> [Users -> Nat \cup {Outside}]]
  /\ log \in Seq(MessageRows)
  /\ job \in [Clients -> [op: {"none", "talk", "read", "save"}, user: Users \cup {None},
                          conv: Conversations \cup {None}, row: ConversationRows, at: Nat]]

UnreadOwn(u, k) == {i \in 1..Len(log) : log[i].conv = k /\ i > mark[k][u]}
Unread(u, k) == {i \in 1..Len(log) : log[i].conv = k /\ log[i].sender # u /\ i > mark[k][u]}
\* A conversation counts what others wrote after its reader's mark ...
get_unread_count(u, k) == IF In(u, k) THEN Cardinality(Unread(u, k)) ELSE 0
\* ... and the account page counts over all conversations in one query.
unread_messages(u) ==
  Cardinality({i \in 1..Len(log) :
                 /\ log[i].sender # u /\ log[i].conv # None
                 /\ In(u, log[i].conv) /\ mark[log[i].conv][u] < i})

\* The number on the account page is the sum of those its conversations show, whoever
\* joined late, opened two conversations at once, deleted one or removed a message.
UnreadAgree ==
  \A u \in Users : unread_messages(u) = MapThenSumSet(LAMBDA k : get_unread_count(u, k), Conversations)
=============================================================================
