------------------------ MODULE NotificationsProofs ------------------------
(***************************************************************************)
(* Notifications for any number of users, events, rows, callbacks, workers *)
(* and retries.  One email per event is a matter of who may still cause    *)
(* one: an event is in the hands of one callback or has one row, and a row *)
(* is in the hands of one callback, one message or one worker.             *)
(***************************************************************************)
EXTENDS Notifications, TLAPS

Messages  == [delivery: Deliveries, retries: 0..MaxRetries]
Rows      == [status: {"pending", "accepted", "failed"}, event: Events, attempts: Nat]
Early     == [stage: {"new", "created", "wanted"}, event: Events]
Late      == [stage: {"inserted"}, event: Events, delivery: Deliveries]
Callers   == [stage: {"calling"}, msg: Messages]
Answered  == [stage: {"answered", "recorded"}, msg: Messages, answer: {"accepted", "retryable", "permanent"}]
Types ==
  /\ sender \in BOOLEAN
  /\ preference \in [Users -> [in_app: BOOLEAN, email: BOOLEAN]]
  /\ inbox \subseteq Events
  /\ delivery \in [Deliveries -> {NoDelivery} \cup Rows]
  /\ callback \in [Callbacks -> {Resting} \cup Early \cup Late]
  /\ queue \subseteq Messages
  /\ worker \in [Workers -> {Resting} \cup Callers \cup Answered]
  /\ mailed \subseteq Deliveries /\ lost \subseteq Deliveries

Exists(d)   == delivery[d] # NoDelivery
Creating(b) == callback[b].stage \in {"created", "wanted"}
Inserted(b) == callback[b].stage = "inserted"
Busy(w)     == worker[w] # Resting

\* An event belongs to one callback that created its notification, or to one row.
EventsOwned ==
  /\ \A b \in Callbacks : Creating(b) =>
       /\ callback[b].event \in inbox
       /\ \A d \in Deliveries : Exists(d) => delivery[d].event # callback[b].event
       /\ \A a \in Callbacks : a # b /\ Creating(a) => callback[a].event # callback[b].event
  /\ \A d \in Deliveries : Exists(d) =>
       /\ delivery[d].event \in inbox
       /\ \A e \in Deliveries : e # d /\ Exists(e) => delivery[e].event # delivery[d].event

\* A row belongs to one callback that inserted it, to one message or to one worker.
RowsOwned ==
  /\ \A b \in Callbacks : Inserted(b) =>
       /\ Exists(callback[b].delivery)
       /\ \A a \in Callbacks : a # b /\ Inserted(a) => callback[a].delivery # callback[b].delivery
       /\ \A m \in queue : m.delivery # callback[b].delivery
       /\ \A w \in Workers : Busy(w) => worker[w].msg.delivery # callback[b].delivery
  /\ \A m \in queue :
       /\ Exists(m.delivery)
       /\ \A n \in queue : n # m => n.delivery # m.delivery
       /\ \A w \in Workers : Busy(w) => worker[w].msg.delivery # m.delivery
  /\ \A w \in Workers : Busy(w) =>
       /\ Exists(worker[w].msg.delivery)
       /\ \A v \in Workers : v # w /\ Busy(v) => worker[v].msg.delivery # worker[w].msg.delivery
  /\ \A d \in mailed : Exists(d)

\* Nobody who may still write an accepted row will write anything but accepted.
AcceptedAlone ==
  \A d \in Deliveries : Exists(d) /\ delivery[d].status = "accepted" =>
    /\ \A b \in Callbacks : Inserted(b) => callback[b].delivery # d
    /\ \A m \in queue : m.delivery # d
    /\ \A w \in Workers : Busy(w) /\ worker[w].msg.delivery = d =>
         worker[w].stage = "recorded" /\ worker[w].answer = "accepted"

Inv == Types /\ EventsOwned /\ RowsOwned /\ AcceptedAlone

-----------------------------------------------------------------------------
\* Stages and statuses tell the kinds of records apart.
LEMMA Kinds ==
  /\ Resting.stage = "idle" /\ NoDelivery.status = "NONE"
  /\ \A c \in Early : c.stage \in {"new", "created", "wanted"} /\ c.event \in Events /\ c # Resting
  /\ \A c \in Late : c.stage = "inserted" /\ c.event \in Events /\ c.delivery \in Deliveries /\ c # Resting
  /\ \A x \in Callers : x.stage = "calling" /\ x.msg \in Messages /\ x # Resting
  /\ \A x \in Answered : /\ x.stage \in {"answered", "recorded"} /\ x.msg \in Messages
                         /\ x.answer \in {"accepted", "retryable", "permanent"} /\ x # Resting
  /\ \A r \in Rows : /\ r.status \in {"pending", "accepted", "failed"} /\ r.event \in Events
                     /\ r.attempts \in Nat /\ r # NoDelivery
  /\ \A m \in Messages : m.delivery \in Deliveries /\ m.retries \in 0..MaxRetries
<1>1. Resting.stage = "idle" /\ NoDelivery.status = "NONE"
  BY DEF Resting, NoDelivery
<1> QED BY <1>1 DEF Early, Late, Callers, Answered, Rows, Messages

LEMMA InitEstablishes == Init => Inv
<1> SUFFICES ASSUME Init PROVE Inv
  OBVIOUS
<1> USE Kinds DEF Init
<1>1. Types
  BY DEF Types
<1>2. EventsOwned /\ RowsOwned /\ AcceptedAlone
  BY DEF EventsOwned, RowsOwned, AcceptedAlone, Exists, Creating, Inserted, Busy
<1> QED BY <1>1, <1>2 DEF Inv

-----------------------------------------------------------------------------
(* Callbacks.                                                              *)

\* A callback that stops, or only announces, lets go of what it had.
LEMMA LetGo ==
  ASSUME Inv, NEW b \in Callbacks, NEW c, callback' = [callback EXCEPT ![b] = c],
         c = Resting \/ (c \in Early /\ c.stage = "new"), UNCHANGED <<rows, mail>>
  PROVE  Inv'
<1> USE Kinds DEF Inv, rows, mail
<1>1. Types'
  BY DEF Types
<1>2. \A a \in Callbacks : /\ a # b => callback'[a] = callback[a]
                           /\ callback'[b] = c /\ c.stage \in {"idle", "new"}
  BY DEF Types
<1>3. EventsOwned'
  BY <1>2 DEF EventsOwned, Creating, Exists
<1>4. RowsOwned' /\ AcceptedAlone'
  BY <1>2 DEF RowsOwned, AcceptedAlone, Inserted, Exists, Busy
<1> QED BY <1>1, <1>3, <1>4

LEMMA CallbackKeeps ==
  ASSUME Inv, NEW b \in Callbacks, Announce(b) \/ CallbackStep(b) \/ Abandon(b)
  PROVE  Inv'
<1>1. CASE Announce(b)
  <2>1. PICK e \in Events : callback' = [callback EXCEPT ![b] = [stage |-> "new", event |-> e]]
    BY <1>1 DEF Announce
  <2>2. [stage |-> "new", event |-> e] \in Early
    BY DEF Early
  <2> QED BY <1>1, <2>1, <2>2, LetGo DEF Announce
<1>2. CASE Abandon(b)
  BY <1>2, LetGo DEF Abandon, Return
<1>3. CASE CreateNotification(b)
  <2> DEFINE e == callback[b].event
             c == [callback[b] EXCEPT !.stage = "created"]
  <2>1. CASE callback' = [callback EXCEPT ![b] = Resting] /\ UNCHANGED <<rows, mail>>
    BY <2>1, LetGo
  <2>2. CASE inbox' = inbox \cup {e} /\ e \notin inbox /\ callback' = [callback EXCEPT ![b] = c]
    <3>1. callback[b] \in Early /\ e \in Events
      BY <1>3, Kinds DEF CreateNotification, Inv, Types
    <3>2. c \in Early /\ c.stage = "created" /\ c.event = e
      BY <3>1 DEF Early
    <3> HIDE DEF c
    <3>3. UNCHANGED <<sender, preference, delivery, mail>>
      BY <1>3 DEF CreateNotification
    <3>4. \A a \in Callbacks : a # b => callback'[a] = callback[a]
      BY <2>2 DEF Inv, Types
    <3>5. callback'[b] = c
      BY <2>2 DEF Inv, Types
    <3>6. Types'
      BY <2>2, <3>1, <3>2, <3>3 DEF Inv, Types, mail
    <3>7. EventsOwned'
      BY <2>2, <3>2, <3>3, <3>4, <3>5 DEF Inv, EventsOwned, Creating, Exists
    <3>8. RowsOwned' /\ AcceptedAlone'
      BY <3>2, <3>3, <3>4, <3>5 DEF Inv, mail, RowsOwned, AcceptedAlone, Inserted, Exists, Busy
    <3> QED BY <3>6, <3>7, <3>8 DEF Inv
  <2> QED BY <1>3, <2>1, <2>2 DEF CreateNotification, NoRowYet, Proceed, Return, rows
<1>4. CASE CheckPreference(b)
  <2> DEFINE c == [callback[b] EXCEPT !.stage = "wanted"]
  <2>1. CASE callback' = [callback EXCEPT ![b] = Resting]
    BY <1>4, <2>1, LetGo DEF CheckPreference
  <2>2. CASE callback' = [callback EXCEPT ![b] = c]
    <3>1. callback[b] \in Early /\ Creating(b)
      BY <1>4, Kinds DEF CheckPreference, Inv, Types, Creating
    <3>2. c \in Early /\ c.stage = "wanted" /\ c.event = callback[b].event
      BY <3>1 DEF Early
    <3> HIDE DEF c
    <3>3. UNCHANGED <<rows, mail>>
      BY <1>4 DEF CheckPreference
    <3>4. /\ callback'[b] = c
          /\ \A a \in Callbacks : a # b => callback'[a] = callback[a]
      BY <2>2 DEF Inv, Types
    <3>6. Types'
      BY <2>2, <3>2, <3>3 DEF Inv, Types, mail, rows
    <3>7. EventsOwned'
      BY <3>1, <3>2, <3>3, <3>4 DEF Inv, rows, EventsOwned, Creating, Exists
    <3>8. RowsOwned' /\ AcceptedAlone'
      BY <3>2, <3>3, <3>4 DEF Inv, mail, rows, RowsOwned, AcceptedAlone, Inserted, Exists, Busy
    <3> QED BY <3>6, <3>7, <3>8 DEF Inv
  <2> QED BY <1>4, <2>1, <2>2 DEF CheckPreference, Proceed, Return
<1>5. CASE InsertDelivery(b)
  <2> DEFINE e == callback[b].event
  <2>1. PICK d \in Deliveries :
          /\ delivery[d] = NoDelivery
          /\ delivery' = [delivery EXCEPT ![d] = [status |-> "pending", event |-> e, attempts |-> 0]]
          /\ callback' = [callback EXCEPT ![b] = [stage |-> "inserted", event |-> e, delivery |-> d]]
    BY <1>5 DEF InsertDelivery
  <2> DEFINE row == [status |-> "pending", event |-> e, attempts |-> 0]
             c   == [stage |-> "inserted", event |-> e, delivery |-> d]
  <2>2. callback[b] \in Early /\ Creating(b) /\ e \in Events
    BY <1>5, Kinds DEF InsertDelivery, Inv, Types, Creating
  <2>3. /\ row \in Rows /\ row.event = e /\ row.status = "pending" /\ row # NoDelivery
        /\ c \in Late /\ c.stage = "inserted" /\ c.delivery = d
    <3>1. row \in Rows /\ c \in Late
      BY <2>2 DEF Rows, Late
    <3> QED BY <3>1, Kinds
  <2>4. delivery' = [delivery EXCEPT ![d] = row] /\ callback' = [callback EXCEPT ![b] = c]
    BY <2>1
  <2> HIDE DEF row, c
  <2>5. UNCHANGED <<sender, preference, inbox, mail>>
    BY <1>5 DEF InsertDelivery
  <2>6. /\ callback'[b] = c /\ \A a \in Callbacks : a # b => callback'[a] = callback[a]
        /\ delivery'[d] = row /\ \A x \in Deliveries : x # d => delivery'[x] = delivery[x]
    BY <2>4 DEF Inv, Types
  <2>7. Types'
    BY <2>3, <2>4, <2>5 DEF Inv, Types, mail
  <2>8. EventsOwned'
    BY <2>2, <2>3, <2>5, <2>6 DEF Inv, EventsOwned, Creating, Exists
  <2>9. ~Exists(d)
    BY <2>1 DEF Exists
  <2>10. RowsOwned'
    <3>1. \A x \in Deliveries : Exists(x) => x # d /\ Exists(x)'
      BY <2>6, <2>9 DEF Exists
    <3>2. \A a \in Callbacks : Inserted(a) => callback[a].delivery \in Deliveries
      BY Kinds DEF Inv, Types, Inserted
    <3>3. /\ \A m \in queue : m.delivery \in Deliveries
          /\ \A w \in Workers : Busy(w) => worker[w].msg.delivery \in Deliveries
      BY Kinds DEF Inv, Types, Busy
    <3>4. \A a \in Callbacks : Inserted(a)' => IF a = b THEN callback'[a].delivery = d
                                                ELSE Inserted(a) /\ callback'[a] = callback[a]
      BY <2>3, <2>6 DEF Inserted
    <3>5. Exists(d)'
      BY <2>3, <2>6 DEF Exists
    <3>6. mailed \subseteq Deliveries /\ RowsOwned
      BY DEF Inv, Types
    <3> QED BY <2>5, <3>1, <3>2, <3>3, <3>4, <3>5, <3>6 DEF mail, RowsOwned, Busy
  <2>11. AcceptedAlone'
    BY <2>3, <2>5, <2>6, <2>9 DEF Inv, mail, AcceptedAlone, Inserted, Exists, Busy
  <2> QED BY <2>7, <2>8, <2>10, <2>11 DEF Inv
<1>6. CASE Publish(b)
  <2> DEFINE m == [delivery |-> callback[b].delivery, retries |-> 0]
  <2>1. callback[b] \in Late /\ Inserted(b)
    BY <1>6, Kinds DEF Publish, Inv, Types, Inserted
  <2>2. m \in Messages /\ m.delivery = callback[b].delivery
    BY <2>1, Kinds, RetriesKnown DEF Messages
  <2>3. queue' = queue \cup {m} /\ callback' = [callback EXCEPT ![b] = Resting]
    BY <1>6 DEF Publish, Return
  <2> HIDE DEF m
  <2>4. UNCHANGED <<rows, worker, mailed, lost>>
    BY <1>6 DEF Publish
  <2>5. callback'[b] = Resting /\ \A a \in Callbacks : a # b => callback'[a] = callback[a]
    BY <2>3 DEF Inv, Types
  <2>6. Types'
    BY <2>2, <2>3, <2>4 DEF Inv, Types, rows
  <2>7. EventsOwned'
    BY <2>4, <2>5, Kinds DEF Inv, rows, EventsOwned, Creating, Exists
  <2>8. RowsOwned'
    BY <2>1, <2>2, <2>3, <2>4, <2>5, Kinds DEF Inv, rows, RowsOwned, Inserted, Exists, Busy
  <2>9. AcceptedAlone'
    BY <2>1, <2>2, <2>3, <2>4, <2>5, Kinds DEF Inv, rows, AcceptedAlone, Inserted, Exists, Busy
  <2> QED BY <2>6, <2>7, <2>8, <2>9 DEF Inv
<1> QED BY <1>1, <1>2, <1>3, <1>4, <1>5, <1>6 DEF CallbackStep

-----------------------------------------------------------------------------
(* Workers.                                                                *)

\* A worker that stops lets go of its row, or hands it back to the queue.
LEMMA WorkerLetsGo ==
  ASSUME Inv, NEW w \in Workers, Busy(w), worker' = [worker EXCEPT ![w] = Resting],
         UNCHANGED <<rows, callback, mailed>>, lost' \subseteq Deliveries,
         \/ queue' = queue
         \/ /\ worker[w].answer # "accepted" \/ worker[w].stage # "recorded"
            /\ \E m \in Messages : m.delivery = worker[w].msg.delivery /\ queue' = queue \cup {m}
  PROVE  Inv'
<1> USE Kinds DEF Inv, rows
<1>1. worker'[w] = Resting /\ \A v \in Workers : v # w => worker'[v] = worker[v]
  BY DEF Types
<1>2. Types'
  BY DEF Types
<1>3. EventsOwned'
  BY DEF EventsOwned, Creating, Exists
<1>4. RowsOwned'
  BY <1>1 DEF RowsOwned, Inserted, Exists, Busy
<1>5. AcceptedAlone'
  BY <1>1 DEF RowsOwned, AcceptedAlone, Inserted, Exists, Busy
<1> QED BY <1>2, <1>3, <1>4, <1>5

\* A message nobody can make an email of leaves the queue and changes nothing else.
LEMMA DropKeeps == ASSUME Inv, NEW w \in Workers, Take(w), ~sender PROVE Inv'
<1>1. queue' \subseteq queue /\ UNCHANGED <<rows, callback, worker, mailed, lost>>
  BY DEF Take, Begin, rows
<1>2. Types' BY <1>1 DEF Inv, Types, rows
<1>3. EventsOwned' BY <1>1 DEF Inv, rows, EventsOwned, Creating, Exists
<1>4. RowsOwned' BY <1>1 DEF Inv, rows, RowsOwned, Inserted, Exists, Busy
<1>5. AcceptedAlone' BY <1>1 DEF Inv, rows, AcceptedAlone, Inserted, Exists, Busy
<1> QED BY <1>2, <1>3, <1>4, <1>5 DEF Inv

LEMMA TakeKeeps == ASSUME Inv, NEW w \in Workers, Take(w), sender PROVE Inv'
<1>1. PICK m \in queue : Begin(w, m) /\ queue' = queue \ {m}
  BY DEF Take
<1> DEFINE d   == m.delivery
           row == [delivery[d] EXCEPT !.attempts = @ + 1]
           x   == [stage |-> "calling", msg |-> m]
<1>2. m \in Messages /\ d \in Deliveries /\ Exists(d) /\ delivery[d] \in Rows
  BY Kinds DEF Inv, Types, RowsOwned, Exists
<1>3. row \in Rows /\ row.event = delivery[d].event /\ row.status = delivery[d].status
  BY <1>2 DEF Rows
<1>4. x \in Callers /\ x.stage = "calling" /\ x.msg = m
  BY <1>2 DEF Callers
<1>5. worker' = [worker EXCEPT ![w] = x] /\ delivery' = [delivery EXCEPT ![d] = row] /\ ~Busy(w)
  BY <1>1 DEF Begin, Busy
<1>6. UNCHANGED <<sender, preference, inbox, callback, mailed, lost>>
  BY <1>1 DEF Begin
<1> HIDE DEF row, x
<1>7. /\ worker'[w] = x /\ \A v \in Workers : v # w => worker'[v] = worker[v]
      /\ delivery'[d] = row /\ \A e \in Deliveries : e # d => delivery'[e] = delivery[e]
  BY <1>2, <1>5 DEF Inv, Types
<1>8. \A e \in Deliveries : /\ Exists(e)' <=> Exists(e)
                            /\ Exists(e) => /\ delivery'[e].event = delivery[e].event
                                            /\ delivery'[e].status = delivery[e].status
  BY <1>2, <1>3, <1>7, Kinds DEF Exists
<1>9. Types'
  BY <1>1, <1>3, <1>4, <1>5, <1>6 DEF Inv, Types
<1>10. EventsOwned'
  BY <1>6, <1>8 DEF Inv, EventsOwned, Creating
<1>11. \A v \in Workers : Busy(v)' => IF v = w THEN worker'[v].msg = m
                                      ELSE Busy(v) /\ worker'[v] = worker[v]
  BY <1>4, <1>7 DEF Busy
<1>12. RowsOwned'
  <2>1. /\ \A b \in Callbacks : Inserted(b) => callback[b].delivery \in Deliveries
        /\ \A n \in queue : n.delivery \in Deliveries
        /\ \A v \in Workers : Busy(v) => worker[v].msg.delivery \in Deliveries
        /\ mailed \subseteq Deliveries
    BY Kinds DEF Inv, Types, Inserted, Busy
  <2> QED BY <1>1, <1>2, <1>6, <1>8, <1>11, <2>1 DEF Inv, RowsOwned, Inserted
<1>13. AcceptedAlone'
  <2>1. delivery[d].status # "accepted"
    BY <1>2 DEF Inv, AcceptedAlone
  <2> QED BY <1>1, <1>2, <1>6, <1>8, <1>11, <2>1 DEF Inv, AcceptedAlone, Inserted
<1> QED BY <1>9, <1>10, <1>12, <1>13 DEF Inv

LEMMA CallKeeps == ASSUME Inv, NEW w \in Workers, CallProvider(w) PROVE Inv'
<1> DEFINE d == worker[w].msg.delivery
<1>1. worker[w] \in Callers /\ Busy(w) /\ worker[w].msg \in Messages /\ d \in Deliveries
  BY Kinds DEF CallProvider, Inv, Types, Busy
<1>2. PICK answer \in {"accepted", "retryable", "permanent"} :
        /\ worker' = [worker EXCEPT ![w] = [stage |-> "answered", msg |-> worker[w].msg, answer |-> answer]]
        /\ mailed' = mailed \/ mailed' = mailed \cup {d}
  BY DEF CallProvider, send, _bird_error
<1> DEFINE x == [stage |-> "answered", msg |-> worker[w].msg, answer |-> answer]
<1>3. x \in Answered /\ x.stage = "answered" /\ x.msg = worker[w].msg
  BY <1>1 DEF Answered
<1>4. worker' = [worker EXCEPT ![w] = x]
  BY <1>2
<1> HIDE DEF x
<1>5. worker'[w] = x /\ \A v \in Workers : v # w => worker'[v] = worker[v]
  BY <1>4 DEF Inv, Types
<1>6. UNCHANGED <<rows, callback, queue, lost>>
  BY DEF CallProvider
<1>7. Types'
  BY <1>1, <1>2, <1>3, <1>4, <1>6 DEF Inv, Types, rows
<1>8. EventsOwned'
  BY <1>6 DEF Inv, rows, EventsOwned, Creating, Exists
<1>9. \A v \in Workers : Busy(v)' => Busy(v) /\ worker'[v].msg = worker[v].msg
  BY <1>1, <1>3, <1>5 DEF Busy
<1>10. Exists(d)
  BY <1>1 DEF Inv, RowsOwned
<1>11. RowsOwned'
  BY <1>2, <1>6, <1>9, <1>10 DEF Inv, rows, RowsOwned, Inserted, Exists
<1>12. AcceptedAlone'
  <2>1. delivery[d].status # "accepted"
    BY <1>1, <1>10, Kinds DEF Inv, AcceptedAlone
  <2> QED BY <1>3, <1>5, <1>6, <1>9, <2>1 DEF Inv, rows, AcceptedAlone, Inserted, Exists
<1> QED BY <1>7, <1>8, <1>11, <1>12 DEF Inv

LEMMA RecordKeeps == ASSUME Inv, NEW w \in Workers, RecordAnswer(w) PROVE Inv'
<1> DEFINE d   == worker[w].msg.delivery
           s   == StatusAfter(worker[w].answer, delivery[d].status)
           row == [delivery[d] EXCEPT !.status = s]
           x   == [worker[w] EXCEPT !.stage = "recorded"]
<1>1. worker[w] \in Answered /\ Busy(w) /\ worker[w].msg \in Messages /\ d \in Deliveries
  BY Kinds DEF RecordAnswer, Inv, Types, Busy
<1>2. Exists(d) /\ delivery[d] \in Rows
  BY <1>1 DEF Inv, Types, RowsOwned, Exists
<1>3. s \in {"accepted", "failed"} /\ (s = "accepted" => worker[w].answer = "accepted")
  BY <1>1, Kinds DEF StatusAfter, Caught
<1> HIDE DEF s
<1>4. row \in Rows /\ row.event = delivery[d].event /\ row.status = s
  BY <1>2, <1>3 DEF Rows
<1>5. x \in Answered /\ x.stage = "recorded" /\ x.msg = worker[w].msg /\ x.answer = worker[w].answer
  BY <1>1 DEF Answered
<1>6. worker' = [worker EXCEPT ![w] = x] /\ delivery' = [delivery EXCEPT ![d] = row]
  BY DEF RecordAnswer, s
<1>7. UNCHANGED <<sender, preference, inbox, callback, queue, mailed, lost>>
  BY DEF RecordAnswer
<1> HIDE DEF row, x
<1>8. /\ worker'[w] = x /\ \A v \in Workers : v # w => worker'[v] = worker[v]
      /\ delivery'[d] = row /\ \A e \in Deliveries : e # d => delivery'[e] = delivery[e]
  BY <1>1, <1>6 DEF Inv, Types
<1>9. \A e \in Deliveries : (Exists(e)' <=> Exists(e)) /\ (Exists(e) => delivery'[e].event = delivery[e].event)
  BY <1>2, <1>4, <1>8, Kinds DEF Exists
<1>10. \A v \in Workers : Busy(v)' => Busy(v) /\ worker'[v].msg = worker[v].msg
  BY <1>1, <1>5, <1>8 DEF Busy
<1>11. Types'
  BY <1>4, <1>5, <1>6, <1>7 DEF Inv, Types
<1>12. EventsOwned'
  BY <1>7, <1>9 DEF Inv, EventsOwned, Creating
<1>13. RowsOwned'
  <2>1. /\ \A b \in Callbacks : Inserted(b) => callback[b].delivery \in Deliveries
        /\ \A n \in queue : n.delivery \in Deliveries
        /\ \A v \in Workers : Busy(v) => worker[v].msg.delivery \in Deliveries
        /\ mailed \subseteq Deliveries
    BY Kinds DEF Inv, Types, Inserted, Busy
  <2> QED BY <1>7, <1>9, <1>10, <2>1 DEF Inv, RowsOwned, Inserted
<1>14. AcceptedAlone'
  <2>1. /\ \A b \in Callbacks : Inserted(b) => callback[b].delivery # d
        /\ \A m \in queue : m.delivery # d
        /\ \A v \in Workers : v # w /\ Busy(v) => worker[v].msg.delivery # d
    BY <1>1 DEF Inv, RowsOwned
  <2> QED BY <1>3, <1>4, <1>5, <1>7, <1>8, <1>9, <1>10, <2>1 DEF Inv, AcceptedAlone, Inserted
<1> QED BY <1>11, <1>12, <1>13, <1>14 DEF Inv

LEMMA WorkerKeeps ==
  ASSUME Inv, NEW w \in Workers, Take(w) \/ WorkerStep(w) \/ WorkerDies(w) PROVE Inv'
<1>1. CASE FinishTask(w)
  <2>1. worker[w] \in Answered /\ Busy(w)
    BY <1>1, Kinds DEF FinishTask, Inv, Types, Busy
  <2>2. CASE queue' = queue
    BY <1>1, <2>1, <2>2, WorkerLetsGo DEF FinishTask, Inv, Types
  <2>3. CASE /\ worker[w].answer = "retryable" /\ MayRetry(worker[w].msg)
             /\ queue' = queue \cup {[worker[w].msg EXCEPT !.retries = @ + 1]}
    <3> DEFINE m == [worker[w].msg EXCEPT !.retries = @ + 1]
    <3>1. m \in Messages /\ m.delivery = worker[w].msg.delivery
      BY <2>1, <2>3, RetriesKnown DEF MayRetry, Messages, Answered
    <3> HIDE DEF m
    <3>2. queue' = queue \cup {m}
      BY <2>3 DEF m
    <3> QED BY <1>1, <2>1, <2>3, <3>1, <3>2, WorkerLetsGo DEF FinishTask, Inv, Types
  <2> QED BY <1>1, <2>2, <2>3 DEF FinishTask
<1>2. CASE WorkerDies(w)
  <2>1. Busy(w) /\ worker[w].msg.delivery \in Deliveries
    BY <1>2, Kinds DEF WorkerDies, Busy, Inv, Types
  <2> QED BY <1>2, <2>1, WorkerLetsGo DEF WorkerDies, Inv, Types
<1> QED BY <1>1, <1>2, TakeKeeps, DropKeeps, CallKeeps, RecordKeeps DEF WorkerStep

LEMMA NextKeeps == ASSUME Inv, [Next]_vars PROVE Inv'
<1>1. ASSUME NEW u \in Users, SetPreference(u) PROVE Inv'
  BY <1>1 DEF SetPreference, Inv, Types, EventsOwned, RowsOwned, AcceptedAlone, mail,
              Creating, Inserted, Exists, Busy
<1>2. CASE UNCHANGED vars
  BY <1>2 DEF vars, rows, mail, Inv, Types, EventsOwned, RowsOwned, AcceptedAlone,
              Creating, Inserted, Exists, Busy
<1> QED BY <1>1, <1>2, CallbackKeeps, WorkerKeeps DEF Next

LEMMA Invariance == Spec => []Inv
<1>1. Inv /\ [Next]_vars => Inv'
  BY NextKeeps
<1> QED BY <1>1, InitEstablishes, PTL DEF Spec

-----------------------------------------------------------------------------
\* Rows, messages, callbacks and workers are what the code makes of them.
THEOREM TypeCorrect == Spec => []TypeOK
<1>1. Inv => TypeOK
  BY Kinds DEF Inv, Types, TypeOK, Rows, Messages
<1> QED BY <1>1, Invariance, PTL

\* However often and by however many callbacks at once an event is announced, and whatever
\* is retried, its user gets one email at most (unique_notification_event, _create_notification).
THEOREM OneEmail == Spec => []OneEmailPerEvent
<1>1. Inv => OneEmailPerEvent
  BY DEF Inv, Types, RowsOwned, EventsOwned, OneEmailPerEvent
<1> QED BY <1>1, Invariance, PTL

\* A row that says accepted goes on saying so: whoever could write another status has let
\* go of it (send_email_delivery).
THEOREM AcceptedStays == Spec => AcceptedIsFinal
<1> DEFINE Final == \A d \in Deliveries :
             delivery[d] # NoDelivery /\ delivery[d].status = "accepted" => delivery'[d].status = "accepted"
<1>1. ASSUME Inv, [Next]_vars PROVE Final
  <2>1. ASSUME NEW w \in Workers, RecordAnswer(w) PROVE Final
    <3>1. /\ worker[w].stage = "answered" /\ Busy(w)
          /\ \E x : delivery' = [delivery EXCEPT ![worker[w].msg.delivery].status = x]
      BY <2>1, Kinds DEF RecordAnswer, Busy
    <3>2. \A d \in Deliveries : d # worker[w].msg.delivery => delivery'[d] = delivery[d]
      BY <1>1, <3>1 DEF Inv, Types
    <3> QED BY <1>1, <3>1, <3>2 DEF Inv, AcceptedAlone, Exists
  <2>2. ASSUME NEW w \in Workers, Take(w) PROVE Final
    <3>0. CASE UNCHANGED delivery BY <3>0
    <3>1. PICK m \in queue : \/ UNCHANGED delivery
                             \/ delivery' = [delivery EXCEPT ![m.delivery].attempts = @ + 1]
      BY <2>2 DEF Take, Begin
    <3>2. \A d \in Deliveries : d # m.delivery => delivery'[d] = delivery[d]
      BY <1>1, <3>1 DEF Inv, Types
    <3> QED BY <1>1, <3>0, <3>1, <3>2 DEF Inv, AcceptedAlone, Exists
  <2>3. ASSUME NEW b \in Callbacks, InsertDelivery(b) PROVE Final
    <3>1. PICK d \in Deliveries : /\ delivery[d] = NoDelivery
                                  /\ \E x : delivery' = [delivery EXCEPT ![d] = x]
      BY <2>3 DEF InsertDelivery
    <3> QED BY <1>1, <3>1 DEF Inv, Types
  <2>4. CASE UNCHANGED delivery
    BY <2>4
  <2> QED BY <1>1, <2>1, <2>2, <2>3, <2>4 DEF Next, vars, rows, Announce, CallbackStep, Abandon,
          CreateNotification, CheckPreference, Publish, WorkerStep, CallProvider, FinishTask,
          WorkerDies, SetPreference
<1>2. Inv /\ [Next]_vars => [Final]_vars
  BY <1>1
<1> QED BY <1>2, Invariance, PTL DEF Spec, AcceptedIsFinal
=============================================================================
