--------------------------- MODULE Notifications ---------------------------
(***************************************************************************)
(* From an event to an email: notify_transactional's callbacks after a     *)
(* commit, the EmailDelivery rows, the Celery queue, its workers and the   *)
(* email provider (notifications/services.py, notifications/tasks.py).     *)
(*                                                                         *)
(* A callback is  idle -> new -> created -> wanted -> inserted -> idle,     *)
(* a worker  idle -> calling -> answered -> recorded -> idle.  Callbacks    *)
(* and workers may stop anywhere, and messages are acknowledged when they  *)
(* are taken, so what a dying worker held is gone.                         *)
(***************************************************************************)
EXTENDS Integers, FiniteSets

CONSTANTS
  Users, Keys,   \* an event is a user and an event key
  Deliveries,    \* EmailDelivery rows
  Callbacks,     \* callbacks running at once                       (bound)
  Workers,       \* Celery workers
  MaxRetries     \* send_email_delivery_task's max_retries

ASSUME RetriesKnown == MaxRetries \in Nat

VARIABLES
  sender,       \* whether DEFAULT_FROM_EMAIL is set where the workers run
  preference,   \* NotificationPreference rows: in-app and email switches
  inbox,        \* events that have a Notification row
  delivery,     \* EmailDelivery rows
  callback,     \* each callback's stage and event
  queue,        \* messages of send_email_delivery_task waiting in the broker
  worker,       \* each worker's stage, message and what the provider answered
  mailed,       \* idempotency keys the provider has taken an email for
  lost          \* deliveries whose message died with a worker (history)

rows == <<sender, preference, inbox, delivery>>
mail == <<queue, worker, mailed, lost>>
vars == <<rows, callback, mail>>

Events     == Users \X Keys
NoDelivery == [status |-> "NONE"]
Resting    == [stage |-> "idle"]
-----------------------------------------------------------------------------
(* notify_transactional                                                    *)

Proceed(b, s) == callback' = [callback EXCEPT ![b].stage = s]
Return(b)     == callback' = [callback EXCEPT ![b] = Resting]

\* The same event may be announced many times: an hourly reminder, a repeated task.
Announce(b) ==
  /\ callback[b] = Resting
  /\ \E e \in Events : callback' = [callback EXCEPT ![b] = [stage |-> "new", event |-> e]]
  /\ UNCHANGED <<rows, mail>>

\* _create_notification.  Without in-app notifications there is no email either, and
\* unique_notification_event makes one of several callbacks the one that created it.
AnyRow(e) == TRUE
NoRowYet(e) == e \notin inbox
CreateNotification(b) ==
  LET e == callback[b].event
  IN  /\ callback[b].stage = "new"
      /\ IF preference[e[1]].in_app /\ NoRowYet(e)
         THEN inbox' = inbox \cup {e} /\ Proceed(b, "created")
         ELSE Return(b) /\ UNCHANGED inbox
      /\ UNCHANGED <<sender, preference, delivery, mail>>

CheckPreference(b) ==
  /\ callback[b].stage = "created"
  /\ IF preference[callback[b].event[1]].email THEN Proceed(b, "wanted") ELSE Return(b)
  /\ UNCHANGED <<rows, mail>>

InsertDelivery(b) ==
  /\ callback[b].stage = "wanted"
  /\ \E d \in Deliveries :
       /\ delivery[d] = NoDelivery
       /\ delivery' = [delivery EXCEPT ![d] = [status |-> "pending", event |-> callback[b].event, attempts |-> 0]]
       /\ callback' = [callback EXCEPT ![b] = [stage |-> "inserted", event |-> callback[b].event, delivery |-> d]]
  /\ UNCHANGED <<sender, preference, inbox, mail>>

\* apply_async(retry=False)
Publish(b) ==
  /\ callback[b].stage = "inserted"
  /\ queue' = queue \cup {[delivery |-> callback[b].delivery, retries |-> 0]}
  /\ Return(b)
  /\ UNCHANGED <<rows, worker, mailed, lost>>

\* The broker does not answer, the callback raises or its process dies: on_commit's
\* robust=True logs it, and nothing is undone.
Abandon(b) == callback[b] # Resting /\ Return(b) /\ UNCHANGED <<rows, mail>>
-----------------------------------------------------------------------------
(* send_email_delivery_task and send_email_delivery                        *)

\* get, build_email_message and attempts += 1, before the call.  Without a sender there
\* is no message to build: the task returns "failed" and leaves the row as it is.
Begin(w, msg) ==
  /\ worker[w] = Resting
  /\ \/ /\ sender
        /\ worker' = [worker EXCEPT ![w] = [stage |-> "calling", msg |-> msg]]
        /\ delivery' = [delivery EXCEPT ![msg.delivery].attempts = @ + 1]
     \/ ~sender /\ UNCHANGED <<worker, delivery>>
  /\ UNCHANGED <<sender, preference, inbox, callback, mailed, lost>>

TakeAndKeep(w) == \E msg \in queue : Begin(w, msg) /\ UNCHANGED queue
\* Celery acknowledges a message before its task runs.
Take(w) == \E msg \in queue : Begin(w, msg) /\ queue' = queue \ {msg}

\* What a call comes to: a status code, none in time, or no call at all for a message or a
\* configuration that is refused; and what send makes of it.
Replies == {"202", "2xx", "429", "4xx", "5xx", "none", "refused"}
_bird_error(reply) == IF reply \in {"429", "5xx"} THEN "retryable" ELSE "permanent"
send(reply) == CASE reply = "202"     -> "accepted"
                 [] reply = "none"    -> "retryable"
                 [] reply = "refused" -> "permanent"
                 [] OTHER             -> _bird_error(reply)
\* The provider has taken the email with a 202 and not where it refuses; otherwise nobody knows.
Took(reply) == CASE reply = "202"                      -> {TRUE}
                 [] reply \in {"429", "4xx", "refused"} -> {FALSE}
                 [] OTHER                              -> BOOLEAN

CallProvider(w) ==
  /\ worker[w].stage = "calling"
  /\ \E reply \in Replies : \E took \in Took(reply) :
       /\ worker' = [worker EXCEPT ![w] = [stage |-> "answered", msg |-> worker[w].msg, answer |-> send(reply)]]
       /\ mailed' = IF took THEN mailed \cup {worker[w].msg.delivery} ELSE mailed
  /\ UNCHANGED <<rows, callback, queue, lost>>

\* The errors send_email_delivery catches, and what the row says after each answer.
RetryableOnly == {"retryable"}
Caught == {"retryable", "permanent"}
StatusAfter(answer, before) ==
  IF answer = "accepted" THEN "accepted" ELSE IF answer \in Caught THEN "failed" ELSE before

RecordAnswer(w) ==
  /\ worker[w].stage = "answered"
  /\ delivery' = [delivery EXCEPT ![worker[w].msg.delivery].status = StatusAfter(worker[w].answer, @)]
  /\ worker' = [worker EXCEPT ![w].stage = "recorded"]
  /\ UNCHANGED <<sender, preference, inbox, callback, queue, mailed, lost>>

RetryOnceMore(msg) == msg.retries <= MaxRetries
MayRetry(msg) == msg.retries < MaxRetries
FinishTask(w) ==
  LET msg == worker[w].msg
  IN  /\ worker[w].stage = "recorded"
      /\ queue' = IF worker[w].answer = "retryable" /\ MayRetry(msg)
                  THEN queue \cup {[msg EXCEPT !.retries = @ + 1]} ELSE queue
      /\ worker' = [worker EXCEPT ![w] = Resting]
      /\ UNCHANGED <<rows, callback, mailed, lost>>

\* A worker is killed, or its task raises what nobody catches (an SMTP error).
WorkerDies(w) ==
  /\ worker[w] # Resting
  /\ worker' = [worker EXCEPT ![w] = Resting]
  /\ lost' = lost \cup {worker[w].msg.delivery}
  /\ UNCHANGED <<rows, callback, queue, mailed>>
-----------------------------------------------------------------------------
\* Users switch notifications and emails on and off.
SetPreference(u) ==
  /\ \E p \in [in_app: BOOLEAN, email: BOOLEAN] : preference' = [preference EXCEPT ![u] = p]
  /\ UNCHANGED <<sender, inbox, delivery, callback, mail>>

Init ==
  /\ sender \in BOOLEAN
  /\ preference = [u \in Users |-> [in_app |-> TRUE, email |-> TRUE]]
  /\ inbox = {} /\ queue = {} /\ mailed = {} /\ lost = {}
  /\ delivery = [d \in Deliveries |-> NoDelivery]
  /\ callback = [b \in Callbacks |-> Resting]
  /\ worker = [w \in Workers |-> Resting]

CallbackStep(b) == \/ CreateNotification(b) \/ CheckPreference(b) \/ InsertDelivery(b) \/ Publish(b)
WorkerStep(w) == CallProvider(w) \/ RecordAnswer(w) \/ FinishTask(w)

Next == \/ \E b \in Callbacks : Announce(b) \/ CallbackStep(b) \/ Abandon(b)
        \/ \E w \in Workers : Take(w) \/ WorkerStep(w) \/ WorkerDies(w)
        \/ \E u \in Users : SetPreference(u)

Spec == Init /\ [][Next]_vars

\* Workers keep running: they take messages while there are any and finish tasks.
FairSpec == /\ Spec
            /\ WF_vars(\E w \in Workers : Take(w))
            /\ \A w \in Workers : WF_vars(WorkerStep(w))
-----------------------------------------------------------------------------
TypeOK ==
  /\ sender \in BOOLEAN
  /\ preference \in [Users -> [in_app: BOOLEAN, email: BOOLEAN]]
  /\ inbox \subseteq Events
  /\ \A d \in Deliveries :
       delivery[d] # NoDelivery =>
         delivery[d] \in [status: {"pending", "accepted", "failed"}, event: Events, attempts: Nat]
  /\ \A b \in Callbacks : callback[b] # Resting => callback[b].event \in Events
  /\ queue \subseteq [delivery: Deliveries, retries: 0..MaxRetries]
  /\ \A w \in Workers : worker[w] # Resting => worker[w].msg \in [delivery: Deliveries, retries: 0..MaxRetries]
  /\ mailed \subseteq Deliveries /\ lost \subseteq Deliveries

\* Event keys: however often an event is announced, by however many callbacks at
\* once, and whatever is retried, its user gets one email about it at most.
OneEmailPerEvent ==
  \A d, e \in mailed : delivery[d].event = delivery[e].event => d = e

\* What is accepted stays so: no late retry turns the row to failed.
AcceptedIsFinal ==
  [][\A d \in Deliveries :
       delivery[d] # NoDelivery /\ delivery[d].status = "accepted" => delivery'[d].status = "accepted"]_vars

\* An email in the queue ends up accepted or failed for good, unless a worker died with
\* it; where no sender is configured it leaves the queue all the same.
InQueue(d) == \E msg \in queue : msg.delivery = d
InHands(d) == \E w \in Workers : worker[w] # Resting /\ worker[w].msg.delivery = d
EmailsSettle ==
  \A d \in Deliveries :
    InQueue(d) ~> \/ d \in lost
                  \/ /\ sender => delivery[d].status \in {"accepted", "failed"}
                     /\ ~InQueue(d) /\ ~InHands(d)
=============================================================================
