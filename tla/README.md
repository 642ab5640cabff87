# SurePlace: a TLA+ model of the backend

SurePlace is a Django/PostgreSQL backend for property listings and short stays
in Eswatini. This directory models the parts of it in which concurrent
requests, periodic tasks and the clock decide what users are promised: that a
room is not sold twice, that a host publishes no more than the plan covers,
that a listing changes hands exactly as agreed, that an event sends one email,
that a claimed invitation becomes the listing somebody approved. The source is
under `src/`; every modelled definition is mapped to lines of it in
`PROJECT.json`.

Contents: 1 the system, 2 the modules, 3 the runs, 4 fairness, 5 the proofs,
6 disagreements with docs and code bugs, 7 what does not hold and is no
promise, 8 what is left out, 9 the plan.

## 1. The system

One PostgreSQL database, web workers (one request, one thread, READ COMMITTED,
no `ATOMIC_REQUESTS`), Celery workers, a Redis broker and cache, an email
provider. Consistency comes from row locks (`select_for_update`), unique
indexes and the order in which a request reads and writes; where a request
takes no lock, from nothing.

| Component | State | Operations | Talks to | What makes it correct |
|---|---|---|---|---|
| Stay bookings (`bookings/`) | `Booking` rows: room, nights, status, hold expiry, idempotency key | create, confirm, decline, cancel, complete; expire every 5 minutes | room and stay rows by lock; conversations, notifications after commit | no night oversold; status graph; retries find the first booking; lapsed holds resolved |
| Room calendar and room types (`stays/views.py`) | quantity, `is_active`, one `RoomAvailability` row per edited night | bulk calendar edit, quantity and activity change, quotes | reservations | never below what is reserved; a quote is what a booking would get |
| Stay allowance (`stays/entitlements.py`, `stays/tasks.py`) | subscriptions, extra units, capacity reviews | grant, subscribe, cancel, renew; hourly task | publication (`Stay.save`), bookings' obligations | limit never exceeded by publishing; a unit is bound once; guests are honoured |
| Stay moderation and host lifecycle (`moderation/`, `stays/`) | `Stay.status`, owner or agency | submit, approve, refuse, suspend, restore, pause, edit | allowance | owner changes only by transfer; no lock cycle |
| Property listings, plans, moderation (`properties/`, `moderation/`) | status, availability confirmation, subscriptions, units | publish, pause, confirm, moderate; daily reminders, hourly expiry | owners' rows, featured cache | plan limits; stale listings leave, confirmed ones stay |
| Agencies (`agencies/`) | members, roles, invitations, public pages | change a role, remove, invite, accept, decline; directory, dashboard | transfers, listings | always an active owner; pages agree |
| Listing transfers (`core/transfers.py`) | `ListingTransfer` rows | send, accept, decline, cancel; overdue after 7 days | agencies, allowance | decided once; moves the listing as asked |
| Notifications and email (`notifications/`) | `Notification`, preference and `EmailDelivery` rows, the Celery queue | announce after commit, enqueue, send, retry; links and letters | broker, provider, every other component | one email per event; accepted is final; rows settle |
| Onboarding (`core/onboarding.py`) | prospects, previews, the invitation | revise, photographs, issue, approve, invite, claim | listings | the claimed version is the one approved and seen; one listing |
| Verification (`verification/`) | requests, documents, audit, badges | submit, edit, cancel, review, suspend | agencies, listings, users | one decision per submission |
| Accounts (`accounts/`) | users, verification and reset links, roles | register, edit, verify, reset, restrict; create and assign roles | email | one account per address; roles as answered |
| Messaging, viewings (`messaging/`, `bookings/views.py`) | conversations, messages, read marks, viewing requests | open, send, read, delete; request, confirm, decline, cancel | notifications | unread counts agree; one active viewing a slot |
| Saved searches, favourites, photos | small tables | create, evaluate, edit, delete | notifications | reported once; unique pair; one cover |
| Reports and moderation pages (`moderation/`) | reports, audit events | file, review, resolve, dismiss, count | listings | every outcome on the trail; counts agree |
| Demo data (`core/management/commands/`) | the rows earlier runs made | seed, reset, rerun | plans | the printed summary is true; plans hold |

What is hard here: a booking's hold lapses by the clock while its confirmation
is under way; calendar, quantity and reservations bound each other but are
edited by different endpoints; tasks work with the instant or the rows they
read when they started; some handlers save every column of a row they read
earlier; owner rows, listings and rooms are locked in several orders; most
small services lock nothing, so that two requests interleave between any two
statements; one fact is told by several pages that compute it apart.
`PROJECT.json` lists each such hazard at its line with the properties that
watch it, or why none does.

## 2. The modules

A request is not one step. In each module it goes through the stages at which
the code lets others in (before each row lock, between its check and its
commit, or, without locks, between two statements), and the clock ticks
anywhere. Row locks are one function `holder`. Refusals for reasons that are
not modelled (permissions, prices, forms), errors and lost connections are one
action (`Rollback`, `GiveUp`, `Abandon`, `AbortRun`).

**RoomLedger** (abstract). Claims on nights, granted whole or not at all, and an
offer the host never lowers below what is granted. No locks or clock.

**RoomBooking** (`bookings/services.py`, `stays/views.py`, part of
`stays/tasks.py`). `booking` is the table; `rowUnits`, `blocked`, `quantity`,
`active` the calendar; `stayStatus`, `bookingMode` the stay.
`create_booking` is `BeginCreate` (first idempotency lookup), `LockRoom`,
`LockStay`, `CheckCreate` (second lookup, published, active, inventory) and
`InsertBooking`. `transition` is `BeginChange`, `LockRoom`, `CheckChange`,
`SaveChange`; `expire_pending` is `ScanExpired` (no lock) and one `BeginExpire`
per candidate. `bulk` and `perform_update` are `...Bulk` and `...Update`.
`BeginPause`..`SavePause` is the task's pause, which locks all rooms in key
order and then the stay. Dates are 1..LastDay; the clock `now` and the date
`today` advance together, the date at most one day a tick.

**StayAllowance** (`stays/entitlements.py`, `Stay.save`, `stays/tasks.py`,
`moderation/stays.py`). `unit` is the `StayListingAddOn` table (one row per unit
of a package), `subs` each owner's subscriptions, `review` the capacity reviews.
An owner ("scope") is a host or an agency. `EnsureCapacity`/`Refused` is
`ensure_capacity`, `Bind` is `activate_unit`. `LockStay` re-reads the owner as
`lock_stay_owners` does; `BeginPause`/`ReadForSave`/`SavePause` is the host's
pause, which saves a copy loaded outside any transaction. `run` is one run of
the task: three phases (subscriptions, units, owners), a list of rows read when
a phase begins, and the instant `at` at which the run started. Guests appear
only as `obliged` (`booking_obligations(stay).exists()`); RoomBooking has them
in full. Staff's `listing_action` (kinds `suspend`, `reinstate`) is the one request
that takes the stay without looking whether its owner is still the one it locked,
and then asks for the owner it finds (`LockStayAnyway`); `BreakCircle` is PostgreSQL
failing one of the transactions that may wait for each other after that.

**PlaceLedger** (abstract). What a host, staff and the task may rely on about an
owner's places (`stays/entitlements.py`), without locks, transactions or reads of
old rows: a stay goes live within its owner's plan or on a grant, which is spent
once, the oldest first and only when the plan is full; it leaves the market when it
is withdrawn, or when its grant has run out, its owner's plan is overfull and it
owes no guest a night. Each is one step, judged as of an instant that may be past.
StayAllowance implements it (`ImplementsPlaceLedger`): `allowance_requests` checks the
requests' steps, the theorem covers the task's as well.

**PropertyListing** (`properties/models.py`, `entitlements.py`, `services.py`,
`tasks.py`, `moderation/views.py`, `notifications/tasks.py`). The properties'
counterpart, with what only they have: an age since the last confirmation,
reminders, and requests that load the listing without a lock (`Load`), lock
owners (`LockOwner`) and the row (`LockRow`), check and write some columns.
`Upkeep` is a run of the reminder task, which locks the listing first (stage
`held`) and then its owner; `Expiry` the hourly one. `BreakCircle` is
PostgreSQL failing one of the transactions that wait for each other.

**AgencyTeam** (`agencies/views.py`). `role`, `active`, `invite`. Nothing is
locked, so each query is a stage of its own: authorise, load the member, look for
another owner, save. An invitation is read outside the transaction that answers
it. `late` and `raced` are history variables: the requests about to write that
another write has overtaken since they last read, and whether one of them did take
the role of an owner, invite or accept.

**ListingTransfer** (`core/transfers.py`), composed with AgencyTeam by EXTENDS:
who may send or receive a managed listing is whoever manages the agency at that
step. A new request locks the listing and closes overdue ones; an answer locks
the request's row, then (to accept) the listing. Owners' rows and capacity belong
to StayAllowance; here one lock per listing stands for them.

**Notifications** (`notifications/services.py`, `tasks.py`,
`email_providers.py`). Callbacks after commit create the `Notification` (unique
per user and event key), look at preferences, insert the `EmailDelivery` and
publish a message; workers take a message (acknowledged at once), call the
provider, record and perhaps retry. The provider is external: it answers 202,
another 2xx, 429, 4xx, 5xx or nothing in time, with or without having taken the
email, and takes one email per idempotency key (the delivery's id). `lost` is a
history variable: deliveries whose message died with a worker. `sender` is whether
`DEFAULT_FROM_EMAIL` is set: without it no message can be built, the task answers
"failed" and the row stays as it is.

**Desk** puts together, by INSTANCE, the fifteen components that share no row
with each other. A behaviour of Desk is one of one component, the *scene*; no
step changes the scene, and the variables of the others stay `None`. As no step
of one reads or writes what another owns, a property of one holds beside the
others if it holds alone.

| Module | Models | Promise |
|---|---|---|
| Onboarding | prospect, its photos, previews, approval, invitation, claim; pages are read without a lock in two queries, writes lock the row and compare the version | `HandoffAsApproved`, `LinksOpenWhatWasIssued`, `DecidedAsSeen` |
| Verification | requests, documents, audit, badges; the applicant writes from a copy, the reviewer under a lock | `OneDecisionPerSubmission`, `ChecklistAgrees` |
| Accounts | users, links, resets; every request reads, then writes, without a lock | `AddressesDistinct` |
| Messaging | conversations, messages, read marks, statement by statement | `UnreadAgree` |
| Viewings | viewing requests and their five changes | `OneActiveViewing` |
| SavedSearches | searches, the periodic task that saves back whole rows it read at its start | `MatchCountedOnce` |
| Favourites | check, then insert | `OneFavourite` |
| Photos | the galleries of properties, stays and rooms and their covers | `OneCover` |
| Quotes | `room_availability` and the booking's own computation over one calendar | `QuoteIsBookable` |
| DemoData | seeding, resetting and reseeding around people who use the data | `SummaryTrue`, `WithinPlans` |
| Screens | public search, featured page and its cache, agency's and agent's pages, dashboard | `PagesAgree`, `PagesFollow`, `FeaturedFresh` |
| ListingEdits | an edit form against transfers, teams and moderation | `AgentInTeam`, `PublishedComplete` |
| StaffRoles | staff roles, their permissions and holders | `RolesAsAnswered` |
| Reports | reports, their trail, staff's counts and queues | `Accountable`, `CountsAgree` |
| Notices | what a notification says, where it leads, which letter it becomes | `NoticesLead`, `LettersTell` |

The promises of the small services are checked as three invariants of Desk:
`OneOfEach` (what must exist once at most does), `FactsAgree` (two places that
tell one fact agree) and `ToldInFull` (what is told page by page or run by run is
told in full and once); each conjunct is stated and commented in its module.

**RoomBookingMC, StayAllowanceMC, PropertyListingMC, ListingTransferMC,
NotificationsMC, DeskMC** give TLC small instances and symmetries;
**RoomBookingProofs, StayAllowanceProofs, PropertyListingProofs,
ListingTransferProofs, NotificationsProofs, DeskOnceProofs, DeskFactsProofs,
DeskProofs** hold the theorems.

Operators whose name says what is missing (`BeginUnlocked`, `CheckCreateOnce`,
`OtherOwnerEver`, `AsTyped`, ...) are mistakes somebody could make in the code.
No specification uses them; putting one in the place of its neighbour must break
the property that `PROJECT.json` names, which is how we know that each property
can fail.

## 3. The runs

| Run | Shows | Bounds |
|---|---|---|
| `booking_requests` | no overselling; calendar within quantity; looking at arrival days is enough; a retry with its key never reaches the insert; no cycle of row locks; automatic pauses spare stays with obligations; bookings only into open nights | 2 bookings, 2 requests, 2 room types of one stay with 1 unit, 2 nights, 1 key, 2 instants, in two groups (`Contested`): contention for the nights of one room while the clock stands, and one booking of a night against pauses, closures and time |
| `booking_progress` | lapsed holds are resolved, statuses follow the graph, RoomBooking implements RoomLedger | 2 bookings, 1 request, 1 expiry worker, 3 instants, holds of 1 |
| `allowance_requests` | publications stay within the plan, a unit stays with the owner of its stay and a stay has one running unit, a circle of waiting locks always has a `listing_action` in it, every request is one step of PlaceLedger or none | 2 owners, 2 stays, 2 units, 2 requests, 2 instants; one suspension at a time, before time passes, and not what follows it (`BeforeSuspension`) |
| `allowance_task` | overstays end and reviews close, although the task is killed and units expire | 1 owner, 1 stay, 2 units, 1 request, 1 worker, 3 instants |
| `property_listings` | plan limits, units follow their listing, confirmed listings stay, lapsed and stale ones leave | 2 owners, 2 listings, 2 units, a host, one who moderates and grants, both tasks, 3 days |
| `listing_transfer` | a request is decided once and moves its listing as asked; managed listings keep somebody who may hand them on until a request about the team writes although it was overtaken | 2 users, 1 listing, 2 request rows, 2 transactions about transfers, 2 requests about the team, which overlap each other before a second transfer is sent, and one of them everything else (`InTurn`) |
| `notifications` | one email per event, accepted is final, queued emails settle | 2 events, 2 callbacks, 2 workers, 1 retry, with a sender and without |
| `desk` | the promises of the fifteen scenes | per scene, in `Desk.cfg`; 2 requests or 1 at a time where one suffices, 2 or 3 rows |
| `allowance_stale_pause`, `allowance_lock_order`, `agency_owners`, `property_lock_order` | four disagreements (section 6) | as small as shows them |

Why these bounds are enough. Every race in these components is between two
transactions over one room, stay, owner, member, request or row, so two
clients are needed and a third only repeats what one of them does. The clock
must pass a deadline between a check and a commit (2 instants), and then again
where something must follow the deadline (3). One night shows a full race on a
unit of inventory, two nights are needed for bookings that overlap without
arriving on the same day. Two room types are the least that have a lock order;
two owners the least that a transfer needs. Where `booking_requests` lets the
clock stand, `booking_progress` and the theorems, which hold with it, do not.
In `listing_transfer`, `InTurn` loses little: a request about the team changes what
transfers look at in one step, its last; once the team has had its race, what it
does next says nothing of `NoOrphans`; and the theorems know no such bound. `Workload`, `Asked`,
`Does` restrict the operations of a run to those its question is about; between
them the runs fire every action. `allowance_task` stops killing its worker
before the last instant: a task killed for ever makes no progress and says
nothing. The theorems of section 5 do not depend on any of these bounds.

In `desk`, onboarding has one tab of staff and one of the owner (two tabs of
staff only exchange versions, as one tab with an old page does), 2 links and 2
revisions; verification one applicant beside the reviewers, 2 requests, 2 items of
which one needs the other, 2 submissions; accounts 2 users, 3 spellings of
addresses of which two differ in capitals, 2 requests; messaging 2 messages;
quotes every calendar over 2 nights with one price and one minimum stay; screens
3 listings, 2 of one kind, with an agency's page that shows 1 of each kind (12 in the
code) and counts all; demo
data, of the counts the command accepts (10 and more), the least, one between and
the default 50. A constant is shared by scenes where
their sets have the same size (`Clients`, `Viewings`, `People`): a behaviour
is one scene only, so nothing is mixed. Deadlock is not checked there: some
scenes end (a handed-off prospect, a last day).

Symmetry is used only in runs without liveness properties, over
interchangeable requests, rows, users and stays, never over keys whose order is
the lock order. In `desk` it permutes `Clients` and `Viewings`, which no
definition tells apart.

## 4. Fairness

- `RoomBooking!FairSpec`: the beat schedule runs `expire_pending` every 300 s
  (`settings.py`, `CELERY_BEAT_SCHEDULE`), so scanning, visiting and the
  transactions' own steps are fair; taking a contested row lock is strongly
  fair, because PostgreSQL queues waiters. Users' requests are not fair: nobody has
  to confirm anything.
- `StayAllowance!FairSpec`: the task runs every hour; its steps and those of
  requests in progress are fair, and a circle of waiting transactions is broken
  after `deadlock_timeout` (WF of `BreakCircle`). Workers may be killed, but not for
  ever.
- `PropertyListing!FairSpec`: both tasks are started by the beat schedule (WF)
  and go on (SF where they wait for rows); requests in progress go on (SF);
  PostgreSQL detects a circle of waiting transactions after `deadlock_timeout`
  (WF of `BreakCircle`). Hosts and staff do not have to ask for anything.
- `Notifications!FairSpec`: workers take messages while there are any and finish
  what they do; they may die with a message at any time, which the property excepts.

Desk has no liveness property: none of its services promises one without
somebody asking.

## 5. The proofs

Eight modules, all for every value of the constants under the named assumptions
of the modules (TLC evaluates them on every run). Few of the promises are
inductive; what each rests on is the point of its proof. Names in brackets are
the properties of the runs.

**RoomBookingProofs**: any finite set of bookings, any number of clients,
workers, rooms, stays, keys, nights, units, any hold time. `TypeCorrect` (`TypeOK`),
`NoOversell` (`NeverOversold`), `RowsWithinQuantity` (`CalendarWithinQuantity`),
`DecisionsStand`, `LocksAreHeld`, `StatusGraph` (`StatusFollowsGraph`),
`OpenAtInsert` (`AcceptedOnlyIfOpen`), `RetriesFindTheFirst` (`RetryFindsFirst`),
`PausesSpareGuests` (`PauseSparesObligations`), `NobodyWaitsInACircle`
(`NoLockCycle`), `ImplementsTheLedger` (`ImplementsLedger`). `InsertBooking` does
not look at the inventory, it relies on a check made some steps before:

    IInv == TypeOK /\ RequestsRefer /\ Engaged /\ LocksHeld /\ Promised
    Promised == (NeverOversold and CalendarWithinQuantity) /\ DecisionsHold

where `DecisionsHold` says that what a transaction found in its check is still
true when it commits. The argument: (1) the check establishes it
(`CreateDecided`, `ChangeDecided`, `BulkDecided`, `UpdateDecided`); (2) steps that
write no inventory can only free rooms, because holds lapse and nights pass
(`CalmShrinks`, `QuietStep`); (3) a commit changes only the room whose lock it
holds, so it cannot disturb another transaction's decision (`RoomsApart`, from
`LocksHeld`); (4) a commit whose decision holds keeps the promises
(`InsertStep`, `SaveChangeStep`, `SaveBulkStep`, `SaveUpdateStep`). For a smaller
quantity the code looks at arrival days only; `PeakIsOnArrival` proves that the
peak of reservations from today on always falls on today or an arrival day.
Four properties need one more invariant each about a transaction between its check
and its commit: `ChangesLegal`, `OpenWhenDecided`, `PausesStand` (the stay the task
is about to pause owes nobody a night, since its rooms are all locked) and
`RetryFindsFirst` itself. Lock circles: rooms are taken by primary key and the stay
last (`RoomsInOrder`, `StaysLast`), so whoever waits for the greatest row in a
supposed circle waits for somebody outside. The refinement is a step simulation:
an insert grants, a saved change books or releases, an edit reoffers, everything
else lets claims lapse or changes nothing of the ledger (`StepsAreTheLedgers`).

**StayAllowanceProofs**: `TypeCorrect` (`TypeOK`), `UnitsFollowOwners`
(`UnitsFollowStays`), `PublicationsWithinPlan` (`PublicationWithinPlan`),
`OnlyListingActionsClose` (`CirclesAreListingActions`), `GrantsSpentOnce` (a bound
unit never names another stay; no run checks it apart, the ledger contains it) and
`ImplementsTheLedger` (`ImplementsPlaceLedger`). The invariant is about every request and
every run of the task at once: `Asks` (which request is at which stage), `Holds`
(which owners' rows it holds there, and that a stay it holds still has the owner it
saw) and `Stands` (a publication's check stands until its write). What carries it
is that whoever changes a stay, a unit or a subscription of an owner holds that
owner's row (`StepKeeps`, `OwnedIsGuarded`). `Stays` is assumed finite, because limits
are compared with cardinalities. `OnlyListingActionsClose` is about every set of
requests and runs that wait for its own members, with every operation in the model,
and assumes besides only that owners' keys are bounded. `Ordered` says of a request
what it has when it waits: the owners below the one it wants, and no stay yet unless
it is a `listing_action` that came to a stay with another owner. So whoever waits for
the greatest row in a circle without such a request waits for somebody outside.

`ImplementsTheLedger` needs more than that invariant, because a request decides
steps before it writes, and by a clock that has moved on since:

    LInv == IInv /\ FreshUnits /\ (\A c : Judged(c)) /\ (\A b : Due(b))

`Judged` says of a publication about to be written that it spends a grant only when
the plan is full, and then the oldest, as of the instant the request read;
`JudgementStands` shows that this stays so while the request holds the rows of the
owners and of the stay. `Due` says of the unit the task is visiting that it had
run out when the run started and has no successor.
`FreshUnits`: a row that is not sold yet carries nothing. Then a commit is the
ledger's publication, withdrawal, transfer or spending of a grant, a visit its
lapse, a sale or a subscription its own, and everything else (locking, reading,
giving up, a killed run) leaves the ledger as it is. The mapping reads `plan` as the
limit at every instant at once, so that a ledger step may be judged in the past.

**PropertyListingProofs**: `TypeCorrect`, `UnitsFollowOwners`
(`UnitsFollowListing`), `PublicationsWithinPlan` (`PublicationWithinPlan`, finite
`Listings`), `FreshListingsStay` (`ConfirmedStaysUp`), `LapsesWithdraw`
(`LapseWithdraws`). The invariant adds to the types that what is on the market has
a date, that a request's copy is a row the table could hold, that an active unit
is some listing's, and `LapseStands`: the unit the hourly task is about to close
is still the lapsed one on the listing the task read it from, because nobody gives
a lapsed unit back its days or moves it (`LapsedKept`).

**ListingTransferProofs**: `TypeCorrect`, `OneDecision` (`DecidedOnce`),
`AcceptedAsAsked` (`MovesAsRequested`), `NobodyOrphaned` (`NoOrphans`), and of the
team `OwnerRemains` (`OwnerKept`). The last two hold however many requests about the
team overlap. The invariant `TeamInv` says that, as long as no late write mattered,
there is an owner, only people outside the team have an open invitation
(`InvitedAreOutside`), and a request that nobody overtook has read what is still true
(`InTime`). A write overtakes everybody else who is about to write (`WritesKeep`); a
late removal or demotion of somebody who is no owner, a late promotion and a late
refusal leave the invariant as it is. The run `agency_owners` shows that more cannot
be had: there a late write takes the last owner.

**NotificationsProofs**: `OneEmail` (`OneEmailPerEvent`), `AcceptedStays`
(`AcceptedIsFinal`) and `TypeCorrect`. The invariant is about who may still
cause an email: `EventsOwned` (an event is in the hands of one callback or has
one row), `RowsOwned` (a row is in the hands of one callback, one message or one
worker) and `AcceptedAlone` (whoever still has an accepted row will write
nothing but accepted).

The proofs about Desk are in three modules, each of which extends the one before. A step
in a component's scene is a step of the component or leaves its variables alone, and
the scene never changes; what is shown of a component's steps therefore holds in
its scene.

**DeskOnceProofs**, what must happen or exist once: `HandedOffAsApproved`
(`HandoffAsApproved`), `LiveLinksOpen` (`LinksOpenWhatWasIssued`),
`EveryDecisionAsSeen` (`DecidedAsSeen`), `NoSubmissionDecidedTwice`
(`OneDecisionPerSubmission`) and `NothingTwice` (`OneOfEach`).
Onboarding's invariant (`OnboardingInvariance`) is typing, `ApprovalIsCurrent` (an
approval is for the current version and content, a binding rests on an
approval), `HandedOff` (a listing exists exactly after the hand-off),
`LinksOpenWhatWasIssued` and `PagesShowTheirVersion` (a page with the prospect's
version shows the prospect's content, its photos too once it is whole).
Verification's (`VerificationInvariance`) has `Undecided` (a request under review
has one submission more than decisions) and `LateWrites` (an applicant's late edit
restores only a status in which the request is not under review).
`NothingTwice` has an invariant for each of six scenes. That of accounts rests on
`StoredLower` and `CheckedLower` (what is stored, and what a request will store, is
in lower case, so that the unique column and the check that ignores case mean the
same); the others are `ViewingsSafe`, `SearchesSafe`, `FavouritesSafe`,
`GallerySafe` (a request that unmarks a cover is the one that marks the next)
and `DemoSafe`. A run of the seeding command is a loop over rows in which each
row is saved if its owner's plan still has a place; that the rows it leaves fit the
plans is proved by induction over the loop. The library's induction theorems cannot be
instantiated here, so `Climb` derives it for sets of numbers from `WFMin`, and
`ChainExists` and `ChainStays` give it the shape of a recursive function.

**DeskFactsProofs**, what is told in two places: `FactsTold` (`FactsAgree`). It has one
invariant for each of eight scenes (`FactsInv`):

- messages, reports, checklists: a count is one sum over rows in one place and one
  filter over all rows in the other. `SumCounts` shows by induction over finite
  sets that adding up parts that do not overlap counts their union, for any sum
  function with the recursion of the community modules' fold; `UnreadCounted`,
  `StaffPagesCount` and `DocumentsCounted` apply it. `MessagesPlaced` says what rows
  may be in the log, `ReportsSafe` what a request about a report still holds at each
  of its statements and that whatever was announced is in the trail.
- quotes: `LoopFinds` shows, by induction over the nights, that the loop of
  `room_availability` ends with the largest minimum stay, the smallest inventory and
  the sum of the prices, in whatever order it takes the nights; `AnswerTrue` that the
  answer promises exactly what a booking checks.
- edits: `EditFits` (a form that was validated against a copy names no agent of an
  agency the copy is not of, and the copy's scope is compared under the lock).
- roles: `Ready` (a request alone with its role or member finds, before its second
  write, what its first left) and `Replies` (what was answered, once no request
  claims the row, is what is stored).
- screens: `PagesFresh` (a visitor's page or a cached one that nothing overtook shows
  what the search shows) and `AgentsOfAgency` (only the agency's listings have an
  agent), from which each page's set of listings follows; an agency's page counts all
  its listings and shows the latest `PageLimit` of each kind, which `LatestShown`
  derives for every limit from `DatesApart` (no two listings have one date).
- notices: `NoticeFits` and `LetterFits` (what a notification says determines where
  its link and its letter lead).

**DeskProofs**, what is told in parts, and the types: `ToldOnce` (`ToldInFull`) and
`Typed` (`TypeOK`). `ToldOnce` has the invariant `ToldInv`, of two scenes:

- pages: a dashboard's page is the first so many rows of two tables, each read up to
  that many, merged by date. A row's place is how many are newer, in its table or in
  both; the first rows of each table contain the first rows of the whole, so that
  page after page is the whole without gap or repetition
  (`PagesCoverTheContext`), for any filter, page size and set of listings, from
  `OrdersDate`: no two listings have the same date.
- demo data: on emptied tables the rows of a run take the titles in turn, and a run
  is refused exactly when some payer's rows exceed the free plan. The thirteenth stay
  is the fourth active one of one account, so that under the hypothesis `FreePlan < 4`
  (the code's free plan has two places) a run is refused before any title
  repeats, for every `--count`; a run that is not refused makes a row of its own for
  each listing it counts (`EmptyRun`, `StaysRun`). The keys of two sections never
  meet, because a key names its section (`SummaryCounts`).

`Typed` collects the types the invariants above carry and proves the rest
(`TypeInv`) for the twelve scenes where something is left: a row read by one
statement and written back by another is still one its table can hold, a counter that
is stepped down stops at none.

`Countable` (finite tables), `Bounds` (days begin at 1, counters of changes at none or
more) and each module's `Terms` (`None` is no row, listings are
not both kinds, nights and prices are numbers) are assumed.

Only model-checked:

- every liveness property (the prover does neither ENABLED nor fairness);
- `NoLockCycle` of PropertyListing and of StayAllowance, which do not hold
  (section 6).

## 6. Where the code disagrees with docs or itself

- `agency_owners`: `ensure_other_owner` reads without a lock; two owners
  who step down at once leave an agency without one, which `docs/agencies.md`
  excludes. `listing_transfer` shows that nothing but such a late write orphans a
  managed listing.
- `allowance_stale_pause`: the host's pause saves every column of a copy read
  before its transaction: it can put back an owner that a transfer has replaced.
- `allowance_lock_order`: `listing_action` locks the owner it read before its
  transaction, then the stay, and does not compare; after a transfer its save asks for
  the new owner while it holds the stay, and whoever holds that owner may be waiting
  for the stay. A comment there (`src/moderation/views.py:386`) and
  `docs/stay-pricing-phase-2.md:94` say that the order is consistent. PostgreSQL fails
  one of the two; `CirclesAreListingActions` says that no other request can close a
  circle.
- `property_lock_order`: the reminder task locks the listing and then, inside the
  save, its owner; a publication does the reverse, which the module's first line
  excludes. PostgreSQL fails one of the two; `property_listings` has that step.
- `desk`, `ToldInFull`: the default demo seed is refused by the free host plan
  (`SummaryTrue`).
- `desk`, `FactsAgree`, by the exceptions its conjuncts make: a restored property or an
  edited stay may be published without what `clean()` demands
  (`PublishedComplete`); some outcomes are told in a letter for another outcome or
  reader, and the letter for a declined viewing is never used (`LettersTell`); the
  notification of a refused stay leads to the properties' page (`NoticesLead`).

Each is quoted with its lines in `PROJECT.json`.

## 7. What does not hold and is no promise

Seen while modelling; most are behaviours of the models, the rest lie in what
section 8 leaves out. No property forbids them, because neither the code nor a
document does.

- Stale copies. A profile edit read before a restriction, a password change or
  a verification writes the old value back. A saved search that was switched off or
  deleted is restored by the task's save. A cancelled, edited or resubmitted
  verification request overwrites a later decision (the audit stays right), and a
  deleted one is inserted again. Viewing changes are accepted from any status. A
  reopened report and a deleted conversation come back the same way.
  A review of a verification saves every column of the entity it read.
- Duplicates in a race: conversations, open reports, a gallery left without a cover by two
  deletions, roles that differ in capitals, a welcome mail, a reset link used twice.
- Notifications: a second restriction, a repeated viewing or verification outcome
  share an event key with the first and are not announced. An instant saved search
  is announced once a day. If the broker is away after the row was inserted, or
  `DEFAULT_FROM_EMAIL` is empty, the row stays pending for ever; in the second case the
  task itself answers "failed" (`EmailsSettle` asks for a sender).
- Pages: featured listings are cached for the query that filled the cache,
  and prices, rooms and agencies do not clear it; a stay list ordered by price
  repeats a stay per price; the agents' directory multiplies its counts by its joins;
  an inactive agency's page is a 404 that links still lead to.
- One run of the entitlement task judges all owners by its start: a stay a new
  plan covers can be paused (`docs/stay-pricing-phase-2.md` describes the instant).
  A transfer can be created and answered at its expiry instant in opposite lock orders.
- Listing creation does not look at the team again; staff who give one user two
  roles at once may mix them; verifying an address while it changes marks the new
  one verified.

## 8. What is left out

Prices, guest details, permissions that only refuse a request, wording and
layout of letters, search filters and orderings, JWT and throttling (libraries),
sitemaps and previews (stateless), settings and URL files are not state that
these properties depend on. Deadlocks between transactions are resolved by
PostgreSQL by rolling one back, which `Rollback` and `BreakCircle` are;
`NoLockCycle` says where none can arise. Ordinary admin edits of every column are
modelled only where staff use them to move a listing or grant a plan. `DELETE
/agencies/{id}/` is routed although `docs/agencies.md` calls deletion not included;
a deleted agency has no state to model. `PROJECT.json` says of each component that
is `partly` or `not_modelled` what is missing and why. Tests make up most
unmapped lines: they fix single responses, which the models do not describe.

## 9. The plan

Done: everything in section 2.

A second implementation of PlaceLedger by PropertyListing is not one of them: a
publication of a property is judged at the present day and a grant may be
accepted by an owner who is over the limit, so that what the two share is the limit,
and PropertyListing states it by itself (`PublicationWithinPlan`, `UnitsFollowListing`).
What a fuller model would add is in section 8.
