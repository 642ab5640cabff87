------------------------------ MODULE Reports -------------------------------
(***************************************************************************)
(* Reports about listings, and the staff pages that count them             *)
(* (moderation/views.py, moderation/serializers.py).  No request locks a   *)
(* report: staff load it, save all of its columns, then write the audit    *)
(* event and announce the outcome, one statement after the other, and      *)
(* either may stop in between.                                             *)
(***************************************************************************)
EXTENDS Integers, FiniteSets, FiniteSetsExt

CONSTANTS
  Reports,   \* ListingReport rows that may be filed                 (bound)
  Targets,   \* listings
  Reporters, Reasons, Staff,
  Clients,   \* requests in progress at once                         (bound)
  None

\* What the constants stand for; whoever instantiates the module assumes it.
Terms == None \notin {"SUBMITTED", "PUBLISHED", "PAUSED"}

VARIABLES
  report, \* rows, None before they exist and after their listing went
  target, \* a listing's status, None once deleted
  events, \* ModerationAuditEvent: [report, action]
  told,   \* outcomes announced to the reporter: [report, action]
  job     \* requests between two statements: what is next, and the row as loaded

vars == <<report, target, events, told, job>>

Finished == {"RESOLVED", "DISMISSED"}
Unsettled == {"OPEN", "UNDER_REVIEW"}
Idle == [op |-> "none", id |-> None, row |-> None]
Go(c, op, id, row) == job' = [job EXCEPT ![c] = [op |-> op, id |-> id, row |-> row]]
Filed == {r \in Reports : report[r] # None}
On(t) == {r \in Filed : report[r].target = t}
-----------------------------------------------------------------------------
(* A visitor reports a listing: an identical unsettled report is refused.  *)

Identical(row) == {r \in Filed : /\ report[r].status \in Unsettled
                                 /\ report[r].reporter = row.reporter
                                 /\ report[r].target = row.target /\ report[r].reason = row.reason}
Write(c) ==
  /\ job[c] = Idle
  /\ \E u \in Reporters, t \in Targets, why \in Reasons :
       LET row == [reporter |-> u, target |-> t, reason |-> why, status |-> "OPEN", assigned |-> None, reviewed |-> FALSE]
       IN  target[t] # None /\ Identical(row) = {} /\ Go(c, "file", None, row)
  /\ UNCHANGED <<report, target, events, told>>
\* Nothing in the table refuses a second one that was validated meanwhile.
File(c) ==
  /\ job[c].op = "file" /\ target[job[c].row.target] # None
  /\ \E r \in Reports \ (Filed \cup {e.report : e \in events} \cup {job[d].id : d \in Clients}) : \* no id twice
       report' = [report EXCEPT ![r] = job[c].row]
  /\ Go(c, "none", None, None) /\ UNCHANGED <<target, events, told>>
-----------------------------------------------------------------------------
(* Staff assign, resolve or dismiss it.                                    *)

Load(c) == /\ job[c] = Idle
           /\ \E r \in Filed, op \in {"UNDER_REVIEW"} \cup Finished : Go(c, op, r, report[r])
           /\ UNCHANGED <<report, target, events, told>>

Assigned(row, staff) == [row EXCEPT !.assigned = staff, !.status = "UNDER_REVIEW"]
\* _set keeps whoever has it.
Settled(row, status, staff) ==
  [row EXCEPT !.status = status, !.reviewed = TRUE, !.assigned = IF @ = None THEN staff ELSE @]
SavedBy(c, staff) ==
  IF job[c].op = "UNDER_REVIEW" THEN Assigned(job[c].row, staff) ELSE Settled(job[c].row, job[c].op, staff)
\* Saving a row whose listing is gone would insert it again, which the key refuses.
Save(c) == /\ job[c].op \in {"UNDER_REVIEW"} \cup Finished /\ report[job[c].id] # None
           /\ \E s \in Staff :
                LET row == SavedBy(c, s)
                IN  report' = [report EXCEPT ![job[c].id] = row] /\ Go(c, "audit", job[c].id, row)
           /\ UNCHANGED <<target, events, told>>
Audit(c) == /\ job[c].op = "audit" /\ report[job[c].id] # None
            /\ events' = events \cup {[report |-> job[c].id, action |-> job[c].row.status]}
            /\ IF job[c].row.status \in Finished THEN Go(c, "announce", job[c].id, job[c].row)
               ELSE Go(c, "none", None, None)
            /\ UNCHANGED <<report, target, told>>
\* notify_transactional: once for each outcome of a report.
Announce(c) == /\ job[c].op = "announce"
               /\ told' = told \cup {[report |-> job[c].id, action |-> job[c].row.status]}
               /\ Go(c, "none", None, None) /\ UNCHANGED <<report, target, events>>
GiveUp(c) == job[c] # Idle /\ Go(c, "none", None, None) /\ UNCHANGED <<report, target, events, told>>

\* A listing changes its status, or is deleted and its reports with it.
Moderate(t) == /\ target[t] # None /\ \E s \in {"SUBMITTED", "PUBLISHED", "PAUSED"} :
                    s # target[t] /\ target' = [target EXCEPT ![t] = s]
               /\ UNCHANGED <<report, events, told, job>>
Delete(t) == /\ target[t] # None /\ target' = [target EXCEPT ![t] = None]
             /\ report' = [r \in Reports |-> IF r \in On(t) THEN None ELSE report[r]]
             /\ UNCHANGED <<events, told, job>>
-----------------------------------------------------------------------------
(* The staff pages.                                                        *)

STAFF_REVIEW_STATUSES ==
  {"SUBMITTED", "UNDER_REVIEW", "CHANGES_REQUESTED", "REJECTED", "PUBLISHED", "SUSPENDED"}
Existing == {t \in Targets : target[t] # None}
Queue(statuses) == {t \in Existing : target[t] \in IF statuses = {} THEN STAFF_REVIEW_STATUSES ELSE statuses}
open_reports_count(t) == Cardinality({r \in On(t) : report[r].status \in Unsettled})
Pending == {"SUBMITTED", "UNDER_REVIEW"}
Summary == [awaiting_review |-> Cardinality({t \in Existing : target[t] \in Pending}),
            open_reports    |-> Cardinality({r \in Filed : report[r].status = "OPEN"}),
            latest          |-> {t \in Existing : target[t] \in Pending}]

\* The stays' pages have their own: the queue leaves out drafts and paused ones, the summary
\* counts by status.
StaysQueue(statuses) ==
  {t \in Existing : IF statuses = {} THEN target[t] \notin {"DRAFT", "PAUSED"} ELSE target[t] \in statuses}
StaysSummary == [s \in STAFF_REVIEW_STATUSES |-> Cardinality({t \in Existing : target[t] = s})]

Init == /\ report = [r \in Reports |-> None]
        /\ target = [t \in Targets |-> "PUBLISHED"]
        /\ events = {} /\ told = {} /\ job = [c \in Clients |-> Idle]
Next == \/ \E c \in Clients : Write(c) \/ File(c) \/ Load(c) \/ Save(c) \/ Audit(c) \/ Announce(c) \/ GiveUp(c)
        \/ \E t \in Targets : Moderate(t) \/ Delete(t)
Spec == Init /\ [][Next]_vars
-----------------------------------------------------------------------------
TypeOK == /\ \A r \in Filed : /\ report[r].status \in Unsettled \cup Finished
                              /\ report[r].reporter \in Reporters /\ report[r].target \in Existing
          /\ DOMAIN job = Clients

\* However saves of stale rows overtake each other, a report that is not open has been taken
\* by somebody, one that is settled was reviewed, and a reporter hears of no outcome that
\* the audit trail does not know.
Accountable ==
  /\ \A r \in Filed : /\ report[r].status # "OPEN" => report[r].assigned \in Staff
                      /\ report[r].status \in Finished => report[r].reviewed
  /\ told \subseteq events
\* The summary counts what the queue lists, and the reports on listings are those it counts
\* as open and those under review.  The stays' queue shows what its summary counts.
CountsAgree ==
  /\ Summary.awaiting_review = Cardinality(Queue(Pending)) /\ Summary.latest = Queue(Pending)
  /\ Queue(Pending) \subseteq Queue({})
  /\ Cardinality(StaysQueue({})) = MapThenSumSet(LAMBDA s : StaysSummary[s], STAFF_REVIEW_STATUSES)
  /\ \A s \in STAFF_REVIEW_STATUSES : Cardinality(StaysQueue({s})) = StaysSummary[s]
  /\ MapThenSumSet(open_reports_count, Existing)
       = Summary.open_reports + Cardinality({r \in Filed : report[r].status = "UNDER_REVIEW"})
=============================================================================
