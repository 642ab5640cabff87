------------------------------ MODULE Notices -------------------------------
(***************************************************************************)
(* What a notification says and where it leads.  An outcome of a booking,  *)
(* a viewing, a verification or a moderated listing is announced to guest, *)
(* host, applicant or owner: a Notification row whose link is computed     *)
(* each time it is read (notifications/serializers.py), and a letter whose *)
(* template and link are chosen once (notifications/email_templates.py).   *)
(* Between the two the listing changes hands.                              *)
(***************************************************************************)
EXTENDS Integers

CONSTANTS
  Readers, \* the people: a host or owner, and the others
  Outcomes, \* outcomes, transfers and resubmissions, in all             (bound)
  None

\* What the constants stand for; whoever instantiates the module assumes it.
Terms == /\ None \notin {"SUBMITTED", "UNDER_REVIEW", "APPROVED", "REJECTED", "CHANGES_REQUESTED", "SUSPENDED",
                        "RESTORED", "PUBLISHED"}
         /\ None \notin [area : {"properties", "manage/properties"}, names : BOOLEAN]

VARIABLES
  thing,   \* what the notices are about: [kind, owner, guest, status]
  inbox,   \* Notification rows
  letters, \* EmailDelivery rows: [to, as, what, template, link]
  left

vars == <<thing, inbox, letters, left>>

\* A route: a part of the site, and whether it names the thing or lists all.
One(area) == [area |-> area, names |-> TRUE]
All(area) == [area |-> area, names |-> FALSE]
Notice(user, as, type, what, route) ==
  [user |-> user, as |-> as, type |-> type, what |-> what, route |-> route,
   action |-> None, status |-> None, manager |-> FALSE, serial |-> 0]
-----------------------------------------------------------------------------
(* What is announced.                                                      *)

ToGuest(type, what) == Notice(thing.guest, "guest", type, what, One("bookings"))
ToHost(type, what)  == [Notice(thing.owner, "host", type, what, One("manage/bookings")) EXCEPT !.manager = TRUE]
BookingOutcomes == [CONFIRMED |-> "BOOKING_CONFIRMED", DECLINED |-> "BOOKING_DECLINED",
                    CANCELLED |-> "BOOKING_CANCELLED", EXPIRED |-> "BOOKING_EXPIRED"]
AboutBooking(what) ==
  CASE what = "REQUESTED" -> {ToHost("BOOKING_REQUESTED", what), ToGuest("BOOKING_REQUEST_SUBMITTED", what)}
    [] what = "INSTANT"   -> {ToHost("BOOKING_INSTANT_CONFIRMED", what), ToGuest("BOOKING_CONFIRMED", "CONFIRMED")}
    [] what = "REMINDER"  -> {ToHost("BOOKING_REMINDER", what), ToGuest("BOOKING_REMINDER", what)}
    [] what = "WITHDRAWN" -> {ToHost("BOOKING_CANCELLED", what), ToGuest("BOOKING_CANCELLED", "CANCELLED")}
    [] OTHER              -> {ToGuest(BookingOutcomes[what], what)}

\* Declined and completed are of no type of their own.
ViewingOutcomes == [CONFIRMED |-> "VIEWING_CONFIRMED", CANCELLED |-> "VIEWING_CANCELLED",
                    RESCHEDULE_REQUESTED |-> "VIEWING_RESCHEDULED", DECLINED |-> "SYSTEM", COMPLETED |-> "SYSTEM"]
AboutViewing(what) ==
  CASE what = "REQUESTED" -> {Notice(thing.owner, "host", "VIEWING_REQUEST", what, One("viewings"))}
    [] what \in {"CANCELLED", "RESCHEDULE_REQUESTED"} ->
         {Notice(thing.owner, "host", ViewingOutcomes[what], what, One("account/viewings"))}
    [] OTHER -> {Notice(thing.guest, "guest", ViewingOutcomes[what], what, One("account/viewings"))}

AboutVerification(what) ==
  {[Notice(thing.guest, "guest", "VERIFICATION_UPDATE", what,
           IF what = "CHANGES_REQUESTED" THEN All("verification") ELSE One("verification"))
      EXCEPT !.serial = IF what = "DOCUMENT_REJECTED" THEN left ELSE 0]}

\* Moderation names its action and the status; its event key ends in updated_at.
Public(what) == what \in {"APPROVED", "RESTORED"}
Decided(what, status, page, form) ==
  {[Notice(thing.owner, "host", "LISTING_STATUS_UPDATE", what, IF Public(what) THEN One(page) ELSE One(form))
      EXCEPT !.action = what, !.status = status, !.serial = left]}
AboutProperty(what, status) == Decided(what, status, "properties", "manage/properties")
AboutStay(what, status)     == Decided(what, status, "stays", "manage/stays")
\* The older endpoint for both kinds names neither.
ByStaff(what) == {Notice(thing.owner, "host", "LISTING_STATUS_UPDATE", what,
                         One(IF thing.kind = "property" THEN "properties" ELSE "stays"))}
Reminder(what) ==
  {Notice(thing.owner, "host", IF what = "LAPSED" THEN "LISTING_STATUS_UPDATE" ELSE "LISTING_AVAILABILITY_REMINDER",
          what, All("manage/properties"))}

-----------------------------------------------------------------------------
(* notify_transactional: a row unless the event has one or its user wants  *)
(* none, and a letter with it where wanted; either may be lost.            *)

\* The words of a template, other than the title and text it is given: outcome and reader.
Claims(template) ==
  [what |-> CASE template \in {"booking.requested_host", "viewing.requested"} -> {"REQUESTED"}
              [] template \in {"booking.confirmed", "viewing.confirmed"}      -> {"CONFIRMED"}
              [] template \in {"booking.declined", "viewing.declined"}        -> {"DECLINED"}
              [] template = "booking.cancelled"      -> {"CANCELLED"}
              [] template = "booking.expired"        -> {"EXPIRED"}
              [] template = "verification.submitted" -> {"SUBMITTED"}
              [] template = "verification.approved"  -> {"APPROVED"}
              [] template = "verification.rejected"  -> {"REJECTED", "DOCUMENT_REJECTED", "CHANGES_REQUESTED"},
   as   |-> IF template \in {"booking.requested_host", "viewing.requested"} THEN "host" ELSE "guest"]
NOTIFICATION_TEMPLATE_KEYS(type) ==
  CASE type = "BOOKING_REQUESTED" -> "booking.requested_host"
    [] type \in {"BOOKING_CONFIRMED", "BOOKING_INSTANT_CONFIRMED"} -> "booking.confirmed"
    [] type = "BOOKING_EXPIRED"   -> "booking.expired"
    [] type = "BOOKING_DECLINED"  -> "booking.declined"
    [] type = "BOOKING_CANCELLED" -> "booking.cancelled"
    [] type = "VIEWING_REQUEST"   -> "viewing.requested"
    [] type = "VIEWING_CONFIRMED" -> "viewing.confirmed"
    [] OTHER                      -> "transactional"
template_for_notification(n) ==
  IF n.type = "VERIFICATION_UPDATE"
  THEN CASE n.what = "APPROVED" -> "verification.approved"
         [] n.what \in {"REJECTED", "DOCUMENT_REJECTED"} -> "verification.rejected"
         [] OTHER -> "verification.submitted"
  ELSE NOTIFICATION_TEMPLATE_KEYS(n.type)
Letter(n) == [to |-> n.user, as |-> n.as, what |-> n.what, template |-> template_for_notification(n), link |-> n.route]

Key(n) == <<n.user, n.as, n.what, n.serial>>
Announce(notices, status) ==
  /\ left > 0 /\ left' = left - 1
  /\ thing' = [thing EXCEPT !.status = status]
  /\ \E new \in SUBSET {n \in notices : \A old \in inbox : Key(old) # Key(n)} :
       /\ inbox' = inbox \cup new
       /\ \E wanted \in SUBSET new : letters' = letters \cup {Letter(n) : n \in wanted}
-----------------------------------------------------------------------------
(* The outcomes.                                                           *)

Held == {"PENDING", "CONFIRMED"}
Book(what) ==
  /\ thing.kind = "booking"
  /\ thing.status \in CASE what \in {"REQUESTED", "INSTANT"} -> {"NEW"} [] what = "REMINDER" -> {"CONFIRMED"}
                        [] what \in {"CANCELLED", "WITHDRAWN"} -> Held  [] OTHER -> {"PENDING"}
  /\ Announce(AboutBooking(what), CASE what = "REQUESTED" -> "PENDING" [] what \in {"INSTANT", "REMINDER"} -> "CONFIRMED"
                                    [] what = "WITHDRAWN" -> "CANCELLED" [] OTHER -> what)
\* Whatever the status was.
View(what) == /\ thing.kind = "viewing" /\ (what = "REQUESTED" <=> thing.status = "NEW")
              /\ Announce(AboutViewing(what), what)

\* Taking a submission under review tells nobody.
InReview == {"SUBMITTED"}
Review(what) ==
  /\ thing.kind = "verification"
  /\ thing.status \in IF what = "SUSPENDED" THEN {"APPROVED"} ELSE InReview
  /\ Announce(AboutVerification(what), IF what = "DOCUMENT_REJECTED" THEN "CHANGES_REQUESTED" ELSE what)
Moderate(what) ==
  LET status == IF Public(what) THEN "PUBLISHED" ELSE what
  IN  /\ thing.kind \in {"property", "stay"}
      /\ thing.status \in CASE what = "SUSPENDED" -> {"PUBLISHED"} [] what = "RESTORED" -> {"SUSPENDED"}
                        [] what = "REJECTED" -> InReview \cup {"CHANGES_REQUESTED"} [] OTHER -> InReview
      /\ Announce(IF thing.kind = "property" THEN AboutProperty(what, status) ELSE AboutStay(what, status), status)
listing_action(what) ==
  /\ \/ thing.kind = "property"
     \/ thing.kind = "stay" /\ thing.status \in IF what = "REINSTATE" THEN {"SUSPENDED", "PAUSED"} ELSE {"PUBLISHED"}
  /\ Announce(ByStaff(what), CASE what = "SUSPEND" -> "SUSPENDED" [] what = "REINSTATE" -> "PUBLISHED" [] OTHER -> "PAUSED")
Remind(what) == /\ thing.kind = "property" /\ thing.status = "PUBLISHED" /\ Announce(Reminder(what), "PUBLISHED")
\* Submitting tells nobody.
Submit == /\ thing.kind \notin {"booking", "viewing"} /\ thing.status \in {"NEW", "CHANGES_REQUESTED"}
                                                           \cup IF thing.kind = "verification" THEN {} ELSE {"REJECTED", "PAUSED"}
          /\ Announce({}, "SUBMITTED")
Transfer == /\ left > 0 /\ left' = left - 1 /\ thing.kind \in {"property", "stay"}
            /\ \E u \in Readers \ {thing.owner} : thing' = [thing EXCEPT !.owner = u]
            /\ UNCHANGED <<inbox, letters>>

Kinds == {"booking", "viewing", "verification", "property", "stay"}
Init == /\ \E k \in Kinds, u, v \in Readers :
             u # v /\ thing = [kind |-> k, owner |-> u, guest |-> v, status |-> "NEW"]
        /\ inbox = {} /\ letters = {} /\ left = Outcomes
Next == \/ \E what \in DOMAIN BookingOutcomes \cup {"REQUESTED", "INSTANT", "REMINDER", "WITHDRAWN"} : Book(what)
        \/ \E what \in DOMAIN ViewingOutcomes \cup {"REQUESTED"} : View(what)
        \/ \E what \in {"APPROVED", "REJECTED", "CHANGES_REQUESTED", "DOCUMENT_REJECTED", "SUSPENDED"} : Review(what)
        \/ \E what \in {"APPROVED", "REJECTED", "CHANGES_REQUESTED", "SUSPENDED", "RESTORED"} : Moderate(what)
        \/ \E what \in {"SUSPEND", "PAUSE", "REINSTATE"} : listing_action(what)
        \/ \E what \in {"REMINDER", "LAPSED"} : Remind(what)
        \/ Submit \/ Transfer
Spec == Init /\ [][Next]_vars
-----------------------------------------------------------------------------
(* The link of a notification, each time it is read.                       *)

booking_route(n) ==
  LET base == IF n.type = "BOOKING_REQUESTED" \/ n.manager THEN "manage/bookings" ELSE "bookings"
  IN  IF n.route.area = base THEN n.route ELSE All(base)
OfProperty(n) == thing.kind = "property"
_property_exists(n) == OfProperty(n) /\ thing.owner = n.user
_semantic_listing_route(n) ==
  CASE n.status = "PUBLISHED" -> IF OfProperty(n) THEN One("properties") ELSE None
    [] n.status \in {"SUBMITTED", "UNDER_REVIEW", "CHANGES_REQUESTED", "REJECTED", "SUSPENDED"} ->
         IF _property_exists(n) THEN One("manage/properties") ELSE All("manage/properties")
    [] OTHER -> None
get_action(n) == IF thing.kind = "booking" THEN booking_route(n)
                 ELSE IF _semantic_listing_route(n) # None THEN _semantic_listing_route(n) ELSE n.route
-----------------------------------------------------------------------------
TypeOK == /\ thing.kind \in Kinds /\ thing.owner \in Readers /\ thing.guest \in Readers
          /\ \A n \in inbox : n.user \in Readers /\ n.as \in {"guest", "host"}
          /\ left \in 0..Outcomes

Areas(kind, as) ==
  CASE kind = "booking"      -> IF as = "guest" THEN {"bookings"} ELSE {"manage/bookings"}
    [] kind = "viewing"      -> {"viewings", "account/viewings"}
    [] kind = "verification" -> {"verification"}
    [] kind = "property"     -> {"properties", "manage/properties"}
    [] kind = "stay"         -> {"stays", "manage/stays"}
\* A stay refused or suspended, whose notification leads to the properties.
Astray(n) == thing.kind = "stay" /\ n.action # None /\ ~Public(n.action)
\* The letters that tell another outcome than the one that happened, or tell the host what
\* the guest is to be told.
Misnamed(l) == \/ thing.kind = "verification" /\ l.what \in {"SUSPENDED", "CHANGES_REQUESTED"}
               \/ thing.kind = "booking" /\ l.as = "host" /\ l.what \in {"INSTANT", "WITHDRAWN"}

\* However often a listing changed hands meanwhile, a notification leads to pages about what
\* it is about, and to a property's edit form nobody but the owner of the day; the letter about
\* the same outcome leads to the same part of the site.  Those of stays refused or suspended,
\* and no others, go astray.
NoticesLead ==
  \A n \in inbox :
    /\ get_action(n).area \in Areas(thing.kind, n.as) <=> ~Astray(n)
    /\ n.action # None /\ get_action(n) = One("manage/properties") => n.user = thing.owner
    /\ \A l \in letters : l.to = n.user /\ l.what = n.what /\ l.as = n.as
                          => (l.link.area = get_action(n).area <=> ~Astray(n))
\* A letter with words of its own tells its reader the outcome that happened, but for the
\* misnamed ones, which all tell another.
LettersTell ==
  \A l \in letters :
    l.template # "transactional" =>
      (l.what \in Claims(l.template).what /\ l.as = Claims(l.template).as) <=> ~Misnamed(l)
=============================================================================
