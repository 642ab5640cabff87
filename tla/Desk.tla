-------------------------------- MODULE Desk --------------------------------
(***************************************************************************)
(* The services around listings and bookings that share no row with each   *)
(* other: onboarding, verification, accounts, messaging, viewings, saved   *)
(* searches, favourites, photos, quotes, the demo data of staging, the     *)
(* pages that show listings, the edit form, staff roles, reports, and what *)
(* notifications say.  A behaviour is one of one of them, the scene; the   *)
(* variables of the others stay None.  As no step of one reads or writes   *)
(* what another owns, what holds in every scene holds when they run side   *)
(* by side.                                                                *)
(***************************************************************************)
EXTENDS Integers, FiniteSets

CONSTANTS
  None,
  \* of Onboarding
  Payloads, Photos, Staff, Claimants, Links, LinkTerm, ClaimTerm, MaxVersion,
  \* of Verification
  Requests, Documents, Items, Needs, Prerequisite, Entities, Applicants, MaxSubmissions,
  \* of Accounts
  Registrants, Addresses, Lower, Passwords, Clients, MaxLinks,
  \* of Messaging, Viewings, SavedSearches, Favourites
  Users, Listings, Manager, Conversations, Outside, MaxMessages, Guests, Slots,
  Viewings, Searches, Criteria, Meets, Chosen, Week, MaxDay, Favourites,
  \* of Quotes
  Nights, Quantity, Occupancy, BasePrice, Minimum, Prices, Minima, MaxRooms, Parties,
  \* of DemoData
  Counts, Horizon, FreePlan, MaxRunDay, MaxUses,
  \* of Screens and ListingEdits
  Properties, Stays, People, Agency, Newcomer, Hosts, Shift, PageLimit,
  \* of StaffRoles and Reports
  Roles, Names, Fold, Catalog, Lasting, Filings

VARIABLES
  scene,
  prospect, links, page, made, handed,             \* Onboarding; links are of Accounts, too
  request, document, badge, audit,                 \* Verification
  user, resets,                                    \* Accounts
  published, conv, mark, log, viewing,             \* Messaging and Viewings
  day, listed, search, events, announced,          \* SavedSearches
  favourite, kind, photo,                          \* Favourites and Photos
  row, taken, ask, answer,                         \* Quotes
  today, db, extra, uses, told, old,               \* DemoData
  listing, member, shifts,                         \* Screens and ListingEdits
  recent, trading, cache, pending, form, unseen,   \* one of the two
  role, held, replied,                             \* StaffRoles
  left,                                            \* StaffRoles and Notices
  report, target, trail, heard,                    \* Reports
  thing, inbox, letters,                           \* Notices
  job                                              \* the requests of the scene

O == INSTANCE Onboarding WITH NoContent <- None
V == INSTANCE Verification WITH Clients <- Applicants, NoRequest <- None, NoItem <- None
A == INSTANCE Accounts WITH Users <- Registrants, NoUser <- None, NoAddress <- None
M == INSTANCE Messaging
W == INSTANCE Viewings
S == INSTANCE SavedSearches WITH Workers <- Clients
F == INSTANCE Favourites
P == INSTANCE Photos
Q == INSTANCE Quotes WITH Unset <- None
D == INSTANCE DemoData
N == INSTANCE Screens WITH Clients <- Applicants
E == INSTANCE ListingEdits WITH kind <- form, People <- Guests
R == INSTANCE StaffRoles WITH Members <- Guests, answer <- replied
T == INSTANCE Reports WITH Reports <- Filings, Targets <- Listings, Reporters <- Guests,
                           Reasons <- Criteria, events <- trail, told <- heard
L == INSTANCE Notices WITH Readers <- Users, Outcomes <- Lasting

ASSUME Constants == /\ O!Terms /\ V!Definitions /\ A!Spelling /\ M!Terms /\ Q!Terms /\ D!Terms
                    /\ N!Terms /\ E!Terms /\ R!Terms /\ T!Terms /\ L!Terms
\* What the bounds leave room for: a first day, and no change at all.
ASSUME Bounds == {MaxDay, MaxRunDay} \subseteq Nat \ {0} /\ {Shift, Lasting} \subseteq Nat
\* The rows that are counted.
ASSUME Countable ==
  \A rows \in {Conversations, Listings, Filings, Requests, Documents, Properties, Stays} : IsFiniteSet(rows)

onboarding == <<prospect, page, made, handed>>
verifying  == <<request, document, badge, audit>>
accounts   == <<user, resets>>
messaging  == <<conv, mark, log>>
searching  == <<day, listed, search, events, announced>>
photos     == <<kind, photo>>
quoting    == <<row, taken, ask, answer>>
demo       == <<today, db, extra, uses, told, old>>
screens    == <<recent, trading, cache, pending>>
editing    == <<form, unseen>>
roles      == <<role, held, replied>>
reporting  == <<report, target, trail, heard>>
noticing   == <<thing, inbox, letters>>
vars == <<scene, onboarding, verifying, accounts, messaging, searching, photos, quoting, demo,
          screens, editing, roles, reporting, noticing, links, published, viewing, favourite, job,
          listing, member, shifts, left>>

Scenes == {"onboarding", "verification", "accounts", "messaging", "viewings", "searches",
           "favourites", "photos", "quotes", "demo", "screens", "edits", "roles", "reports",
           "notices"}
-----------------------------------------------------------------------------
Init ==
  /\ scene \in Scenes
  /\ IF scene = "onboarding" THEN O!Init
     ELSE prospect = None /\ page = None /\ made = None /\ handed = None
  /\ IF scene = "verification" THEN V!Init
     ELSE request = None /\ document = None /\ badge = None /\ audit = None
  /\ IF scene = "accounts" THEN A!Init
     ELSE user = None /\ resets = None
  /\ IF scene = "messaging" THEN M!Init
     ELSE conv = None /\ mark = None /\ log = None
  /\ IF scene = "viewings" THEN W!Init
     ELSE viewing = None
  /\ IF scene = "searches" THEN S!Init
     ELSE day = None /\ listed = None /\ search = None /\ events = None /\ announced = None
  /\ IF scene = "favourites" THEN F!Init
     ELSE favourite = None
  /\ IF scene = "photos" THEN P!Init
     ELSE kind = None /\ photo = None
  /\ IF scene = "quotes" THEN Q!Init
     ELSE row = None /\ taken = None /\ ask = None /\ answer = None
  /\ IF scene = "demo" THEN D!Init
     ELSE today = None /\ db = None /\ extra = None /\ uses = None /\ told = None /\ old = None
  /\ IF scene = "screens" THEN N!Init
     ELSE recent = None /\ trading = None /\ cache = None /\ pending = None
  /\ IF scene = "edits" THEN E!Init
     ELSE form = None /\ unseen = None
  /\ IF scene = "roles" THEN R!Init
     ELSE role = None /\ held = None /\ replied = None
  /\ IF scene = "reports" THEN T!Init
     ELSE report = None /\ target = None /\ trail = None /\ heard = None
  /\ IF scene = "notices" THEN L!Init
     ELSE thing = None /\ inbox = None /\ letters = None
  /\ scene \notin {"onboarding", "accounts"} => links = None
  /\ scene \notin {"messaging", "viewings"} => published = None
  /\ scene \in {"onboarding", "quotes", "demo", "notices"} => job = None
  /\ scene \notin {"screens", "edits"} => listing = None
  /\ scene \notin {"screens", "edits"} => member = None
  /\ scene \notin {"screens", "edits"} => shifts = None
  /\ scene \notin {"roles", "notices"} => left = None

Onboard == scene = "onboarding" /\ O!Next
           /\ UNCHANGED <<scene, verifying, accounts, messaging, searching, photos, quoting, demo,
                          screens, editing, roles, reporting, noticing, published, viewing, favourite,
                          job, listing, member, shifts, left>>
Verify == scene = "verification" /\ V!Next
          /\ UNCHANGED <<scene, onboarding, accounts, messaging, searching, photos, quoting, demo,
                         screens, editing, roles, reporting, noticing, links, published, viewing,
                         favourite, listing, member, shifts, left>>
Account == scene = "accounts" /\ A!Next
           /\ UNCHANGED <<scene, onboarding, verifying, messaging, searching, photos, quoting, demo,
                          screens, editing, roles, reporting, noticing, published, viewing, favourite,
                          listing, member, shifts, left>>
Message == scene = "messaging" /\ M!Next
           /\ UNCHANGED <<scene, onboarding, verifying, accounts, searching, photos, quoting, demo,
                          screens, editing, roles, reporting, noticing, links, viewing, favourite,
                          listing, member, shifts, left>>
View == scene = "viewings" /\ W!Next
        /\ UNCHANGED <<scene, onboarding, verifying, accounts, messaging, searching, photos,
                       quoting, demo, screens, editing, roles, reporting, noticing, links, favourite,
                       listing, member, shifts, left>>
Search == scene = "searches" /\ S!Next
          /\ UNCHANGED <<scene, onboarding, verifying, accounts, messaging, photos, quoting, demo,
                         screens, editing, roles, reporting, noticing, links, published, viewing,
                         favourite, listing, member, shifts, left>>
Favour == scene = "favourites" /\ F!Next
          /\ UNCHANGED <<scene, onboarding, verifying, accounts, messaging, searching, photos,
                         quoting, demo, screens, editing, roles, reporting, noticing, links,
                         published, viewing, listing, member, shifts, left>>
Photograph == scene = "photos" /\ P!Next
              /\ UNCHANGED <<scene, onboarding, verifying, accounts, messaging, searching, quoting,
                             demo, screens, editing, roles, reporting, noticing, links, published,
                             viewing, favourite, listing, member, shifts, left>>
Quote == scene = "quotes" /\ Q!Next
         /\ UNCHANGED <<scene, onboarding, verifying, accounts, messaging, searching, photos, demo,
                        screens, editing, roles, reporting, noticing, links, published, viewing,
                        favourite, job, listing, member, shifts, left>>
Demo == scene = "demo" /\ D!Next
        /\ UNCHANGED <<scene, onboarding, verifying, accounts, messaging, searching, photos,
                       quoting, screens, editing, roles, reporting, noticing, links, published,
                       viewing, favourite, job, listing, member, shifts, left>>
Show == scene = "screens" /\ N!Next
        /\ UNCHANGED <<scene, onboarding, verifying, accounts, messaging, searching, photos,
                       quoting, demo, editing, roles, reporting, noticing, links, published, viewing,
                       favourite, left>>
Edit == scene = "edits" /\ E!Next
        /\ UNCHANGED <<scene, onboarding, verifying, accounts, messaging, searching, photos,
                       quoting, demo, screens, roles, reporting, noticing, links, published, viewing,
                       favourite, left>>
Entitle == scene = "roles" /\ R!Next
           /\ UNCHANGED <<scene, onboarding, verifying, accounts, messaging, searching, photos,
                          quoting, demo, screens, editing, reporting, noticing, links, published,
                          viewing, favourite, listing, member, shifts>>
Report == scene = "reports" /\ T!Next
          /\ UNCHANGED <<scene, onboarding, verifying, accounts, messaging, searching, photos,
                         quoting, demo, screens, editing, roles, noticing, links, published, viewing,
                         favourite, listing, member, shifts, left>>
Notice == scene = "notices" /\ L!Next
          /\ UNCHANGED <<scene, onboarding, verifying, accounts, messaging, searching, photos,
                         quoting, demo, screens, editing, roles, reporting, links, published, viewing,
                         favourite, job, listing, member, shifts>>

Next == \/ Onboard \/ Verify \/ Account \/ Message \/ View \/ Search \/ Favour \/ Photograph \/ Quote
        \/ Demo \/ Show \/ Edit \/ Entitle \/ Report \/ Notice
Spec == Init /\ [][Next]_vars
-----------------------------------------------------------------------------
(* The promises of each component in its scene; each is commented there.   *)

In(s, promise) == scene = s => promise

TypeOK ==
  /\ scene \in Scenes
  /\ In("onboarding", O!TypeOK) /\ In("verification", V!TypeOK) /\ In("accounts", A!TypeOK)
  /\ In("messaging", M!TypeOK) /\ In("viewings", W!TypeOK) /\ In("searches", S!TypeOK)
  /\ In("favourites", F!TypeOK) /\ In("photos", P!TypeOK) /\ In("quotes", Q!TypeOK)
  /\ In("demo", D!TypeOK) /\ In("screens", N!TypeOK) /\ In("edits", E!TypeOK)
  /\ In("roles", R!TypeOK) /\ In("reports", T!TypeOK)
  /\ In("notices", L!TypeOK)

\* One listing for each claimed prospect, as approved (core/onboarding.py).
HandoffAsApproved == scene = "onboarding" => O!HandoffAsApproved
\* A live link opens the content it was issued for (core/onboarding.py).
LinksOpenWhatWasIssued == scene = "onboarding" => O!LinksOpenWhatWasIssued
\* Approvals and claims are for what the page showed (core/onboarding.py).
DecidedAsSeen == [][scene = "onboarding" => O!AsSeen]_vars
\* No submission is decided twice (verification/services.py).
OneDecisionPerSubmission == scene = "verification" => V!OneDecisionPerSubmission

\* What must exist once at most survives overlapping requests: an account for an address,
\* whatever its spelling (accounts/serializers.py), an appointment for a slot
\* (bookings/models.py), a report of a match (alerts/services.py), a favourite
\* (favourites/models.py), the cover of a gallery (properties/views.py, stays/models.py);
\* a place of a plan is taken once, by demo listings as by others (stays/models.py).
OneOfEach ==
  /\ scene = "accounts" => A!AddressesDistinct
  /\ scene = "viewings" => W!OneActiveViewing
  /\ scene = "searches" => S!MatchCountedOnce
  /\ scene = "favourites" => F!OneFavourite
  /\ scene = "photos" => P!OneCover
  /\ scene = "demo" => D!WithinPlans

\* Two places that tell one fact agree, whatever overlaps: unread messages on the account
\* page and in the conversations (alerts/views.py, messaging/serializers.py), a quote and what
\* a booking would be granted (stays/services.py, bookings/services.py), the pages that show
\* a listing and the one that opens it (agencies/views.py, properties/views.py,
\* stays/views.py), a listing's agent and agency, its publication and its fields
\* (properties/serializers.py, stays/serializers.py), roles and the last answer about them
\* (accounts/views.py), reports, their audit trail and staff's counts (moderation/views.py),
\* a notification's link, its letter and the outcome (notifications/).
FactsAgree ==
  /\ scene = "messaging" => M!UnreadAgree
  /\ scene = "quotes" => Q!QuoteIsBookable
  /\ scene = "verification" => V!ChecklistAgrees
  /\ scene = "screens" => N!PagesAgree /\ N!FeaturedFresh
  /\ scene = "edits" => E!AgentInTeam /\ E!PublishedComplete
  /\ scene = "roles" => R!RolesAsAnswered
  /\ scene = "reports" => T!Accountable /\ T!CountsAgree
  /\ scene = "notices" => L!NoticesLead /\ L!LettersTell

\* What is told in parts is told in full and once: the pages of a dashboard, merged from two
\* tables (agencies/views.py), and the rows of each run that seeded demo data, which its
\* printed summary counts (core/management/commands/seed_demo_data.py).
ToldInFull ==
  /\ scene = "demo" => D!SummaryTrue
  /\ scene = "screens" => N!PagesFollow
=============================================================================
