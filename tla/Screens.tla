------------------------------ MODULE Screens -------------------------------
(***************************************************************************)
(* The pages that show listings: the public searches, the featured page    *)
(* with its cache, an agency's and an agent's page, a listing's own page,  *)
(* "mine", and the dashboard with its contexts and its pages merged from   *)
(* two tables (properties/views.py, stays/views.py, agencies/views.py and  *)
(* their serializers).  A page is a set of listings computed from the     *)
(* tables, which owners, teams and staff change meanwhile.                *)
(***************************************************************************)
EXTENDS Integers, FiniteSets

CONSTANTS
  Properties, Stays,
  People,
  Agency,
  Newcomer,   \* the listing the agency has at first                      (bound)
  Hosts,      \* people whose onboarding intents ask for listings of their own
  Clients,    \* visitors waiting for a featured page                    (bound)
  Shift,      \* the changes that may happen, in all                     (bound)
  PageLimit,  \* how many listings of a kind an agency's page shows, 12 in the code
  None

\* What the constants stand for; whoever instantiates the module assumes it.
Terms == /\ Properties \cap Stays = {}
         /\ PageLimit \in Nat
         /\ None \notin People \cup {Agency}
         /\ \A page \in SUBSET (Properties \cup Stays) : page # None
         /\ \A summary \in [{Properties, Stays} -> [published : 0..Cardinality(Properties \cup Stays), has : BOOLEAN]] :
              summary # None

VARIABLES
  listing, \* [owner, agency, agent, published, open, featured, date]: published_at of a
           \* property, created_at of a stay, no two at one instant
  recent,  \* the place of a listing by updated_at, 1 for the newest
  member,  \* AgentProfile.is_active of a person in the agency, None without a profile
  trading, \* Agency.is_active
  cache,   \* the featured pages in the cache: [page, overtaken]
  pending, \* kinds whose cache.delete follows a commit
  job,     \* visitors between their query and cache.set
  shifts

tables == <<listing, recent, member, trading>>
vars == <<tables, cache, pending, job, shifts>>

Advertised == Properties \cup Stays
Kinds == {Properties, Stays}
KindOf(l) == IF l \in Properties THEN Properties ELSE Stays
Idle == [kind |-> {}, page |-> {}, overtaken |-> FALSE]

Published(l) == listing[l].published
\* A property that is AVAILABLE, a stay with an active room type.
Open(l)      == listing[l].open
Active(u)    == member[u] = TRUE
Individual(u) == {l \in Advertised : listing[l].owner = u /\ listing[l].agency = None}
OfAgency      == {l \in Advertised : listing[l].agency = Agency}
AsAgent(u)    == {l \in Advertised : listing[l].agent = u /\ Active(u)}
-----------------------------------------------------------------------------
(* Public pages.                                                           *)

PublicProperties == {p \in Properties : Published(p) /\ Open(p)}
PublicStays      == {s \in Stays : Published(s)}
Search(kind)     == IF kind = Properties THEN PublicProperties ELSE PublicStays
FeaturedProperties == {p \in PublicProperties : listing[p].featured}
FeaturedStays      == {s \in PublicStays : listing[s].featured /\ Open(s)}
Featured(kind)     == IF kind = Properties THEN FeaturedProperties ELSE FeaturedStays

\* PublicAgencyDetailView: the counts are queries of their own, without the limit.
Latest(some) == {l \in some : Cardinality({m \in some : listing[m].date >= listing[l].date}) <= PageLimit}
AgencyPage ==
  IF ~trading THEN None
  ELSE [properties     |-> Latest({p \in Properties \cap OfAgency : Published(p) /\ Open(p)}),
        stays          |-> Latest({s \in Stays \cap OfAgency : Published(s)}),
        property_count |-> Cardinality({p \in Properties : listing[p].agency = Agency /\ Published(p) /\ Open(p)}),
        stay_count     |-> Cardinality({s \in Stays : listing[s].agency = Agency /\ Published(s)})]

\* The directory sorts by annotated counts of published listings; the cards count what is available.
Directory == {u \in People : Active(u)}
AgentPage(u) ==
  IF u \notin Directory THEN None
  ELSE [active_listings       |-> {p \in Properties : listing[p].agent = u /\ Published(p) /\ Open(p)},
        active_listings_count |-> Cardinality({p \in Properties : listing[p].agent = u /\ Published(p) /\ Open(p)}),
        active_listing_count  |-> Cardinality({p \in Properties : listing[p].agent = u /\ Published(p)})]

Advertiser(l) == IF listing[l].agency # None THEN "AGENCY"
                 ELSE IF listing[l].agent # None THEN "AGENT"
                 ELSE "OWNER"
ShownHost(s) == CASE listing[s].agency # None -> "AGENCY"
             [] listing[s].agency = None /\ listing[s].agent # None -> "AGENT"
             [] OTHER -> "OWNER"
-----------------------------------------------------------------------------
(* A listing's own page, and who manages it.                               *)

can_manage_property(u, p) ==
  IF listing[p].agency # None THEN Active(u)
  ELSE listing[p].owner = u \/ p \in AsAgent(u)
can_manage_stay(u, s) ==
  listing[s].owner = u \/ s \in AsAgent(u) \/ (s \in OfAgency /\ Active(u))
CanManage(u, l) == u # None /\ IF l \in Properties THEN can_manage_property(u, l) ELSE can_manage_stay(u, l)
PropertyOpens(u, p) == Published(p) \/ CanManage(u, p)
StayOpens(u, s)     == ~(~Published(s) /\ ~CanManage(u, s))
Opens(u, l) == IF l \in Properties THEN PropertyOpens(u, l) ELSE StayOpens(u, l)

MyProperties(u) == Properties \cap ({l \in Advertised : listing[l].owner = u} \cup AsAgent(u)
                                    \cup IF Active(u) THEN OfAgency ELSE {})
MyStays(u) == Stays \cap ({l \in Advertised : listing[l].owner = u} \cup AsAgent(u)
                          \cup IF Active(u) THEN OfAgency ELSE {})
-----------------------------------------------------------------------------
(* The dashboard.                                                          *)

Agencies(u) == IF Active(u) THEN {Agency} ELSE {}
HasIndividual(u) == Individual(u) # {} \/ u \in Hosts
DefaultContext(u) == IF HasIndividual(u) THEN "individual" ELSE IF Agencies(u) # {} THEN "agency" ELSE None
\* The listings of a context, None where it is refused.
Managed(u, context) ==
  CASE context = "individual" -> IF HasIndividual(u) THEN Individual(u) ELSE None
    [] context = "agency"     -> IF Agencies(u) # {} THEN OfAgency ELSE None
Total(base) == Cardinality(base \cap Properties) + Cardinality(base \cap Stays)

\* The place of a listing in a set by date, and the n newest of the set.
Place(set, l) == Cardinality({m \in set : recent[m] <= recent[l]})
Top(set, n) == {l \in set : Place(set, l) <= n}
\* The newest of either table up to the end of the page, merged and cut.
Page(base, page, size) ==
  LET merged == Top(base \cap Properties, page * size) \cup Top(base \cap Stays, page * size)
  IN  {l \in merged : Place(merged, l) \in ((page - 1) * size + 1)..(page * size)}
FullPages(base, size) == Total(base) \div size
Pages(base, size) == (Total(base) + size - 1) \div size

\* seeker_summary, on the account page: managed_properties and managed_stays.
managed(u, kind) == kind \cap ({l \in Advertised : listing[l].owner = u \/ (Active(u) /\ listing[l].agent = u)}
                               \cup {l \in OfAgency : Active(u)})
advertiser_summary(u) ==
  IF \A kind \in Kinds : managed(u, kind) = {} /\ ~Active(u) THEN None
  ELSE [kind \in Kinds |-> [published |-> Cardinality({l \in managed(u, kind) : Published(l)}),
                            has       |-> managed(u, kind) # {}]]

\* CapabilitySummaryView, for the menus.
Capability(u) ==
  [property |-> Individual(u) \cap Properties # {},
   stay     |-> Individual(u) \cap Stays # {},
   agency   |-> Cardinality({a \in {Agency} : Active(u)})]
-----------------------------------------------------------------------------
(* What people change.                                                     *)

Change == shifts > 0 /\ shifts' = shifts - 1
\* A save() commits; the cache is to be cleared, and queries of before are overtaken.
Save(l, row) ==
  /\ listing' = [listing EXCEPT ![l] = row]
  /\ recent' = [m \in Advertised |-> IF m = l THEN 1
                                     ELSE IF recent[m] < recent[l] THEN recent[m] + 1 ELSE recent[m]]
  /\ pending' = pending \cup {KindOf(l)}
  /\ job' = [c \in Clients |-> IF job[c].kind = KindOf(l) THEN [job[c] EXCEPT !.overtaken = TRUE] ELSE job[c]]
  /\ UNCHANGED <<member, trading, cache>>

\* Staff who approve or restore a property date its publication, a reinstatement does not.
Today == Cardinality(Advertised) + Shift - shifts
Redated(l) == IF l \in Properties /\ ~Published(l) THEN {listing[l].date, Today} ELSE {listing[l].date}
Publish(l) == /\ Change
              /\ \E date \in Redated(l) : Save(l, [listing[l] EXCEPT !.published = ~@, !.date = date])
Confirm(p)  == Change /\ p \in Properties /\ Save(p, [listing[p] EXCEPT !.open = ~@])
Highlight(l) == Change /\ Save(l, [listing[l] EXCEPT !.featured = ~@])
\* clean(): an agent belongs to the listing's agency.
Assign(l, u) == Change /\ l \in OfAgency /\ Active(u) /\ Save(l, [listing[l] EXCEPT !.agent = u])
\* A transfer clears the agent.
Transfer(l, owner, agency) ==
  /\ Change /\ <<owner, agency>> # <<listing[l].owner, listing[l].agency>>
  /\ Save(l, [listing[l] EXCEPT !.owner = owner, !.agency = agency, !.agent = None])
\* A room type is opened or closed: neither updated_at nor the cache hears of it.
SetRoom(s) == /\ Change /\ listing' = [listing EXCEPT ![s].open = ~@]
              /\ UNCHANGED <<recent, member, trading, cache, pending, job>>
Join(u)  == /\ Change /\ ~Active(u) /\ member' = [member EXCEPT ![u] = TRUE]
            /\ UNCHANGED <<listing, recent, trading, cache, pending, job>>
Leave(u) == /\ Change /\ Active(u) /\ member' = [member EXCEPT ![u] = FALSE]
            /\ UNCHANGED <<listing, recent, trading, cache, pending, job>>
Close == /\ Change /\ trading' = ~trading
         /\ UNCHANGED <<listing, recent, member, cache, pending, job>>
-----------------------------------------------------------------------------
(* The featured page of a visitor, from the cache or computed and kept.    *)
(* Of what is featured it shows six in the code, here all.                 *)

Query(c, kind) == /\ job[c] = Idle /\ cache[kind] = None
                  /\ job' = [job EXCEPT ![c] = [kind |-> kind, page |-> Featured(kind), overtaken |-> FALSE]]
                  /\ UNCHANGED <<tables, cache, pending, shifts>>
Keep(c) == /\ job[c] # Idle
           /\ cache' = [cache EXCEPT ![job[c].kind] = [page |-> job[c].page, overtaken |-> job[c].overtaken]]
           /\ job' = [job EXCEPT ![c] = Idle]
           /\ UNCHANGED <<tables, pending, shifts>>
Clear(kind) == /\ kind \in pending /\ pending' = pending \ {kind}
               /\ cache' = [cache EXCEPT ![kind] = None]
               /\ UNCHANGED <<tables, job, shifts>>
\* The process ends, or the cache is out of reach, after the commit.
Forget(kind) == /\ kind \in pending /\ pending' = pending \ {kind}
                /\ cache' = IF cache[kind] = None THEN cache ELSE [cache EXCEPT ![kind].overtaken = TRUE]
                /\ UNCHANGED <<tables, job, shifts>>
\* FEATURED_LISTINGS_CACHE_SECONDS later.
Expire(kind) == /\ cache[kind] # None /\ cache' = [cache EXCEPT ![kind] = None]
                /\ UNCHANGED <<tables, pending, job, shifts>>

\* No two listings are saved at one instant.
Orders == {order \in [Advertised -> 1..Cardinality(Advertised)] :
             \A l, m \in Advertised : order[l] = order[m] => l = m}
\* Somebody's own listings, and one for the agency of which that person or another is.
\* At first what was updated last is also what was published, or created, last (bound).
Listed(u, agency, place) ==
  [owner |-> u, agency |-> agency, agent |-> None, published |-> TRUE, open |-> TRUE, featured |-> TRUE,
   date |-> Cardinality(Advertised) - place]
Init == /\ recent \in Orders
        /\ \E v \in People, u \in People \ Hosts :
             /\ listing = [l \in Advertised |-> Listed(u, IF l = Newcomer THEN Agency ELSE None, recent[l])]
             /\ member = [w \in People |-> IF w = v THEN TRUE ELSE None]
        /\ trading = TRUE
        /\ cache = [k \in Kinds |-> None] /\ pending = {}
        /\ job = [c \in Clients |-> Idle]
        /\ shifts = Shift

Next == \/ \E l \in Advertised : Publish(l) \/ Highlight(l) \/ \E u \in People : Assign(l, u)
        \/ \E p \in Properties : Confirm(p)
        \/ \E l \in Advertised, u \in People, a \in {Agency, None} : Transfer(l, u, a)
        \/ \E s \in Stays : SetRoom(s)
        \/ \E u \in People : Join(u) \/ Leave(u)
        \/ Close
        \/ \E c \in Clients : Keep(c) \/ \E k \in Kinds : Query(c, k)
        \/ \E k \in Kinds : Clear(k) \/ Forget(k) \/ Expire(k)
Spec == Init /\ [][Next]_vars
-----------------------------------------------------------------------------
TypeOK == /\ recent \in Orders
          /\ \A l \in Advertised : /\ listing[l].owner \in People /\ listing[l].agency \in {Agency, None}
                                 /\ listing[l].agent \in People \cup {None}
          /\ shifts \in 0..Shift

\* A page that counts all and shows the latest of them, as many as fit.
ShowsLatest(shown, count, all) ==
  /\ count = Cardinality(all) /\ shown \subseteq all
  /\ Cardinality(shown) = IF count <= PageLimit THEN count ELSE PageLimit
  /\ \A l \in shown, m \in all \ shown : listing[m].date < listing[l].date

\* What one page offers the next one opens: a visitor every listing of a public page, its
\* manager every listing of a dashboard.  An agency's page counts what the search finds of
\* the agency and shows the latest of it, and the menus offer the contexts that the
\* dashboard grants.
PagesAgree ==
  /\ \A kind \in Kinds : \A l \in Search(kind) : Opens(None, l)
  /\ trading =>
       /\ ShowsLatest(AgencyPage.properties, AgencyPage.property_count, Search(Properties) \cap OfAgency)
       /\ ShowsLatest(AgencyPage.stays, AgencyPage.stay_count, Search(Stays) \cap OfAgency)
  /\ \A u \in Directory :
       /\ AgentPage(u).active_listings \subseteq Search(Properties) \cap OfAgency
       /\ AgentPage(u).active_listings_count = Cardinality(AgentPage(u).active_listings)
       /\ AgentPage(u).active_listing_count >= AgentPage(u).active_listings_count
  /\ \A p \in Properties : Advertiser(p) # "AGENT"
  /\ \A s \in Stays : ShownHost(s) # "AGENT"
  /\ \A u \in People :
       /\ {l \in Advertised : CanManage(u, l)} \subseteq MyProperties(u) \cup MyStays(u)
       /\ Capability(u).property \/ Capability(u).stay => DefaultContext(u) = "individual"
       /\ Capability(u).agency > 0 <=> Managed(u, "agency") # None
       /\ IF advertiser_summary(u) = None THEN MyProperties(u) \cup MyStays(u) = {}
          ELSE \A kind \in Kinds :
                 LET mine == IF kind = Properties THEN MyProperties(u) ELSE MyStays(u)
                 IN  advertiser_summary(u)[kind] =
                       [published |-> Cardinality({l \in mine : Published(l)}), has |-> mine # {}]
       /\ \A context \in {"individual", "agency"} :
            Managed(u, context) # None => \A l \in Managed(u, context) : CanManage(u, l)

\* The pages of a dashboard, cut from two tables, follow on without gap or repetition,
\* whatever its search, status and type filters leave of the context: the n-th page holds
\* what is n-th by date in both tables together, and no listing is on none.
PagesFollow ==
  \A u \in People, context \in {"individual", "agency"} :
    Managed(u, context) # None =>
      \A base \in SUBSET Managed(u, context), size \in 1..Cardinality(Advertised) :
        /\ \A n \in 1..Pages(base, size) :
             Page(base, n, size) = {l \in base : Place(base, l) \in ((n - 1) * size + 1)..(n * size)}
        /\ UNION {Page(base, n, size) : n \in 1..Pages(base, size)} = base

\* A cached page that no change overtook on its way to the cache, and whose clearing is not
\* due, shows published listings only, and available properties.
FeaturedFresh ==
  \A kind \in Kinds :
    cache[kind] # None /\ ~cache[kind].overtaken /\ kind \notin pending => cache[kind].page \subseteq Search(kind)
=============================================================================
