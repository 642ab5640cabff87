\* One instance for all scenes; onboarding, verification and quotes come to an end.
CONSTANTS
  None = none
  Payloads = {p1, p2}
  Photos = {f1, f2, f3}
  Staff = {s1}
  Claimants = {o1}
  Links = {k1, k2}
  LinkTerm = 1
  ClaimTerm = 1
  MaxVersion = 2
  Requests = {r1, r2}
  Documents = {d1, d2}
  Items = {person, agency}
  Entities = {agency}
  Needs = {n1}
  Prerequisite <- PeopleFirst
  Applicants = {b1}
  MaxSubmissions = 2
  Registrants = {v1, v2}
  Host = u2
  Addresses = {a1, a2, a3}
  Plain = a1
  Mixed = a2
  Lower <- InLowerCase
  Passwords = {w1}
  Clients = {c1, c2}
  MaxLinks = 1
  Users = {u1, u2}
  Listings = {l1}
  Manager <- HostManages
  Conversations = {v1, v2}
  MaxMessages = 2
  Outside = outside
  Guests = {u1}
  Slots = {s1}
  Viewings = {v1, v2}
  Searches = {r1}
  Criteria = {p1}
  Meets <- AllMeet
  Chosen = {"DAILY"}
  Week = 2
  MaxDay = 2
  Favourites = {v1, v2}
  Nights = {1, 2}
  Quantity = 2
  Occupancy <- RoomForTwo
  Parties <- OneAndThree
  BasePrice = 5
  Minimum = 1
  Prices = {7}
  Minima = {2}
  MaxRooms = 2
  Counts = {10, 20, 50}
  Horizon = 1
  FreePlan = 2
  MaxRunDay = 2
  MaxUses = 2
  Properties = {l1, l2}
  Stays = {l3}
  People = {u1, u2}
  Agency = agency
  Newcomer = l2
  Hosts = {u2}
  Shift = 2
  PageLimit = 1
  Roles = {r1, r2}
  Names = {n1}
  Fold <- Folded
  Catalog = {p1, p2}
  Lasting = 3
  Filings = {r1}
SYMMETRY Alike
SPECIFICATION Spec
INVARIANTS TypeOK HandoffAsApproved LinksOpenWhatWasIssued OneDecisionPerSubmission OneOfEach FactsAgree ToldInFull
PROPERTIES DecidedAsSeen
CHECK_DEADLOCK FALSE
