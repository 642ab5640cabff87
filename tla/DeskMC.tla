------------------------------- MODULE DeskMC -------------------------------
(* Small instances of Desk for TLC.                                         *)
EXTENDS Desk, TLC

CONSTANTS Host, Plain, Mixed

\* Requests in progress are alike, and so are the rows of the small tables.
Alike == Permutations(Clients) \cup Permutations(Viewings)

\* Every listing is Host's; Mixed is Plain with capitals.
HostManages  == [l \in Listings |-> Host]
InLowerCase  == [a \in Addresses |-> IF a = Mixed THEN Plain ELSE a]
\* An agency is verified after its agent, an agent has no prerequisite.
PeopleFirst  == [i \in Items |-> IF i \in Entities THEN Items \ Entities ELSE {}]
Folded       == [n \in Names |-> n]
AllMeet      == [k \in Criteria |-> Listings]
\* A room for two, one of them a child, and parties that fit one room and two.
RoomForTwo   == [adults |-> 2, children |-> 1, total |-> 2]
OneAndThree  == {[adults |-> 1, children |-> 0], [adults |-> 2, children |-> 1]}
=============================================================================
