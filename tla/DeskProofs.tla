------------------------------ MODULE DeskProofs ------------------------------
(***************************************************************************)
(* What is told in parts in a scene of Desk is told in full: the pages of  *)
(* a dashboard, and the rows of a run of the demo data.  And every row,    *)
(* request and counter of a scene stays of its type.                       *)
(***************************************************************************)
EXTENDS DeskFactsProofs

-----------------------------------------------------------------------------
(* What a run of the demo data prints.  On empty tables the rows get the   *)
(* first titles in turn, and a run long enough to come to a title again is *)
(* refused before: its thirteenth stay is the fourth active one of an      *)
(* account, which has fewer places.                                        *)

\* Rows one after the other, each under its own title, as long as none is refused.
Rows == {D!Row(payer, live) : payer \in Payers, live \in BOOLEAN}
Filled(keys, given, i) == [t \in keys |-> IF t < i THEN given[t] ELSE None]
Took(given, payer, i) == {j \in 0..(i - 1) : given[j] = D!Row(payer, TRUE)}

LEMMA RowsAreRows ==
  ASSUME D!Terms
  PROVE  /\ None \notin Rows
         /\ \A given \in Rows : given.payer \in Payers /\ given.live \in BOOLEAN /\ given = D!Row(given.payer, given.live)
         /\ \A payer \in Payers : \A given \in Rows : given = D!Row(payer, TRUE) <=> given.live /\ given.payer = payer
<1>1. ASSUME NEW given \in Rows
      PROVE  given.payer \in Payers /\ given.live \in BOOLEAN /\ given = D!Row(given.payer, given.live)
  <2>1. PICK payer \in Payers, live \in BOOLEAN : given = D!Row(payer, live)
    BY DEF Rows
  <2>2. given.payer = payer /\ given.live = live
    BY <2>1 DEF D!Row
  <2> QED BY <2>1, <2>2
<1>2. None \notin Rows
  BY DEF Rows, D!Terms, D!Row, Payers
<1>3. ASSUME NEW payer \in Payers, NEW given \in Rows PROVE given = D!Row(payer, TRUE) <=> given.live /\ given.payer = payer
  <2>1. PICK p \in Payers, live \in BOOLEAN : given = D!Row(p, live)
    BY DEF Rows
  <2>2. given.payer = p /\ given.live = live
    BY <2>1 DEF D!Row
  <2>3. D!Row(payer, TRUE).payer = payer /\ D!Row(payer, TRUE).live = TRUE
    BY DEF D!Row
  <2> QED BY <2>1, <2>2, <2>3
<1> QED BY <1>1, <1>2, <1>3

LEMMA TookCounts ==
  ASSUME D!Terms, NEW m \in Nat, NEW given, \A j \in 0..(m - 1) : given[j] \in Rows, NEW payer \in Payers
  PROVE  /\ Took(given, payer, 0) = {} /\ Cardinality(Took(given, payer, 0)) = 0
         /\ \A i \in 0..m : /\ IsFiniteSet(Took(given, payer, i)) /\ Cardinality(Took(given, payer, i)) \in Nat
                            /\ Cardinality(Took(given, payer, i)) <= Cardinality(Took(given, payer, m))
         /\ \A i \in 1..m : Cardinality(Took(given, payer, i)) =
              Cardinality(Took(given, payer, i - 1)) + IF given[i - 1] = D!Row(payer, TRUE) THEN 1 ELSE 0
<1>1. ASSUME NEW i \in 0..m PROVE IsFiniteSet(Took(given, payer, i)) /\ Cardinality(Took(given, payer, i)) \in Nat
  <2>1. i - 1 \in Int /\ 0 \in Int
    OBVIOUS
  <2>2. IsFiniteSet(0..(i - 1))
    BY <2>1, FS_Interval
  <2> QED BY <2>2, FS_Subset, FS_CardinalityType DEF Took
<1>2. ASSUME NEW i \in 0..m PROVE Cardinality(Took(given, payer, i)) <= Cardinality(Took(given, payer, m))
  <2>1. Took(given, payer, i) \subseteq Took(given, payer, m)
    <3>1. 0..(i - 1) \subseteq 0..(m - 1)
      OBVIOUS
    <3> QED BY <3>1 DEF Took
  <2> QED BY <1>1, <2>1, FS_Subset
<1>3. Took(given, payer, 0) = {}
  BY DEF Took
<1>4. ASSUME NEW i \in 1..m
      PROVE  Cardinality(Took(given, payer, i)) =
               Cardinality(Took(given, payer, i - 1)) + IF given[i - 1] = D!Row(payer, TRUE) THEN 1 ELSE 0
  <2>1. IsFiniteSet(Took(given, payer, i - 1)) /\ Cardinality(Took(given, payer, i - 1)) \in Nat
    BY <1>1
  <2>0. /\ 0..(i - 1) = (0..(i - 2)) \cup {i - 1} /\ i - 1 \notin 0..(i - 2)
        /\ Took(given, payer, i - 1) = {j \in 0..(i - 2) : given[j] = D!Row(payer, TRUE)}
        /\ Took(given, payer, i) = {j \in 0..(i - 1) : given[j] = D!Row(payer, TRUE)}
    <3>1. i \in Int /\ (i - 1) - 1 = i - 2
      OBVIOUS
    <3> QED BY <3>1 DEF Took
  <2>2. CASE given[i - 1] = D!Row(payer, TRUE)
    <3>1. Took(given, payer, i) = Took(given, payer, i - 1) \cup {i - 1} /\ i - 1 \notin Took(given, payer, i - 1)
      BY <2>0, <2>2
    <3>2. Cardinality(Took(given, payer, i)) = Cardinality(Took(given, payer, i - 1)) + 1
      BY <2>1, <3>1, FS_AddElement
    <3> QED BY <2>2, <3>2
  <2>3. CASE given[i - 1] # D!Row(payer, TRUE)
    <3>1. Took(given, payer, i) = Took(given, payer, i - 1)
      BY <2>0, <2>3
    <3> QED BY <2>1, <2>3, <3>1
  <2> QED BY <2>2, <2>3
<1> QED BY <1>1, <1>2, <1>3, <1>4, FS_EmptySet

\* The first rows of a run on an empty table.
FirstRows(after, keys, given, others, m) ==
  /\ after[0] = Filled(keys, given, 0)
  /\ \A i \in 1..m : after[i] = IF after[i - 1] = None THEN None
                                ELSE D!Saved(after[i - 1], i - 1, given[i - 1], others[given[i - 1].payer])

\* Such a run is not refused exactly as long as nobody has more active rows than the plan allows.
LEMMA FillsUp ==
  ASSUME D!Terms, NEW m \in Nat, NEW keys \in SUBSET Nat, 0..(m - 1) \subseteq keys,
         NEW given, \A j \in 0..(m - 1) : given[j] \in Rows, \A i \in 0..m : Filled(keys, given, i) # None,
         NEW others, \A payer \in Payers : Cardinality(others[payer]) \in Nat,
         NEW after, FirstRows(after, keys, given, others, m),
         NEW i \in 0..m
  PROVE  /\ after[i] \in {Filled(keys, given, i), None}
         /\ after[i] # None => \A payer \in Payers : Cardinality(Took(given, payer, i)) <= FreePlan
         /\ (\A payer \in Payers : Cardinality(others[payer]) = 0 /\ Cardinality(Took(given, payer, m)) <= FreePlan)
            => after[i] # None
<1> DEFINE Good(j) ==
             /\ after[j] \in {Filled(keys, given, j), None}
             /\ after[j] # None => \A payer \in Payers : Cardinality(Took(given, payer, j)) <= FreePlan
             /\ (\A payer \in Payers : Cardinality(others[payer]) = 0 /\ Cardinality(Took(given, payer, m)) <= FreePlan)
                => after[j] # None
           reached == {j \in 0..m : Good(j)}
<1>1. FreePlan \in Nat
  BY DEF D!Terms
<1>2. 0 \in reached
  <2>1. after[0] = Filled(keys, given, 0) /\ after[0] # None
    BY DEF FirstRows
  <2>2. \A payer \in Payers : Cardinality(Took(given, payer, 0)) = 0
    BY TookCounts
  <2> QED BY <1>1, <2>1, <2>2
<1>3. ASSUME NEW j \in 1..m, j - 1 \in reached PROVE j \in reached
  <2> DEFINE r == given[j - 1]
             before == Filled(keys, given, j - 1)
  <2>1. /\ j - 1 \in 0..m /\ after[j] = IF after[j - 1] = None THEN None ELSE D!Saved(after[j - 1], j - 1, r, others[r.payer])
        /\ after[j - 1] \in {before, None}
        /\ after[j - 1] # None => \A payer \in Payers : Cardinality(Took(given, payer, j - 1)) <= FreePlan
        /\ (\A payer \in Payers : Cardinality(others[payer]) = 0 /\ Cardinality(Took(given, payer, m)) <= FreePlan)
           => after[j - 1] # None
    BY <1>3 DEF FirstRows
  <2>2. r \in Rows /\ r.payer \in Payers /\ r.live \in BOOLEAN /\ r # None /\ j - 1 \in keys
    <3>1. j - 1 \in 0..(m - 1)
      OBVIOUS
    <3>2. r \in Rows /\ j - 1 \in keys
      BY <3>1
    <3> QED BY <3>2, RowsAreRows
  <2>3. CASE after[j - 1] = None
    BY <2>1, <2>3
  <2>4. CASE after[j - 1] # None
    <3>1. after[j - 1] = before /\ before # None /\ Filled(keys, given, j) # None
      BY <2>1, <2>4
    <3>2. before[j - 1] = None /\ [before EXCEPT ![j - 1] = r] = Filled(keys, given, j)
      <4>1. \A t \in keys : t \in Int /\ (t < j <=> t < j - 1 \/ t = j - 1)
        OBVIOUS
      <4>2. before = [t \in keys |-> IF t < j - 1 THEN given[t] ELSE None]
            /\ Filled(keys, given, j) = [t \in keys |-> IF t < j THEN given[t] ELSE None]
        BY DEF Filled
      <4> HIDE DEF before
      <4> QED BY <2>2, <4>1, <4>2
    <3>3. D!Enters(before[j - 1], r) <=> r.live
      BY <2>2, <3>2 DEF D!Enters
    <3>4. ASSUME NEW payer \in Payers PROVE D!Live(before, payer) = Took(given, payer, j - 1)
      <4>1. ASSUME NEW t \in 0..(j - 2)
            PROVE  t \in keys /\ before[t] = given[t] /\ given[t] \in Rows /\ given[t] # None
        <5>1. t \in 0..(m - 1) /\ t < j - 1
          OBVIOUS
        <5> QED BY <5>1, RowsAreRows DEF Filled
      <4>2. ASSUME NEW t \in keys, before[t] # None PROVE t \in 0..(j - 2)
        <5>1. t < j - 1
          BY <4>2 DEF Filled
        <5> QED BY <5>1
      <4>3. DOMAIN before = keys
        BY DEF Filled
      <4>4. Took(given, payer, j - 1) = {t \in 0..(j - 2) : given[t] = D!Row(payer, TRUE)}
        <5>1. (j - 1) - 1 = j - 2
          OBVIOUS
        <5> QED BY <5>1 DEF Took
      <4> HIDE DEF before
      <4>5. \A t \in keys : before[t] # None /\ before[t].live /\ before[t].payer = payer
                            <=> t \in 0..(j - 2) /\ given[t] = D!Row(payer, TRUE)
        <5>1. \A t \in 0..(j - 2) : given[t] = D!Row(payer, TRUE) <=> given[t].live /\ given[t].payer = payer
          BY <4>1, RowsAreRows
        <5> QED BY <4>1, <4>2, <5>1
      <4> QED BY <4>1, <4>3, <4>4, <4>5 DEF D!Live
    <3>5. ASSUME NEW payer \in Payers
          PROVE  /\ Cardinality(Took(given, payer, j - 1)) \in Nat /\ Cardinality(Took(given, payer, j)) \in Nat
                 /\ Cardinality(Took(given, payer, j)) <= Cardinality(Took(given, payer, m))
                 /\ Cardinality(Took(given, payer, j)) =
                      Cardinality(Took(given, payer, j - 1)) + IF r.live /\ r.payer = payer THEN 1 ELSE 0
      <4>1. r = D!Row(payer, TRUE) <=> r.live /\ r.payer = payer
        BY <2>2, RowsAreRows
      <4> HIDE DEF r
      <4>2. Cardinality(Took(given, payer, j)) =
              Cardinality(Took(given, payer, j - 1)) + IF r = D!Row(payer, TRUE) THEN 1 ELSE 0
        BY TookCounts DEF r
      <4>3. /\ Cardinality(Took(given, payer, j - 1)) \in Nat /\ Cardinality(Took(given, payer, j)) \in Nat
            /\ Cardinality(Took(given, payer, j)) <= Cardinality(Took(given, payer, m))
        <5>1. j \in 0..m /\ j - 1 \in 0..m
          OBVIOUS
        <5> QED BY <5>1, TookCounts
      <4> QED BY <4>1, <4>2, <4>3
    <3>6. after[j] = IF r.live /\ Cardinality(Took(given, r.payer, j - 1)) + Cardinality(others[r.payer]) >= FreePlan
                     THEN None ELSE Filled(keys, given, j)
      <4>1. after[j] = D!Saved(before, j - 1, r, others[r.payer])
        BY <2>1, <2>4, <3>1
      <4>2. D!Live(before, r.payer) = Took(given, r.payer, j - 1)
        BY <2>2, <3>4
      <4> HIDE DEF before, r
      <4> QED BY <3>2, <3>3, <4>1, <4>2, DemoCounts DEF D!Saved
    <3> HIDE DEF r, before
    <3>7. after[j] # None => \A payer \in Payers : Cardinality(Took(given, payer, j)) <= FreePlan
      <4> SUFFICES ASSUME after[j] # None, NEW payer \in Payers PROVE Cardinality(Took(given, payer, j)) <= FreePlan
        OBVIOUS
      <4>1. CASE r.live /\ r.payer = payer
        <5>1. ~(Cardinality(Took(given, payer, j - 1)) + Cardinality(others[payer]) >= FreePlan)
          BY <3>6, <4>1
        <5> QED BY <1>1, <3>5, <4>1, <5>1
      <4>2. CASE ~(r.live /\ r.payer = payer)
        BY <1>1, <2>1, <2>4, <3>5, <4>2
      <4> QED BY <4>1, <4>2
    <3>8. ASSUME \A payer \in Payers : Cardinality(others[payer]) = 0 /\ Cardinality(Took(given, payer, m)) <= FreePlan
          PROVE  after[j] # None
      <4>1. CASE r.live
        <5>1. Cardinality(Took(given, r.payer, j)) = Cardinality(Took(given, r.payer, j - 1)) + 1
          BY <2>2, <3>5, <4>1
        <5>2. /\ Cardinality(Took(given, r.payer, j - 1)) \in Nat /\ Cardinality(Took(given, r.payer, j)) \in Nat
              /\ Cardinality(Took(given, r.payer, m)) \in Nat
              /\ Cardinality(Took(given, r.payer, j)) <= Cardinality(Took(given, r.payer, m))
          <6>1. m \in 0..m
            OBVIOUS
          <6> QED BY <2>2, <3>5, <6>1, TookCounts
        <5>3. Cardinality(others[r.payer]) = 0 /\ Cardinality(Took(given, r.payer, m)) <= FreePlan
          BY <2>2, <3>8
        <5>4. ~(Cardinality(Took(given, r.payer, j - 1)) + Cardinality(others[r.payer]) >= FreePlan)
          BY <1>1, <5>1, <5>2, <5>3
        <5> QED BY <3>1, <3>6, <5>4
      <4>2. CASE ~r.live
        BY <3>1, <3>6, <4>2
      <4> QED BY <4>1, <4>2
    <3>9. after[j] \in {Filled(keys, given, j), None}
      BY <3>6
    <3> QED BY <3>7, <3>8, <3>9
  <2> QED BY <2>3, <2>4
<1>4. 0..m \subseteq reached
  <2> HIDE DEF reached
  <2> QED BY <1>2, <1>3, Climb
<1> QED BY <1>4

\* Three fifths of the rows are properties, rounded, and the rest are stays.
LEMMA RowsShared ==
  ASSUME NEW n \in Nat
  PROVE  LET p == D!Cardinality(D!PropertyIndices(n))
             s == D!Cardinality(D!StayIndices(n))
         IN  /\ p \in Nat /\ s \in Nat
             /\ D!PropertyIndices(n) = 0..(p - 1) /\ D!StayIndices(n) = 0..(s - 1)
             /\ s < 13 => p < 20
<1> DEFINE p == D!Cardinality(D!PropertyIndices(n))
           s == D!Cardinality(D!StayIndices(n))
           fifths == (6 * n + 5) \div 10
<1>1. fifths \in Nat /\ 10 * fifths <= 6 * n + 5 /\ 6 * n + 5 < 10 * fifths + 10
  OBVIOUS
<1>2. D!PropertyIndices(n) = 0..(fifths - 1)
  BY DEF D!PropertyIndices
<1> HIDE DEF fifths
<1>3. p = fifths
  <2>1. 0 \in Int /\ fifths - 1 \in Int
    BY <1>1
  <2>2. Cardinality(0..(fifths - 1)) = IF 0 > fifths - 1 THEN 0 ELSE fifths - 1 - 0 + 1
    BY <2>1, FS_Interval
  <2>3. Cardinality(0..(fifths - 1)) = fifths
    BY <1>1, <2>2
  <2> QED BY <1>2, <2>3, DemoCounts
<1>4. D!StayIndices(n) = 0..(n - p - 1)
  BY DEF D!StayIndices
<1>5. n - p \in Nat
  BY <1>1, <1>3
<1> HIDE DEF p
<1>6. s = n - p
  <2> DEFINE last == n - p - 1
  <2>1. 0 \in Int /\ last \in Int
    BY <1>5
  <2> HIDE DEF last
  <2>2. Cardinality(0..last) = IF 0 > last THEN 0 ELSE last - 0 + 1
    BY <2>1, FS_Interval
  <2>3. Cardinality(0..last) = n - p
    BY <1>1, <1>3, <1>5, <2>2 DEF last
  <2> QED BY <1>4, <2>3, DemoCounts DEF last
<1> HIDE DEF s
<1>7. s < 13 => p < 20
  BY <1>1, <1>3, <1>6
<1> QED BY <1>1, <1>2, <1>3, <1>4, <1>5, <1>6, <1>7 DEF p, s

PropertyRows == [j \in 0..29 |-> D!PropertyRow(j)]
StayRows     == [j \in 0..19 |-> D!StayRow(j)]

\* Thirteen stays are four active ones of one account.
LEMMA ThirteenAreTooMany ==
  ASSUME FreePlan \in Nat, FreePlan < 4, NEW some, IsFiniteSet(some), {0, 4, 8, 12} \subseteq some
  PROVE  ~(Cardinality(some) <= FreePlan)
<1>1. Cardinality({0, 4, 8, 12}) = 4 /\ IsFiniteSet({0, 4, 8, 12})
  <2> DEFINE two == {0} \cup {4}
             three == two \cup {8}
             four == three \cup {12}
  <2>1. 4 \notin {0} /\ 8 \notin two /\ 12 \notin three /\ four = {0, 4, 8, 12}
    OBVIOUS
  <2>2. IsFiniteSet({0}) /\ Cardinality({0}) = 1
    BY FS_Singleton
  <2>3. IsFiniteSet(two) /\ Cardinality(two) = 2
    <3>1. IsFiniteSet(two) /\ Cardinality(two) = Cardinality({0}) + 1
      BY <2>1, <2>2, FS_AddElement
    <3> QED BY <2>2, <3>1
  <2> HIDE DEF two
  <2>4. IsFiniteSet(three) /\ Cardinality(three) = 3
    <3>1. IsFiniteSet(three) /\ Cardinality(three) = Cardinality(two) + 1
      BY <2>1, <2>3, FS_AddElement
    <3> QED BY <2>3, <3>1
  <2> HIDE DEF three
  <2>5. IsFiniteSet(four) /\ Cardinality(four) = 4
    <3>1. IsFiniteSet(four) /\ Cardinality(four) = Cardinality(three) + 1
      BY <2>1, <2>4, FS_AddElement
    <3> QED BY <2>4, <3>1
  <2> HIDE DEF four
  <2> QED BY <2>1, <2>5
<1>2. 4 <= Cardinality(some) /\ Cardinality(some) \in Nat
  BY <1>1, FS_Subset, FS_CardinalityType
<1> QED BY <1>2

LEMMA FourthStays ==
  <<"account", 0>> \in Payers /\ \A i \in {0, 4, 8, 12} : D!StayRow(i) = D!Row(<<"account", 0>>, TRUE)
<1>1. <<"account", 0>> \in Payers
  BY DEF Payers
<1>2. \A i \in {0, 4, 8, 12} : i % 4 = 0 /\ (i % 20 < 16) = TRUE
  OBVIOUS
<1>3. \A i \in {0, 4, 8, 12} : D!StayRow(i) = D!Row(<<"account", 0>>, TRUE)
  BY <1>2 DEF D!StayRow, D!StayTitles, D!PublishedNames
<1> QED BY <1>1, <1>3

\* The rows of a table that starts empty are those of the first titles.
LEMMA StaysFirst ==
  ASSUME D!Terms, NEW k \in Nat, NEW m \in 0..20, m <= k, NEW after, StayRun(after, D!Empty.stay, k)
  PROVE  FirstRows(after, Stayed, StayRows, [payer \in Payers |-> {}], m)
<1>1. Stayed = 0..19 /\ after[0] = Filled(Stayed, StayRows, 0)
  BY DEF StayRun, D!Empty, Filled, Stayed, D!StayTitles
<1>2. ASSUME NEW i \in 1..m
      PROVE  after[i] = IF after[i - 1] = None THEN None
                        ELSE D!Saved(after[i - 1], i - 1, StayRows[i - 1], [payer \in Payers |-> {}][StayRows[i - 1].payer])
  <2>1. i \in 1..k /\ i - 1 \in 0..19 /\ (i - 1) % 20 = i - 1 /\ i - 1 \in Nat
    OBVIOUS
  <2>2. StayRows[i - 1] = D!StayRow(i - 1)
    BY <2>1 DEF StayRows
  <2>3. D!StayRow(i - 1).payer \in Payers
    BY <2>1, DemoStayRows DEF D!Row
  <2> QED BY <2>1, <2>2, <2>3 DEF StayRun, D!StayTitles
<1> QED BY <1>1, <1>2 DEF FirstRows
LEMMA PropertiesFirst ==
  ASSUME D!Terms, NEW k \in Nat, NEW m \in 0..30, m <= k, NEW after, PropertyRun(after, D!Empty.property, k)
  PROVE  FirstRows(after, Titles, PropertyRows, [payer \in Payers |-> D!ByHand(payer)], m)
<1>1. Titles = 0..29 /\ after[0] = Filled(Titles, PropertyRows, 0)
  BY DEF PropertyRun, D!Empty, Filled, Titles, D!PropertyTitles
<1>2. ASSUME NEW i \in 1..m
      PROVE  after[i] = IF after[i - 1] = None THEN None
                        ELSE D!Saved(after[i - 1], i - 1, PropertyRows[i - 1],
                                     [payer \in Payers |-> D!ByHand(payer)][PropertyRows[i - 1].payer])
  <2>1. i \in 1..k /\ i - 1 \in 0..29 /\ (i - 1) % 30 = i - 1 /\ i - 1 \in Nat
    OBVIOUS
  <2>2. PropertyRows[i - 1] = D!PropertyRow(i - 1)
    BY <2>1 DEF PropertyRows
  <2>3. D!PropertyRow(i - 1).payer \in Payers
    BY <2>1, DemoPropertyRows DEF D!Row
  <2> QED BY <2>1, <2>2, <2>3 DEF PropertyRun, D!PropertyTitles
<1> QED BY <1>1, <1>2 DEF FirstRows

LEMMA TablesDiffer ==
  ASSUME D!Terms
  PROVE  /\ \A i \in 0..20 : Filled(Stayed, StayRows, i) # None
         /\ \A i \in 0..30 : Filled(Titles, PropertyRows, i) # None
         /\ \A j \in 0..19 : StayRows[j] \in Rows
         /\ \A j \in 0..29 : PropertyRows[j] \in Rows
<1>1. \A j \in Nat : D!StayRow(j) \in Rows /\ D!PropertyRow(j) \in Rows
  BY DemoStayRows, DemoPropertyRows DEF Rows
<1>2. Rows \subseteq [payer : Payers, live : BOOLEAN]
  BY DEF Rows, D!Row
<1>3. \A j \in 0..19 : StayRows[j] \in Rows
  BY <1>1 DEF StayRows
<1>4. \A j \in 0..29 : PropertyRows[j] \in Rows
  BY <1>1 DEF PropertyRows
<1>5. ASSUME NEW i \in 0..20 PROVE Filled(Stayed, StayRows, i) # None
  <2>1. Filled(Stayed, StayRows, i) \in [0..19 -> [payer : Payers, live : BOOLEAN] \cup {None}]
    BY <1>2, <1>3 DEF Filled, Stayed, D!StayTitles
  <2> QED BY <2>1 DEF D!Terms, Payers
<1>6. ASSUME NEW i \in 0..30 PROVE Filled(Titles, PropertyRows, i) # None
  <2>1. Filled(Titles, PropertyRows, i) \in [0..29 -> [payer : Payers, live : BOOLEAN] \cup {None}]
    BY <1>2, <1>4 DEF Filled, Titles, D!PropertyTitles
  <2> QED BY <2>1 DEF D!Terms, Payers
<1> QED BY <1>3, <1>4, <1>5, <1>6

\* A run that is not refused on empty tables gives every row a title of its own.
LEMMA StaysRun ==
  ASSUME D!Terms, FreePlan < 4, NEW k \in Nat, NEW after, StayRun(after, D!Empty.stay, k), after[k] # None
  PROVE  /\ k < 13 /\ after[k] = Filled(Stayed, StayRows, k)
         /\ \A payer \in Payers : Cardinality(Took(StayRows, payer, k)) <= FreePlan
<1> DEFINE others == [payer \in Payers |-> {}]
<1>1. \A payer \in Payers : Cardinality(others[payer]) \in Nat
  BY FS_EmptySet
<1>2. FreePlan \in Nat /\ Stayed = 0..19
  BY DEF D!Terms, Stayed, D!StayTitles
<1>3. ASSUME NEW m \in 0..20, m <= k
      PROVE  /\ after[m] \in {Filled(Stayed, StayRows, m), None}
             /\ after[m] # None => \A payer \in Payers : Cardinality(Took(StayRows, payer, m)) <= FreePlan
  <2>1. FirstRows(after, Stayed, StayRows, others, m)
    BY <1>3, StaysFirst
  <2>2. /\ \A i \in 0..m : Filled(Stayed, StayRows, i) # None
        /\ \A j \in 0..(m - 1) : StayRows[j] \in Rows
        /\ 0..(m - 1) \subseteq Stayed /\ Stayed \in SUBSET Nat /\ m \in 0..m /\ m \in Nat
    <3>1. \A i \in 0..m : i \in 0..20
      OBVIOUS
    <3>2. \A j \in 0..(m - 1) : j \in 0..19
      OBVIOUS
    <3> QED BY <1>2, <3>1, <3>2, TablesDiffer
  <2> HIDE DEF others
  <2> QED BY <1>1, <2>1, <2>2, FillsUp
<1> HIDE DEF others
<1>4. CASE k >= 13
  <2>1. 13 \in 0..20 /\ 13 <= k
    BY <1>4
  <2>2. after[13] = None
    <3>1. {0, 4, 8, 12} \subseteq Took(StayRows, <<"account", 0>>, 13)
      <4>1. \A i \in {0, 4, 8, 12} : i \in 0..12 /\ StayRows[i] = D!StayRow(i)
        BY DEF StayRows
      <4>2. 13 - 1 = 12
        OBVIOUS
      <4> QED BY <4>1, <4>2, FourthStays DEF Took
    <3>2. IsFiniteSet(Took(StayRows, <<"account", 0>>, 13))
      <4>1. 0 \in Int /\ 13 - 1 \in Int
        OBVIOUS
      <4>2. IsFiniteSet(0..(13 - 1))
        BY <4>1, FS_Interval
      <4> QED BY <4>2, FS_Subset DEF Took
    <3>3. ~(Cardinality(Took(StayRows, <<"account", 0>>, 13)) <= FreePlan)
      BY <1>2, <3>1, <3>2, ThirteenAreTooMany
    <3> QED BY <1>3, <2>1, <3>3, FourthStays
  <2> DEFINE reached == {i \in 0..(k - 13) : after[13 + i] = None}
  <2>3. 0 \in reached /\ k - 13 \in Nat
    BY <1>4, <2>2
  <2>4. ASSUME NEW i \in 1..(k - 13), i - 1 \in reached PROVE i \in reached
    <3>1. 13 + i \in 1..k /\ (13 + i) - 1 = 13 + (i - 1) /\ i \in 0..(k - 13)
      BY <1>4
    <3> QED BY <2>4, <3>1 DEF StayRun
  <2> HIDE DEF reached
  <2>5. 0..(k - 13) \subseteq reached
    BY <2>3, <2>4, Climb
  <2>6. k - 13 \in 0..(k - 13) /\ 13 + (k - 13) = k
    BY <1>4
  <2> QED BY <2>5, <2>6 DEF reached
<1>5. CASE k < 13
  <2>1. k \in 0..20 /\ k <= k
    BY <1>5
  <2> QED BY <1>3, <1>5, <2>1
<1> QED BY <1>4, <1>5

LEMMA PropertiesRun ==
  ASSUME D!Terms, NEW k \in 0..30, NEW after, PropertyRun(after, D!Empty.property, k)
  PROVE  /\ after[k] # None => /\ after[k] = Filled(Titles, PropertyRows, k)
                               /\ \A payer \in Payers : Cardinality(Took(PropertyRows, payer, k)) <= FreePlan
         /\ (\A payer \in Payers : D!ByHand(payer) = {} /\ Cardinality(Took(PropertyRows, payer, k)) <= FreePlan)
            => after[k] # None
<1> DEFINE others == [payer \in Payers |-> D!ByHand(payer)]
<1>1. /\ \A payer \in Payers : Cardinality(others[payer]) \in Nat
      /\ \A payer \in Payers : D!ByHand(payer) = {} => Cardinality(others[payer]) = 0
  BY AddedCounted, FS_EmptySet DEF Added
<1>2. k \in Nat /\ k <= k
  OBVIOUS
<1>3. FirstRows(after, Titles, PropertyRows, others, k)
  BY <1>2, PropertiesFirst
<1>4. /\ \A i \in 0..k : Filled(Titles, PropertyRows, i) # None
      /\ \A j \in 0..(k - 1) : PropertyRows[j] \in Rows
      /\ 0..(k - 1) \subseteq Titles /\ Titles \in SUBSET Nat /\ k \in 0..k
  <2>1. \A i \in 0..k : i \in 0..30
    OBVIOUS
  <2>2. \A j \in 0..(k - 1) : j \in 0..29
    OBVIOUS
  <2>3. Titles = 0..29
    BY DEF Titles, D!PropertyTitles
  <2> QED BY <2>1, <2>2, <2>3, TablesDiffer
<1> HIDE DEF others
<1>5. /\ after[k] \in {Filled(Titles, PropertyRows, k), None}
      /\ after[k] # None => \A payer \in Payers : Cardinality(Took(PropertyRows, payer, k)) <= FreePlan
      /\ (\A payer \in Payers : Cardinality(others[payer]) = 0 /\ Cardinality(Took(PropertyRows, payer, k)) <= FreePlan)
         => after[k] # None
  <2>1. \A payer \in Payers : Cardinality(others[payer]) \in Nat
    BY <1>1
  <2>2. 0..(k - 1) \subseteq Titles /\ Titles \in SUBSET Nat /\ k \in 0..k /\ k \in Nat
    BY <1>2, <1>4
  <2>3. (\A i \in 0..k : Filled(Titles, PropertyRows, i) # None) /\ \A j \in 0..(k - 1) : PropertyRows[j] \in Rows
    BY <1>4
  <2>4. ASSUME NEW keys \in SUBSET Nat, keys = Titles, NEW given, given = PropertyRows
        PROVE  /\ after[k] \in {Filled(keys, given, k), None}
               /\ after[k] # None => \A payer \in Payers : Cardinality(Took(given, payer, k)) <= FreePlan
               /\ (\A payer \in Payers : Cardinality(others[payer]) = 0 /\ Cardinality(Took(given, payer, k)) <= FreePlan)
                  => after[k] # None
    BY <1>3, <2>1, <2>2, <2>3, <2>4, FillsUp
  <2> QED BY <2>2, <2>4
<1> QED BY <1>1, <1>5

LEMMA StaysAccepted ==
  ASSUME D!Terms, NEW k \in 0..20, NEW after, StayRun(after, D!Empty.stay, k),
         \A payer \in Payers : Cardinality(Took(StayRows, payer, k)) <= FreePlan
  PROVE  after[k] # None
<1> DEFINE others == [payer \in Payers |-> {}]
<1>1. \A payer \in Payers : Cardinality(others[payer]) = 0 /\ Cardinality(others[payer]) \in Nat
  BY FS_EmptySet
<1>2. k \in Nat /\ k <= k
  OBVIOUS
<1>3. FirstRows(after, Stayed, StayRows, others, k)
  BY <1>2, StaysFirst
<1>4. /\ \A i \in 0..k : Filled(Stayed, StayRows, i) # None
      /\ \A j \in 0..(k - 1) : StayRows[j] \in Rows
      /\ 0..(k - 1) \subseteq Stayed /\ Stayed \in SUBSET Nat /\ k \in 0..k
  <2>1. \A i \in 0..k : i \in 0..20
    OBVIOUS
  <2>2. \A j \in 0..(k - 1) : j \in 0..19
    OBVIOUS
  <2>3. Stayed = 0..19
    BY DEF Stayed, D!StayTitles
  <2> QED BY <2>1, <2>2, <2>3, TablesDiffer
<1> HIDE DEF others
<1>5. /\ after[k] \in {Filled(Stayed, StayRows, k), None}
      /\ after[k] # None => \A payer \in Payers : Cardinality(Took(StayRows, payer, k)) <= FreePlan
      /\ (\A payer \in Payers : Cardinality(others[payer]) = 0 /\ Cardinality(Took(StayRows, payer, k)) <= FreePlan)
         => after[k] # None
  <2>1. \A payer \in Payers : Cardinality(others[payer]) \in Nat
    BY <1>1
  <2>2. 0..(k - 1) \subseteq Stayed /\ Stayed \in SUBSET Nat /\ k \in 0..k /\ k \in Nat
    BY <1>2, <1>4
  <2>3. (\A i \in 0..k : Filled(Stayed, StayRows, i) # None) /\ \A j \in 0..(k - 1) : StayRows[j] \in Rows
    BY <1>4
  <2> QED BY <1>3, <2>1, <2>2, <2>3, FillsUp
<1> QED BY <1>1, <1>5

\* As many rows as numbers they are made from, when no two numbers make one row.
LEMMA RowsCounted ==
  ASSUME NEW numbers, IsFiniteSet(numbers), NEW f, f = [i \in numbers |-> f[i]],
         \A i, j \in numbers : f[i] = f[j] => i = j
  PROVE  Cardinality({f[i] : i \in numbers}) = Cardinality(numbers) /\ IsFiniteSet({f[i] : i \in numbers})
<1> DEFINE rows == {f[i] : i \in numbers}
<1>1. f \in [numbers -> rows] /\ (\A i, j \in numbers : f[i] = f[j] => i = j) /\ \A r \in rows : \E i \in numbers : f[i] = r
  OBVIOUS
<1> HIDE DEF rows
<1>2. f \in Injection(numbers, rows)
  BY <1>1 DEF Injection, IsInjective
<1>3. f \in Surjection(numbers, rows)
  BY <1>1 DEF Surjection
<1>4. ExistsBijection(numbers, rows)
  BY <1>2, <1>3 DEF Bijection, ExistsBijection
<1>5. IsFiniteSet(rows) /\ Cardinality(rows) = Cardinality(numbers)
  BY <1>4, FS_Bijection
<1> QED BY <1>5 DEF rows

\* No section writes the rows of another one.
LEMMA SectionsApart ==
  ASSUME NEW n, NEW d
  PROVE  /\ \A k \in D!UserRows \cup D!Agencies \cup D!Amenities \cup D!StayAmenities :
              k[1] \in {"user", "agency", "agent", "amenity", "stay_amenity"}
         /\ \A k \in D!PropertyImages(n) \cup D!Rooms(n) \cup D!StayImages(n) \cup D!RoomImages(n) \cup D!NightRows(n, d) :
              k[1] \in {"property_image", "room", "stay_image", "room_image", "night"}
         /\ \A k \in D!FavouriteRows(n) : k[1] \in {"favourite_property", "favourite_stay"}
         /\ \A k \in D!SearchRows : k[1] \in {"search", "event"}
         /\ \A k \in D!ConversationKeys(n) : k[1] = "conversation"
         /\ \A k \in D!Messages(n) : k[1] = "message"
         /\ \A k \in D!ViewingRows(n, d) : k[1] = "viewing"
         /\ \A k \in D!Bookings : k[1] = "booking"
         /\ \A k \in D!Verifications : k[1] \in {"verification", "audit"}
         /\ \A k \in D!Notices : k[1] = "notification"
         /\ \A k \in D!Reports : k[1] = "report"
<1>1. \A k \in D!UserRows \cup D!Agencies \cup D!Amenities \cup D!StayAmenities :
        k[1] \in {"user", "agency", "agent", "amenity", "stay_amenity"}
  <2>1. (\A k \in D!UserRows : k[1] = "user") /\ \A k \in D!Amenities : k[1] = "amenity"
    BY DEF D!UserRows, D!Amenities
  <2>2. \A k \in D!StayAmenities : k[1] = "stay_amenity"
    BY DEF D!StayAmenities
  <2>3. \A k \in D!Agencies : k[1] \in {"agency", "agent"}
    BY DEF D!Agencies
  <2> QED BY <2>1, <2>2, <2>3
<1>2. \A k \in D!PropertyImages(n) \cup D!Rooms(n) \cup D!StayImages(n) \cup D!RoomImages(n) \cup D!NightRows(n, d) :
        k[1] \in {"property_image", "room", "stay_image", "room_image", "night"}
  <2>1. ASSUME NEW k \in D!PropertyImages(n) PROVE k[1] = "property_image"
    <3>1. PICK i \in D!PropertyIndices(n) : k \in {<<"property_image", i, j>> : j \in 0..(2 + (i % 4))}
      BY DEF D!PropertyImages
    <3> QED BY <3>1
  <2>2. \A k \in D!Rooms(n) : k[1] = "room"
    BY DEF D!Rooms
  <2>3. ASSUME NEW k \in D!StayImages(n) PROVE k[1] = "stay_image"
    <3>1. PICK i \in D!StayIndices(n) : k \in {<<"stay_image", i, j>> : j \in 0..(2 + (i % 4))}
      BY DEF D!StayImages
    <3> QED BY <3>1
  <2>4. ASSUME NEW k \in D!RoomImages(n) PROVE k[1] = "room_image"
    <3>1. PICK r \in D!Rooms(n) : k \in {<<"room_image", r[2], r[3], j>> : j \in 0..(r[3] % 3)}
      BY DEF D!RoomImages
    <3> QED BY <3>1
  <2>5. \A k \in D!NightRows(n, d) : k[1] = "night"
    BY DEF D!NightRows
  <2> QED BY <2>1, <2>2, <2>3, <2>4, <2>5
<1>3. ASSUME NEW k \in D!FavouriteRows(n) PROVE k[1] \in {"favourite_property", "favourite_stay"}
  <2>1. PICK s \in D!Seekers : \/ k \in {<<"favourite_property", s, i>> : i \in (s..(s + 4)) \cap D!PropertyIndices(n)}
                               \/ k \in {<<"favourite_stay", s, i>> : i \in (s..(s + 2)) \cap D!StayIndices(n)}
    BY DEF D!FavouriteRows
  <2> QED BY <2>1
<1>4. \A k \in D!SearchRows : k[1] \in {"search", "event"}
  BY DEF D!SearchRows
<1>5. \A k \in D!ConversationKeys(n) : k[1] = "conversation"
  BY DEF D!ConversationKeys
<1>6. \A k \in D!Messages(n) : k[1] = "message"
  BY DEF D!Messages
<1>7. \A k \in D!ViewingRows(n, d) : k[1] = "viewing"
  BY DEF D!ViewingRows
<1>8. \A k \in D!Bookings : k[1] = "booking"
  BY DEF D!Bookings
<1>9. \A k \in D!Verifications : k[1] \in {"verification", "audit"}
  BY DEF D!Verifications
<1>10. \A k \in D!Notices : k[1] = "notification"
  BY DEF D!Notices
<1>11. \A k \in D!Reports : k[1] = "report"
  BY DEF D!Reports
<1> QED BY <1>1, <1>2, <1>3, <1>4, <1>5, <1>6, <1>7, <1>8, <1>9, <1>10, <1>11

Section(rows, word) == {k \in rows : k[1] = word}

LEMMA SectionsOf ==
  ASSUME NEW n, NEW d, NEW before, before \subseteq D!Amenities \cup D!StayAmenities
  PROVE  LET all == before \cup D!Keys(n, d)
         IN  /\ Section(all, "viewing") = D!ViewingRows(n, d) /\ Section(all, "booking") = D!Bookings
             /\ Section(all, "verification") = {<<"verification", j>> : j \in 1..10}
             /\ Section(all, "notification") = D!Notices /\ Section(all, "report") = D!Reports
             /\ Section(all, "search") = {<<"search", j>> : j \in 0..(D!WantedSearches - 1)}
             /\ Section(all, "conversation") = D!ConversationKeys(n)
<1> DEFINE all == before \cup D!Keys(n, d)
           first == D!UserRows \cup D!Agencies \cup D!Amenities \cup D!StayAmenities
           second == D!PropertyImages(n) \cup D!Rooms(n) \cup D!StayImages(n) \cup D!RoomImages(n) \cup D!NightRows(n, d)
<1>1. all = first \cup second \cup D!FavouriteRows(n) \cup D!SearchRows \cup D!ConversationKeys(n) \cup D!Messages(n)
            \cup D!ViewingRows(n, d) \cup D!Bookings \cup D!Verifications \cup D!Notices \cup D!Reports
  BY DEF D!Keys
<1>2. /\ \A k \in first : k[1] \in {"user", "agency", "agent", "amenity", "stay_amenity"}
      /\ \A k \in second : k[1] \in {"property_image", "room", "stay_image", "room_image", "night"}
  BY SectionsApart
<1> HIDE DEF all, first, second
<1>3. Section(all, "viewing") = D!ViewingRows(n, d)
  BY <1>1, <1>2, SectionsApart DEF Section
<1>4. Section(all, "booking") = D!Bookings
  BY <1>1, <1>2, SectionsApart DEF Section
<1>5. Section(all, "verification") = {<<"verification", j>> : j \in 1..10}
  <2>1. Section(all, "verification") = {k \in D!Verifications : k[1] = "verification"}
    BY <1>1, <1>2, SectionsApart DEF Section
  <2> QED BY <2>1 DEF D!Verifications
<1>6. Section(all, "notification") = D!Notices
  BY <1>1, <1>2, SectionsApart DEF Section
<1>7. Section(all, "report") = D!Reports
  BY <1>1, <1>2, SectionsApart DEF Section
<1>8. Section(all, "search") = {<<"search", j>> : j \in 0..(D!WantedSearches - 1)}
  <2>1. Section(all, "search") = {k \in D!SearchRows : k[1] = "search"}
    BY <1>1, <1>2, SectionsApart DEF Section
  <2> QED BY <2>1 DEF D!SearchRows
<1>9. Section(all, "conversation") = D!ConversationKeys(n)
  BY <1>1, <1>2, SectionsApart DEF Section
<1> QED BY <1>3, <1>4, <1>5, <1>6, <1>7, <1>8, <1>9 DEF all

\* The rows a run makes or finds are as many as its summary prints.
LEMMA SectionsCounted ==
  ASSUME NEW n \in Nat, NEW d \in Int
  PROVE  /\ Cardinality(D!ViewingRows(n, d)) = 12 /\ Cardinality(D!Bookings) = 12
         /\ Cardinality({<<"verification", j>> : j \in 1..10}) = 10
         /\ Cardinality(D!Notices) = 12 /\ Cardinality(D!Reports) = 3
         /\ Cardinality({<<"search", j>> : j \in 0..(D!WantedSearches - 1)}) = 7
         /\ Cardinality(D!ConversationKeys(n)) =
              Cardinality(D!First(7, D!PropertyIndices(n))) + Cardinality(D!First(5, D!StayIndices(n)))
<1>1. /\ IsFiniteSet(0..11) /\ Cardinality(0..11) = 12 /\ IsFiniteSet(1..10) /\ Cardinality(1..10) = 10
      /\ IsFiniteSet(0..6) /\ Cardinality(0..6) = 7
  <2>1. 0 \in Int /\ 11 \in Int /\ 1 \in Int /\ 10 \in Int /\ 6 \in Int
    OBVIOUS
  <2>2. /\ IsFiniteSet(0..11) /\ Cardinality(0..11) = IF 0 > 11 THEN 0 ELSE 11 - 0 + 1
        /\ IsFiniteSet(1..10) /\ Cardinality(1..10) = IF 1 > 10 THEN 0 ELSE 10 - 1 + 1
        /\ IsFiniteSet(0..6) /\ Cardinality(0..6) = IF 0 > 6 THEN 0 ELSE 6 - 0 + 1
    BY <2>1, FS_Interval
  <2> QED BY <2>2
<1>2. Cardinality(D!ViewingRows(n, d)) = 12
  <2> DEFINE c == D!Cardinality(D!First(12, D!PropertyIndices(n)))
             f == [i \in d + 3..d + 14 |-> <<"viewing", (i - d - 3) % c, (i - d - 3) % 3, i>>]
  <2>1. D!ViewingRows(n, d) = {<<"viewing", i % c, i % 3, d + 3 + i>> : i \in 0..11}
    BY DEF D!ViewingRows, D!ViewingStatuses
  <2> HIDE DEF c
  <2>2. {f[i] : i \in d + 3..d + 14} = {<<"viewing", i % c, i % 3, d + 3 + i>> : i \in 0..11}
    <3>1. ASSUME NEW i \in 0..11 PROVE d + 3 + i \in d + 3..d + 14 /\ (d + 3 + i) - d - 3 = i
      OBVIOUS
    <3>2. ASSUME NEW i \in d + 3..d + 14 PROVE i - d - 3 \in 0..11 /\ d + 3 + (i - d - 3) = i
      OBVIOUS
    <3>3. \A i \in 0..11 : f[d + 3 + i] = <<"viewing", i % c, i % 3, d + 3 + i>>
      BY <3>1
    <3>4. \A i \in d + 3..d + 14 : f[i] = <<"viewing", (i - d - 3) % c, (i - d - 3) % 3, d + 3 + (i - d - 3)>>
      BY <3>2
    <3>5. \A i \in 0..11 : \E j \in d + 3..d + 14 : f[j] = <<"viewing", i % c, i % 3, d + 3 + i>>
      BY <3>1, <3>3
    <3>6. \A j \in d + 3..d + 14 : \E i \in 0..11 : f[j] = <<"viewing", i % c, i % 3, d + 3 + i>>
      BY <3>2, <3>4
    <3> HIDE DEF f
    <3> QED BY <3>5, <3>6
  <2>3. f = [i \in d + 3..d + 14 |-> f[i]] /\ \A i, j \in d + 3..d + 14 : f[i] = f[j] => i = j
    OBVIOUS
  <2> HIDE DEF f
  <2>4. IsFiniteSet(d + 3..d + 14) /\ Cardinality(d + 3..d + 14) = 12
    <3>1. d + 3 \in Int /\ d + 14 \in Int
      OBVIOUS
    <3>2. /\ IsFiniteSet(d + 3..d + 14)
          /\ Cardinality(d + 3..d + 14) = IF d + 3 > d + 14 THEN 0 ELSE (d + 14) - (d + 3) + 1
      BY <3>1, FS_Interval
    <3> QED BY <3>2
  <2>5. Cardinality({f[i] : i \in d + 3..d + 14}) = Cardinality(d + 3..d + 14)
    BY <2>3, <2>4, RowsCounted
  <2> QED BY <2>1, <2>2, <2>4, <2>5
<1>3. Cardinality(D!Bookings) = 12
  <2> DEFINE f == [i \in 0..11 |-> <<"booking", i % 3, i>>]
  <2>1. f = [i \in 0..11 |-> f[i]] /\ \A i, j \in 0..11 : f[i] = f[j] => i = j
    OBVIOUS
  <2>2. D!Bookings = {f[i] : i \in 0..11}
    BY DEF D!Bookings, D!BookingStatuses
  <2> HIDE DEF f
  <2>3. Cardinality({f[i] : i \in 0..11}) = Cardinality(0..11)
    BY <1>1, <2>1, RowsCounted
  <2> QED BY <1>1, <2>2, <2>3
<1>4. Cardinality({<<"verification", j>> : j \in 1..10}) = 10
  <2> DEFINE f == [j \in 1..10 |-> <<"verification", j>>]
  <2>1. f = [j \in 1..10 |-> f[j]] /\ \A i, j \in 1..10 : f[i] = f[j] => i = j
    OBVIOUS
  <2>2. {<<"verification", j>> : j \in 1..10} = {f[j] : j \in 1..10}
    OBVIOUS
  <2> HIDE DEF f
  <2> QED BY <1>1, <2>1, <2>2, RowsCounted
<1>5. Cardinality(D!Notices) = 12
  <2> DEFINE f == [i \in 0..11 |-> <<"notification", i % 6, i>>]
  <2>1. f = [i \in 0..11 |-> f[i]] /\ \A i, j \in 0..11 : f[i] = f[j] => i = j
    OBVIOUS
  <2>2. D!Notices = {f[i] : i \in 0..11}
    BY DEF D!Notices, D!NoticeKinds
  <2> HIDE DEF f
  <2>3. Cardinality({f[i] : i \in 0..11}) = Cardinality(0..11)
    BY <1>1, <2>1, RowsCounted
  <2> QED BY <1>1, <2>2, <2>3
<1>6. Cardinality(D!Reports) = 3
  <2> DEFINE one == {<<"report", 1, "property", 2>>}
             two == one \cup {<<"report", 2, "property", 5>>}
             three == two \cup {<<"report", 0, "stay", 3>>}
  <2>1. <<"report", 2, "property", 5>> \notin one /\ <<"report", 0, "stay", 3>> \notin two /\ D!Reports = three
    BY DEF D!Reports
  <2>2. IsFiniteSet(one) /\ Cardinality(one) = 1
    BY FS_Singleton
  <2> HIDE DEF one
  <2>3. IsFiniteSet(two) /\ Cardinality(two) = 2
    <3>1. IsFiniteSet(two) /\ Cardinality(two) = Cardinality(one) + 1
      BY <2>1, <2>2, FS_AddElement
    <3> QED BY <2>2, <3>1
  <2> HIDE DEF two
  <2>4. Cardinality(three) = Cardinality(two) + 1
    BY <2>1, <2>3, FS_AddElement
  <2> HIDE DEF three
  <2> QED BY <2>1, <2>3, <2>4
<1>7. Cardinality({<<"search", j>> : j \in 0..(D!WantedSearches - 1)}) = 7
  <2> DEFINE f == [j \in 0..6 |-> <<"search", j>>]
  <2>1. f = [j \in 0..6 |-> f[j]] /\ \A i, j \in 0..6 : f[i] = f[j] => i = j
    OBVIOUS
  <2>2. {<<"search", j>> : j \in 0..(D!WantedSearches - 1)} = {f[j] : j \in 0..6}
    BY DEF D!WantedSearches
  <2> HIDE DEF f
  <2> QED BY <1>1, <2>1, <2>2, RowsCounted
<1>8. Cardinality(D!ConversationKeys(n)) =
        Cardinality(D!First(7, D!PropertyIndices(n))) + Cardinality(D!First(5, D!StayIndices(n)))
  <2> DEFINE first == D!First(7, D!PropertyIndices(n))
             second == D!First(5, D!StayIndices(n))
             p == D!Cardinality(first)
             f == [i \in first |-> <<"conversation", "property", i, i>>]
             g == [i \in second |-> <<"conversation", "stay", i, p + i>>]
             asked == {f[i] : i \in first}
             wanted == {g[i] : i \in second}
  <2>1. IsFiniteSet(first) /\ IsFiniteSet(second)
    <3>1. IsFiniteSet(D!PropertyIndices(n)) /\ IsFiniteSet(D!StayIndices(n))
      <4> DEFINE last == D!Cardinality(D!PropertyIndices(n)) - 1
                 end == D!Cardinality(D!StayIndices(n)) - 1
      <4>1. /\ D!PropertyIndices(n) = 0..last /\ D!StayIndices(n) = 0..end
            /\ 0 \in Int /\ last \in Int /\ end \in Int
        BY RowsShared
      <4> HIDE DEF last, end
      <4> QED BY <4>1, FS_Interval
    <3> QED BY <3>1, FS_Subset DEF D!First
  <2>2. /\ f = [i \in first |-> f[i]] /\ (\A i, j \in first : f[i] = f[j] => i = j)
        /\ g = [i \in second |-> g[i]] /\ (\A i, j \in second : g[i] = g[j] => i = j)
        /\ (\A i \in first : f[i][2] = "property") /\ \A i \in second : g[i][2] = "stay"
    OBVIOUS
  <2>3. D!ConversationKeys(n) = asked \cup wanted
    BY DEF D!ConversationKeys
  <2> HIDE DEF first, second, f, g
  <2>4. /\ Cardinality(asked) = Cardinality(first) /\ IsFiniteSet(asked)
        /\ Cardinality(wanted) = Cardinality(second) /\ IsFiniteSet(wanted)
    <3>1. Cardinality({f[i] : i \in first}) = Cardinality(first) /\ IsFiniteSet({f[i] : i \in first})
      BY <2>1, <2>2, RowsCounted
    <3>2. Cardinality({g[i] : i \in second}) = Cardinality(second) /\ IsFiniteSet({g[i] : i \in second})
      BY <2>1, <2>2, RowsCounted
    <3> QED BY <3>1, <3>2
  <2>5. asked \cap wanted = {}
    BY <2>2
  <2> HIDE DEF asked, wanted
  <2>6. Cardinality(asked \cup wanted) = Cardinality(asked) + Cardinality(wanted) - Cardinality({})
    BY <2>4, <2>5, FS_Union
  <2>7. Cardinality({}) = 0 /\ Cardinality(asked) \in Nat /\ Cardinality(wanted) \in Nat
    BY <2>4, FS_EmptySet, FS_CardinalityType
  <2> QED BY <2>3, <2>4, <2>6, <2>7 DEF first, second
<1> QED BY <1>2, <1>3, <1>4, <1>5, <1>6, <1>7, <1>8

LEMMA FirstTitlesListed ==
  ASSUME D!Terms
  PROVE  /\ \A k \in 0..20 : Cardinality(D!Listed(Filled(Stayed, StayRows, k))) = k
         /\ \A k \in 0..30 : Cardinality(D!Listed(Filled(Titles, PropertyRows, k))) = k
<1>1. ASSUME NEW last \in Nat, NEW given, \A j \in 0..last : given[j] # None, NEW k \in 0..(last + 1)
      PROVE  Cardinality(D!Listed(Filled(0..last, given, k))) = k
  <2>1. D!Listed(Filled(0..last, given, k)) = 0..(k - 1)
    <3> DEFINE table == Filled(0..last, given, k)
    <3>1. DOMAIN table = 0..last /\ \A t \in 0..last : table[t] = IF t < k THEN given[t] ELSE None
      BY DEF Filled
    <3> HIDE DEF table
    <3>2. \A t \in 0..last : table[t] # None <=> t \in 0..(k - 1)
      BY <1>1, <3>1
    <3>3. \A t \in 0..(k - 1) : t \in 0..last
      OBVIOUS
    <3>4. D!Listed(table) = {t \in 0..last : table[t] # None}
      BY <3>1 DEF D!Listed
    <3> QED BY <3>2, <3>3, <3>4 DEF table
  <2>2. 0 \in Int /\ k - 1 \in Int
    OBVIOUS
  <2>3. Cardinality(0..(k - 1)) = IF 0 > k - 1 THEN 0 ELSE (k - 1) - 0 + 1
    BY <2>2, FS_Interval
  <2> QED BY <2>1, <2>3
<1>2. (\A j \in 0..19 : StayRows[j] # None) /\ \A j \in 0..29 : PropertyRows[j] # None
  BY TablesDiffer, RowsAreRows
<1>3. Stayed = 0..19 /\ Titles = 0..29
  BY DEF Stayed, Titles, D!StayTitles, D!PropertyTitles
<1>4. 19 \in Nat /\ 29 \in Nat /\ 19 + 1 = 20 /\ 29 + 1 = 30
  OBVIOUS
<1> QED BY <1>1, <1>2, <1>3, <1>4

Published(n, payer) ==
  /\ Cardinality({i \in D!PropertyIndices(n) : D!PropertyRow(i) = D!Row(payer, TRUE)}) <= FreePlan
  /\ Cardinality({i \in D!StayIndices(n) : D!StayRow(i) = D!Row(payer, TRUE)}) <= FreePlan

LEMMA PublishedTook ==
  ASSUME NEW n \in Nat, D!Cardinality(D!StayIndices(n)) < 13, NEW payer
  PROVE  Published(n, payer) <=>
           /\ Cardinality(Took(PropertyRows, payer, D!Cardinality(D!PropertyIndices(n)))) <= FreePlan
           /\ Cardinality(Took(StayRows, payer, D!Cardinality(D!StayIndices(n)))) <= FreePlan
<1> DEFINE p == D!Cardinality(D!PropertyIndices(n))
           s == D!Cardinality(D!StayIndices(n))
<1>1. p \in Nat /\ s \in Nat /\ p < 20 /\ s < 13 /\ D!PropertyIndices(n) = 0..(p - 1) /\ D!StayIndices(n) = 0..(s - 1)
  BY RowsShared
<1> HIDE DEF p, s
<1>2. (\A i \in 0..(p - 1) : PropertyRows[i] = D!PropertyRow(i)) /\ \A i \in 0..(s - 1) : StayRows[i] = D!StayRow(i)
  <2>1. \A i \in 0..(p - 1) : i \in 0..29
    BY <1>1
  <2>2. \A i \in 0..(s - 1) : i \in 0..19
    BY <1>1
  <2> QED BY <2>1, <2>2 DEF PropertyRows, StayRows
<1>3. {i \in D!PropertyIndices(n) : D!PropertyRow(i) = D!Row(payer, TRUE)} = Took(PropertyRows, payer, p)
  BY <1>1, <1>2 DEF Took
<1>4. {i \in D!StayIndices(n) : D!StayRow(i) = D!Row(payer, TRUE)} = Took(StayRows, payer, s)
  BY <1>1, <1>2 DEF Took
<1> QED BY <1>3, <1>4 DEF Published, p, s

\* A run on empty tables.
LEMMA EmptyRun ==
  ASSUME D!Terms, FreePlan < 4, NEW n \in Nat, D!Empty.property \in Fitting(Titles, Added)
  PROVE  LET properties == D!SeededProperties(D!Empty.property, n)
             stays      == D!SeededStays(D!Empty.stay, n)
         IN  /\ properties # None /\ stays # None =>
                  /\ \A payer \in Payers : Published(n, payer)
                  /\ Cardinality(D!Listed(properties)) = D!Cardinality(D!PropertyIndices(n))
                  /\ Cardinality(D!Listed(stays)) = D!Cardinality(D!StayIndices(n))
             /\ (\A payer \in Payers : D!ByHand(payer) = {} /\ Published(n, payer)) => properties # None /\ stays # None
<1> DEFINE properties == D!SeededProperties(D!Empty.property, n)
           stays == D!SeededStays(D!Empty.stay, n)
           p == D!Cardinality(D!PropertyIndices(n))
           s == D!Cardinality(D!StayIndices(n))
<1>1. p \in Nat /\ s \in Nat /\ D!StayIndices(n) = 0..(s - 1) /\ (s < 13 => p < 20)
  BY RowsShared
<1>2. FreePlan \in Nat /\ D!Empty.stay \in Fitting(Stayed, Nobody)
  BY EmptyFits DEF D!Terms
<1>3. PICK filled : PropertyRun(filled, D!Empty.property, p) /\ properties = filled[p]
  BY <1>2, PropertiesSeeded
<1>4. PICK after : StayRun(after, D!Empty.stay, s) /\ stays = after[s]
  BY <1>2, StaysSeeded
<1> HIDE DEF properties, stays, p, s
<1>5. ASSUME properties # None, stays # None
      PROVE  /\ \A payer \in Payers : Published(n, payer)
             /\ Cardinality(D!Listed(properties)) = p /\ Cardinality(D!Listed(stays)) = s
  <2>1. /\ s < 13 /\ stays = Filled(Stayed, StayRows, s)
        /\ \A payer \in Payers : Cardinality(Took(StayRows, payer, s)) <= FreePlan
    BY <1>1, <1>4, <1>5, StaysRun
  <2>2. p \in 0..30 /\ s \in 0..20
    BY <1>1, <2>1
  <2>3. /\ properties = Filled(Titles, PropertyRows, p)
        /\ \A payer \in Payers : Cardinality(Took(PropertyRows, payer, p)) <= FreePlan
    BY <1>3, <1>5, <2>2, PropertiesRun
  <2> QED BY <2>1, <2>2, <2>3, FirstTitlesListed, PublishedTook DEF p, s
<1>6. ASSUME \A payer \in Payers : D!ByHand(payer) = {} /\ Published(n, payer) PROVE properties # None /\ stays # None
  <2>1. s < 13
    <3> SUFFICES ASSUME s >= 13 PROVE FALSE
      BY <1>1
    <3> DEFINE first == {i \in D!StayIndices(n) : D!StayRow(i) = D!Row(<<"account", 0>>, TRUE)}
    <3>1. {0, 4, 8, 12} \subseteq first
      <4>1. \A i \in {0, 4, 8, 12} : i \in D!StayIndices(n)
        BY <1>1
      <4> QED BY <4>1, FourthStays
    <3>2. IsFiniteSet(first)
      <4>1. 0 \in Int /\ s - 1 \in Int
        BY <1>1
      <4> QED BY <1>1, <4>1, FS_Interval, FS_Subset
    <3>3. Cardinality(first) <= FreePlan
      BY <1>6, FourthStays DEF Published
    <3> HIDE DEF first
    <3> QED BY <1>2, <3>1, <3>2, <3>3, ThirteenAreTooMany
  <2>2. p \in 0..30 /\ s \in 0..20
    BY <1>1, <2>1
  <2>3. \A payer \in Payers : /\ Cardinality(Took(PropertyRows, payer, p)) <= FreePlan
                              /\ Cardinality(Took(StayRows, payer, s)) <= FreePlan
    BY <1>6, <2>1, PublishedTook DEF p, s
  <2> QED BY <1>3, <1>4, <1>6, <2>2, <2>3, PropertiesRun, StaysAccepted
<1> QED BY <1>5, <1>6 DEF properties, stays, p, s

\* A database without demo rows has no demo listings, and every summary was true.
DemoTold ==
  /\ today \in Nat
  /\ D!SummaryTrue
  /\ db.keys \subseteq D!Amenities \cup D!StayAmenities => db.property = D!Empty.property /\ db.stay = D!Empty.stay

LEMMA SummaryCounts ==
  ASSUME NEW n \in Nat, NEW d \in Int, NEW before, before \subseteq D!Amenities \cup D!StayAmenities,
         NEW section \in DOMAIN D!Summary(n)
  PROVE  Cardinality(Section(before \cup D!Keys(n, d), section)) = D!Summary(n)[section]
<1>1. DOMAIN D!Summary(n) = {"viewing", "booking", "verification", "notification", "report", "search", "conversation"}
  BY DEF D!Summary
<1>2. /\ D!Summary(n)["viewing"] = 12 /\ D!Summary(n)["booking"] = 12 /\ D!Summary(n)["verification"] = 10
      /\ D!Summary(n)["notification"] = 12 /\ D!Summary(n)["report"] = 3 /\ D!Summary(n)["search"] = 7
      /\ D!Summary(n)["conversation"] =
           Cardinality(D!First(7, D!PropertyIndices(n))) + Cardinality(D!First(5, D!StayIndices(n)))
  BY DemoCounts DEF D!Summary
<1> DEFINE all == before \cup D!Keys(n, d)
<1>3. /\ Section(all, "viewing") = D!ViewingRows(n, d) /\ Section(all, "booking") = D!Bookings
      /\ Section(all, "verification") = {<<"verification", j>> : j \in 1..10}
      /\ Section(all, "notification") = D!Notices /\ Section(all, "report") = D!Reports
      /\ Section(all, "search") = {<<"search", j>> : j \in 0..(D!WantedSearches - 1)}
      /\ Section(all, "conversation") = D!ConversationKeys(n)
  BY SectionsOf
<1>4. /\ Cardinality(Section(all, "viewing")) = 12 /\ Cardinality(Section(all, "booking")) = 12 /\ Cardinality(Section(all, "verification")) = 10
      /\ Cardinality(Section(all, "notification")) = 12 /\ Cardinality(Section(all, "report")) = 3 /\ Cardinality(Section(all, "search")) = 7
      /\ Cardinality(Section(all, "conversation")) =
           Cardinality(D!First(7, D!PropertyIndices(n))) + Cardinality(D!First(5, D!StayIndices(n)))
  <2> HIDE DEF all
  <2> QED BY <1>3, SectionsCounted
<1> HIDE DEF all
<1>5. Cardinality(Section(all, section)) = D!Summary(n)[section]
  BY <1>1, <1>2, <1>4
<1> QED BY <1>5 DEF all

LEMMA PublishedCounts ==
  ASSUME NEW n
  PROVE  (\A payer \in Payers : Published(n, payer)) <=>
           \A payer \in {"account", "agency"} \X (0..3) :
             /\ D!Cardinality({i \in D!PropertyIndices(n) : D!PropertyRow(i) = D!Row(payer, TRUE)}) <= FreePlan
             /\ D!Cardinality({i \in D!StayIndices(n) : D!StayRow(i) = D!Row(payer, TRUE)}) <= FreePlan
BY DemoCounts DEF Published, Payers

LEMMA RunTells ==
  ASSUME D!Terms, FreePlan < 4, DemoSafe, DemoTold, NEW n \in Counts, NEW reset \in BOOLEAN, D!Run(n, reset)
  PROVE  DemoTold'
<1> DEFINE start == IF reset THEN D!Swept ELSE db
           properties == D!SeededProperties(start.property, n)
           stays == D!SeededStays(start.stay, n)
           ok == /\ reset => D!Protected = {}
                 /\ ~reset => <<"twin">> \notin extra
                 /\ properties # None /\ stays # None
           shared == D!Amenities \cup D!StayAmenities
<1>1. /\ told' = [count |-> n, ok |-> ok]
      /\ old' = IF reset /\ ok THEN D!Swept ELSE db
      /\ db' = IF ok THEN [keys |-> start.keys \cup D!Keys(n, today), property |-> properties, stay |-> stays] ELSE db
      /\ extra' = IF reset /\ ok THEN {} ELSE extra
      /\ today' = today
  BY DEF D!Run
<1>2. n \in Nat /\ today \in Int /\ FreePlan \in Nat
  BY DEF D!Terms, DemoTold
<1>3. told'.count = n /\ (told'.ok <=> ok)
  BY <1>1
<1>4. D!Swept.property = D!Empty.property /\ D!Swept.stay = D!Empty.stay /\ D!Swept.keys = db.keys \cap shared
  BY DEF D!Swept, D!Empty
<1>5. \A payer : D!Protected = {} \/ extra = {} => D!ByHand(payer) = {}
  BY DEF D!ByHand, D!Protected
<1>6. ASSUME start.property = D!Empty.property, start.stay = D!Empty.stay, ok \/ extra = {}
      PROVE  /\ ok => /\ \A payer \in Payers : Published(n, payer)
                      /\ Cardinality(D!Listed(properties)) = D!Cardinality(D!PropertyIndices(n))
                      /\ Cardinality(D!Listed(stays)) = D!Cardinality(D!StayIndices(n))
             /\ extra = {} /\ (\A payer \in Payers : Published(n, payer)) => ok
  <2>1. D!Empty.property \in Fitting(Titles, Added)
    <3>1. CASE reset
      <4>1. \A payer \in Payers : D!ByHand(payer) = {}
        BY <1>5, <1>6, <3>1
      <4> QED BY <4>1, EmptyFits DEF Fitting
    <3>2. CASE ~reset
      BY <1>6, <3>2 DEF DemoSafe
    <3> QED BY <3>1, <3>2
  <2>2. properties = D!SeededProperties(D!Empty.property, n) /\ stays = D!SeededStays(D!Empty.stay, n)
    BY <1>6
  <2>3. extra = {} => D!Protected = {} /\ <<"twin">> \notin extra /\ \A payer \in Payers : D!ByHand(payer) = {}
    BY <1>5 DEF D!Protected
  <2> HIDE DEF properties, stays, start
  <2> QED BY <1>2, <2>1, <2>2, <2>3, EmptyRun
<1>7. old'.keys \subseteq shared => start.property = D!Empty.property /\ start.stay = D!Empty.stay
  BY <1>1, <1>4 DEF DemoTold
<1> HIDE DEF properties, stays
<1>8. CASE ~ok
  <2>1. db' = db /\ old' = db /\ extra' = extra
    BY <1>1, <1>8
  <2>2. old'.keys = {} /\ extra' = {} => ~\A payer \in Payers : Published(n, payer)
    BY <1>6, <1>7, <1>8, <2>1
  <2> HIDE DEF ok, start
  <2>3. D!SummaryTrue'
    BY <1>3, <1>8, <2>1, <2>2, PublishedCounts DEF D!SummaryTrue
  <2> QED BY <1>1, <2>1, <2>3 DEF DemoTold
<1>9. CASE ok
  <2>1. /\ db' = [keys |-> start.keys \cup D!Keys(n, today), property |-> properties, stay |-> stays]
        /\ db'.keys = start.keys \cup D!Keys(n, today) /\ db'.property = properties /\ db'.stay = stays
    BY <1>1, <1>9
  <2>2. old'.keys = start.keys
    BY <1>1, <1>9
  <2>3. ~(db'.keys \subseteq shared)
    <3>1. <<"user", 1>> \in db'.keys /\ <<"user", 1>> \notin shared
      BY <2>1 DEF D!Keys, D!UserRows, D!Amenities, D!StayAmenities
    <3> QED BY <3>1
  <2> HIDE DEF ok
  <2>4. ASSUME old'.keys \subseteq shared
        PROVE  /\ \A section \in DOMAIN D!Summary(n) : Cardinality(D!Of(section)') = D!Summary(n)[section]
               /\ Cardinality(D!Listed(db'.property)) = D!Cardinality(D!PropertyIndices(n))
               /\ Cardinality(D!Listed(db'.stay)) = D!Cardinality(D!StayIndices(n))
               /\ \A payer \in Payers : Published(n, payer)
    <3>1. \A section : D!Of(section)' = Section(start.keys \cup D!Keys(n, today), section)
      BY <2>1 DEF D!Of, Section
    <3>2. start.keys \subseteq shared
      BY <2>2, <2>4
    <3> HIDE DEF start, shared
    <3>3. \A section \in DOMAIN D!Summary(n) : Cardinality(D!Of(section)') = D!Summary(n)[section]
      BY <1>2, <3>1, <3>2, SummaryCounts DEF shared
    <3> QED BY <1>6, <1>7, <1>9, <2>1, <2>4, <3>3
  <2>5. old'.keys = {} => old'.keys \subseteq shared
    OBVIOUS
  <2> HIDE DEF start, shared
  <2>6. D!SummaryTrue'
    <3>1. told'.ok /\ told'.count = n
      BY <1>3, <1>9
    <3>2. old'.keys \subseteq shared =>
            /\ \A section \in DOMAIN D!Summary(told'.count) : D!Cardinality(D!Of(section)') = D!Summary(told'.count)[section]
            /\ D!Cardinality(D!Listed(db'.property)) = D!Cardinality(D!PropertyIndices(told'.count))
            /\ D!Cardinality(D!Listed(db'.stay)) = D!Cardinality(D!StayIndices(told'.count))
      BY <2>4, <3>1, DemoCounts
    <3>3. old'.keys = {} => \A payer \in Payers : Published(n, payer)
      BY <2>4, <2>5
    <3> QED BY <3>1, <3>2, <3>3, PublishedCounts DEF D!SummaryTrue, shared
  <2> QED BY <1>1, <2>3, <2>6 DEF DemoTold, shared
<1> QED BY <1>8, <1>9

LEMMA ToldKeeps == ASSUME D!Terms, FreePlan < 4, DemoSafe, DemoTold, [D!Next]_(D!vars) PROVE DemoTold'
<1>1. CASE D!Seed
  BY <1>1, RunTells DEF D!Seed
<1>2. CASE D!Pause \/ D!Publish \/ D!Book \/ D!Repeat \/ D!NextDay
  <2>1. told' = None /\ today' \in Nat
    BY <1>2 DEF D!Pause, D!Publish, D!Book, D!Repeat, D!NextDay, D!Used, DemoTold
  <2>2. \/ UNCHANGED db
        \/ \E t \in DOMAIN db.property : db' = [db EXCEPT !.property[t].live = FALSE] /\ db.property[t] # None
    BY <1>2 DEF D!Pause, D!Publish, D!Book, D!Repeat, D!NextDay, D!Used
  <2>3. ASSUME NEW t \in DOMAIN db.property, db' = [db EXCEPT !.property[t].live = FALSE], db.property[t] # None
        PROVE  db'.keys = db.keys /\ ~(db.keys \subseteq D!Amenities \cup D!StayAmenities)
    <3>1. db'.keys = db.keys
      BY <2>3 DEF DemoSafe
    <3>2. db.property # D!Empty.property
      BY <2>3 DEF D!Empty
    <3> QED BY <3>1, <3>2 DEF DemoTold
  <2> QED BY <2>1, <2>2, <2>3 DEF DemoTold, D!SummaryTrue
<1>3. CASE UNCHANGED D!vars
  BY <1>3 DEF D!vars, DemoTold, D!SummaryTrue, D!Of, D!ByHand
<1> QED BY <1>1, <1>2, <1>3 DEF D!Next

LEMMA ToldStarts == ASSUME D!Init PROVE DemoTold
BY DEF D!Init, DemoTold, D!SummaryTrue

-----------------------------------------------------------------------------
(* The pages of a dashboard.  No two listings are saved at one instant, so *)
(* each has a place in every set by date.                                  *)

Dated == recent \in [N!Advertised -> Nat] /\ \A l, m \in N!Advertised : recent[l] = recent[m] => l = m

\* The places of the listings in a set follow their dates.
LEMMA PlacesRise ==
  ASSUME Dated, NEW some \in SUBSET N!Advertised, NEW l \in some
  PROVE  /\ IsFiniteSet(some) /\ N!Place(some, l) \in 1..Cardinality(some)
         /\ N!Place(some, l) = Cardinality({m \in some : recent[m] <= recent[l]})
         /\ \A m \in some : recent[m] <= recent[l] => N!Place(some, m) <= N!Place(some, l)
<1> DEFINE Newer(m) == {k \in some : recent[k] <= recent[m]}
<1>1. IsFiniteSet(some)
  <2>1. IsFiniteSet(N!Advertised)
    BY Countable, FS_Union DEF N!Advertised
  <2> QED BY <2>1, FS_Subset
<1>2. \A m \in some : N!Place(some, m) = Cardinality(Newer(m))
  BY PageCounts DEF N!Place
<1>3. \A m \in some : IsFiniteSet(Newer(m)) /\ Cardinality(Newer(m)) \in Nat /\ Cardinality(Newer(m)) <= Cardinality(some)
  BY <1>1, FS_Subset, FS_CardinalityType
<1>4. Cardinality(Newer(l)) >= 1
  <2>1. l \in Newer(l)
    BY DEF Dated
  <2> HIDE DEF Newer
  <2> QED BY <1>3, <2>1, FS_EmptySet
<1>5. \A m \in some : recent[m] <= recent[l] => Newer(m) \subseteq Newer(l)
  BY DEF Dated
<1>6. Cardinality(some) \in Nat
  BY <1>1, FS_CardinalityType
<1>7. N!Place(some, l) = Cardinality({m \in some : recent[m] <= recent[l]})
  BY <1>2
<1> HIDE DEF Newer
<1>8. N!Place(some, l) \in 1..Cardinality(some)
  BY <1>2, <1>3, <1>4, <1>6
<1>9. \A m \in some : recent[m] <= recent[l] => N!Place(some, m) <= N!Place(some, l)
  BY <1>2, <1>3, <1>5, FS_Subset
<1> QED BY <1>1, <1>7, <1>8, <1>9

\* A smaller set gives a listing no later place, and the same one if it leaves out no newer listing.
LEMMA PlacesShrink ==
  ASSUME Dated, NEW some \in SUBSET N!Advertised, NEW few \in SUBSET some, NEW l \in few
  PROVE  /\ N!Place(few, l) <= N!Place(some, l)
         /\ (\A m \in some : recent[m] <= recent[l] => m \in few) => N!Place(few, l) = N!Place(some, l)
<1>1. few \in SUBSET N!Advertised /\ l \in some
  OBVIOUS
<1>2. {m \in few : recent[m] <= recent[l]} \subseteq {m \in some : recent[m] <= recent[l]}
  OBVIOUS
<1>3. IsFiniteSet({m \in some : recent[m] <= recent[l]})
  BY <1>1, PlacesRise, FS_Subset
<1>4. Cardinality({m \in few : recent[m] <= recent[l]}) <= Cardinality({m \in some : recent[m] <= recent[l]})
  BY <1>2, <1>3, FS_Subset
<1>5. ASSUME \A m \in some : recent[m] <= recent[l] => m \in few
      PROVE  {m \in few : recent[m] <= recent[l]} = {m \in some : recent[m] <= recent[l]}
  BY <1>5
<1> QED BY <1>1, <1>4, <1>5, PlacesRise

\* The first of both tables, merged, are the first of the whole, at the same places.
LEMMA MergedFirst ==
  ASSUME Dated, NEW base \in SUBSET N!Advertised, NEW window \in Nat
  PROVE  LET merged == N!Top(base \cap Properties, window) \cup N!Top(base \cap Stays, window)
         IN  /\ \A l \in base : N!Place(base, l) <= window =>
                  l \in merged /\ N!Place(merged, l) = N!Place(base, l)
             /\ \A l \in merged : N!Place(merged, l) <= window =>
                  l \in base /\ N!Place(base, l) <= window
<1> DEFINE merged == N!Top(base \cap Properties, window) \cup N!Top(base \cap Stays, window)
<1>1. merged \subseteq base
  BY DEF N!Top
<1>2. ASSUME NEW l \in base, N!Place(base, l) <= window PROVE l \in merged
  <2>1. ASSUME NEW table \in SUBSET N!Advertised, l \in table PROVE l \in N!Top(base \cap table, window)
    <3>1. l \in base \cap table /\ base \cap table \in SUBSET base /\ base \cap table \in SUBSET N!Advertised
      BY <2>1
    <3>2. N!Place(base \cap table, l) <= N!Place(base, l)
      BY <3>1, PlacesShrink
    <3>3. N!Place(base \cap table, l) \in Int /\ N!Place(base, l) \in Int
      <4>1. N!Place(base \cap table, l) \in 1..Cardinality(base \cap table) /\ N!Place(base, l) \in 1..Cardinality(base)
        BY <3>1, PlacesRise
      <4> QED BY <4>1
    <3> QED BY <1>2, <3>1, <3>2, <3>3 DEF N!Top
  <2> QED BY <2>1 DEF N!Advertised
<1>3. ASSUME NEW l \in base, N!Place(base, l) <= window
      PROVE  l \in merged /\ N!Place(merged, l) = N!Place(base, l)
  <2>1. ASSUME NEW m \in base, recent[m] <= recent[l] PROVE m \in merged
    <3>1. N!Place(base, m) <= N!Place(base, l)
      BY <2>1, PlacesRise
    <3>2. N!Place(base, m) \in 1..Cardinality(base) /\ N!Place(base, l) \in 1..Cardinality(base)
      BY PlacesRise
    <3> HIDE DEF merged
    <3> QED BY <1>2, <1>3, <3>1, <3>2
  <2> HIDE DEF merged
  <2> QED BY <1>1, <1>2, <1>3, <2>1, PlacesShrink
<1>4. ASSUME NEW l \in merged, N!Place(merged, l) <= window, ~(N!Place(base, l) <= window) PROVE FALSE
  <2> DEFINE later == {m \in base : ~(N!Place(base, m) <= window)}
             dates == {recent[m] : m \in later}
  <2>1. dates \subseteq Nat /\ dates # {}
    BY <1>1, <1>4 DEF Dated
  <2>2. PICK y \in later : \A m \in later : recent[y] <= recent[m]
    <3>1. PICK d \in dates : \A e \in dates : d <= e
      <4> HIDE DEF dates
      <4> QED BY <2>1, LeastNatural
    <3> QED BY <3>1
  <2> DEFINE newer == {m \in base : recent[m] <= recent[y]} \ {y}
  <2> HIDE DEF merged
  <2>3. l \in base /\ y \in base /\ recent[y] <= recent[l]
    BY <1>1, <1>4, <2>2
  <2>4. IsFiniteSet(newer) /\ Cardinality(newer) \in Nat /\ Cardinality(newer) >= window
    <3>1. IsFiniteSet({m \in base : recent[m] <= recent[y]}) /\ y \in {m \in base : recent[m] <= recent[y]}
      <4>1. recent[y] \in Nat /\ IsFiniteSet(base)
        BY <2>3, PlacesRise DEF Dated
      <4>2. y \in {m \in base : recent[m] <= recent[y]}
        BY <2>3, <4>1
      <4> QED BY <4>1, <4>2, FS_Subset
    <3>2. IsFiniteSet(newer) /\ Cardinality(newer) = Cardinality({m \in base : recent[m] <= recent[y]}) - 1
      BY <3>1, FS_RemoveElement
    <3>3. Cardinality({m \in base : recent[m] <= recent[y]}) \in 1..Cardinality(base)
          /\ ~(Cardinality({m \in base : recent[m] <= recent[y]}) <= window)
      BY <2>2, <2>3, PlacesRise
    <3> HIDE DEF newer
    <3> QED BY <3>2, <3>3
  <2>5. newer \subseteq merged
    <3>1. ASSUME NEW m \in newer PROVE N!Place(base, m) <= window
      <4>1. m \in base /\ ~(recent[y] <= recent[m])
        BY <2>3, <3>1 DEF Dated
      <4> QED BY <2>2, <4>1
    <3> QED BY <1>2, <3>1
  <2>6. l \notin newer /\ newer \cup {l} \subseteq {m \in merged : recent[m] <= recent[l]}
    <3>1. recent[l] \in Nat /\ \A m \in newer : recent[m] \in Nat /\ recent[m] <= recent[y] /\ recent[y] \in Nat
      BY <2>3 DEF Dated
    <3>2. l \notin newer
      BY <2>3 DEF Dated
    <3> HIDE DEF newer
    <3> QED BY <1>4, <2>3, <2>5, <3>1, <3>2
  <2> HIDE DEF newer
  <2>7. Cardinality(newer \cup {l}) = Cardinality(newer) + 1
    BY <2>4, <2>6, FS_AddElement
  <2>8. merged \in SUBSET N!Advertised
    BY <1>1
  <2>9. Cardinality(newer \cup {l}) <= Cardinality({m \in merged : recent[m] <= recent[l]})
    <3>1. IsFiniteSet({m \in merged : recent[m] <= recent[l]})
      BY <1>4, <2>8, PlacesRise, FS_Subset
    <3> QED BY <2>6, <3>1, FS_Subset
  <2>10. N!Place(merged, l) = Cardinality({m \in merged : recent[m] <= recent[l]})
         /\ N!Place(merged, l) \in 1..Cardinality(merged)
    BY <1>4, <2>8, PlacesRise
  <2> QED BY <1>4, <2>4, <2>7, <2>9, <2>10
<1> HIDE DEF merged
<1>5. \A l \in merged : N!Place(merged, l) <= window => l \in base /\ N!Place(base, l) <= window
  BY <1>1, <1>4
<1> QED BY <1>3, <1>5 DEF merged

\* The page of a place: pages are numbered from 1, and the last one may be short.
LEMMA PageOfPlace ==
  ASSUME NEW total \in Nat, NEW size \in Nat \ {0}, NEW place \in 1..total
  PROVE  \E n \in 1..((total + size - 1) \div size) : place \in ((n - 1) * size + 1)..(n * size)
<1> DEFINE n == (place + size - 1) \div size
           last == (total + size - 1) \div size
<1>1. /\ n \in Int /\ size * n <= place + size - 1 /\ place + size - 1 < size * n + size
      /\ last \in Int /\ size * last <= total + size - 1 /\ total + size - 1 < size * last + size
  OBVIOUS
<1> HIDE DEF n, last
<1>2. (n - 1) * size = size * n - size /\ n * size = size * n
  BY <1>1
<1>3. n >= 1
  <2>1. CASE n <= 0
    <3>1. size * n <= 0
      BY <1>1, <2>1
    <3> QED BY <1>1, <3>1
  <2> QED BY <1>1, <2>1
<1>4. n <= last
  <2>1. CASE n >= last + 1
    <3>1. size * n >= size * (last + 1) /\ size * (last + 1) = size * last + size
      BY <1>1, <2>1
    <3> QED BY <1>1, <3>1
  <2> QED BY <1>1, <2>1
<1> QED BY <1>1, <1>2, <1>3, <1>4 DEF last

LEMMA PagesCoverTheContext == ASSUME N!Terms, Dated PROVE N!PagesFollow
<1> SUFFICES ASSUME NEW base \in SUBSET N!Advertised, NEW size \in Nat \ {0}
             PROVE  /\ \A n \in 1..N!Pages(base, size) :
                         N!Page(base, n, size) = {l \in base : N!Place(base, l) \in ((n - 1) * size + 1)..(n * size)}
                    /\ UNION {N!Page(base, n, size) : n \in 1..N!Pages(base, size)} = base
  <2>1. ASSUME NEW u \in People, NEW context \in {"individual", "agency"}, N!Managed(u, context) # None
        PROVE  N!Managed(u, context) \subseteq N!Advertised
    BY <2>1 DEF N!Managed, N!Individual, N!OfAgency
  <2>2. 1..N!Cardinality(N!Advertised) \subseteq Nat \ {0}
    OBVIOUS
  <2> QED BY <2>1, <2>2 DEF N!PagesFollow
<1>1. N!Pages(base, size) = (Cardinality(base) + size - 1) \div size /\ Cardinality(base) \in Nat /\ IsFiniteSet(base)
  <2>1. /\ base = (base \cap Properties) \cup (base \cap Stays)
        /\ (base \cap Properties) \cap (base \cap Stays) = {}
    BY DEF N!Advertised, N!Terms
  <2>2. IsFiniteSet(base \cap Properties) /\ IsFiniteSet(base \cap Stays)
    BY Countable, FS_Subset
  <2>3. Cardinality(base) = Cardinality(base \cap Properties) + Cardinality(base \cap Stays) /\ IsFiniteSet(base)
    <3> DEFINE some == base \cap Properties
               rest == base \cap Stays
    <3> HIDE DEF some, rest
    <3>1. some \cap rest = {} /\ IsFiniteSet(some) /\ IsFiniteSet(rest) /\ base = some \cup rest
      BY <2>1, <2>2 DEF some, rest
    <3>2. IsFiniteSet(base) /\ Cardinality(base) = Cardinality(some) + Cardinality(rest) - Cardinality({})
      BY <3>1, FS_Union
    <3>3. Cardinality(some) \in Nat /\ Cardinality(rest) \in Nat /\ Cardinality({}) = 0
      BY <3>1, FS_EmptySet, FS_CardinalityType
    <3> QED BY <3>2, <3>3 DEF some, rest
  <2> QED BY <2>3, PageCounts, FS_CardinalityType DEF N!Pages, N!Total
<1>2. ASSUME NEW n \in 1..N!Pages(base, size)
      PROVE  N!Page(base, n, size) = {l \in base : N!Place(base, l) \in ((n - 1) * size + 1)..(n * size)}
  <2> DEFINE window == n * size
             merged == N!Top(base \cap Properties, window) \cup N!Top(base \cap Stays, window)
  <2>1. N!Page(base, n, size) = {l \in merged : N!Place(merged, l) \in ((n - 1) * size + 1)..window}
    BY DEF N!Page
  <2>2. window \in Nat
    BY <1>1
  <2>3. /\ \A l \in base : N!Place(base, l) <= window => l \in merged /\ N!Place(merged, l) = N!Place(base, l)
        /\ \A l \in merged : N!Place(merged, l) <= window => l \in base /\ N!Place(base, l) <= window
    BY <2>2, MergedFirst
  <2> HIDE DEF window, merged
  <2>4. \A x, m : x \in m..window => x <= window
    OBVIOUS
  <2> QED BY <2>1, <2>3, <2>4 DEF window
<1>3. ASSUME NEW l \in base PROVE \E n \in 1..N!Pages(base, size) : l \in N!Page(base, n, size)
  <2>1. N!Place(base, l) \in 1..Cardinality(base)
    BY PlacesRise
  <2>2. PICK n \in 1..N!Pages(base, size) : N!Place(base, l) \in ((n - 1) * size + 1)..(n * size)
    BY <1>1, <2>1, PageOfPlace
  <2> QED BY <1>2, <2>2
<1>4. \A n \in 1..N!Pages(base, size) : N!Page(base, n, size) \subseteq base
  BY <1>2
<1> QED BY <1>2, <1>3, <1>4

\* A save puts its listing before the others, whose order stays.
LEMMA SavesDate ==
  ASSUME recent \in N!Orders, NEW l \in N!Advertised, NEW r, N!Save(l, r) PROVE recent' \in N!Orders
<1>1. recent' = [m \in N!Advertised |-> IF m = l THEN 1 ELSE IF recent[m] < recent[l] THEN recent[m] + 1 ELSE recent[m]]
  BY DEF N!Save
<1>2. /\ recent \in [N!Advertised -> 1..N!Cardinality(N!Advertised)] /\ recent[l] \in Nat
      /\ \A k, m \in N!Advertised : recent[k] = recent[m] => k = m
  BY DEF N!Orders
<1>3. N!Cardinality(N!Advertised) \in Nat
  <2>1. IsFiniteSet(N!Advertised)
    BY Countable, FS_Union DEF N!Advertised
  <2> QED BY <2>1, PageCounts, FS_CardinalityType
<1>4. recent' \in [N!Advertised -> 1..N!Cardinality(N!Advertised)]
  BY <1>1, <1>2, <1>3
<1>5. ASSUME NEW k \in N!Advertised, NEW m \in N!Advertised, recent'[k] = recent'[m] PROVE k = m
  <2>1. recent[k] \in Nat /\ recent[m] \in Nat /\ recent[k] >= 1 /\ recent[m] >= 1 /\ recent[l] >= 1
    BY <1>2, <1>3
  <2>2. k = l => m = l
    BY <1>1, <1>2, <1>5, <2>1
  <2>3. m = l => k = l
    BY <1>1, <1>2, <1>5, <2>1
  <2>4. CASE k # l /\ m # l
    <3>1. recent[k] = recent[m]
      BY <1>1, <1>2, <1>5, <2>1, <2>4
    <3> QED BY <1>2, <3>1
  <2> QED BY <2>2, <2>3, <2>4
<1> QED BY <1>4, <1>5 DEF N!Orders

LEMMA OrdersDate == recent \in N!Orders => Dated
<1> SUFFICES ASSUME recent \in N!Orders PROVE Dated
  OBVIOUS
<1>1. N!Cardinality(N!Advertised) \in Nat
  <2>1. IsFiniteSet(N!Advertised)
    BY Countable, FS_Union DEF N!Advertised
  <2> QED BY <2>1, PageCounts, FS_CardinalityType
<1> QED BY <1>1 DEF N!Orders, Dated

LEMMA OrdersKeep == ASSUME recent \in N!Orders, [N!Next]_(N!vars) PROVE recent' \in N!Orders
<1>1. ASSUME NEW l \in N!Advertised, NEW r, N!Save(l, r) PROVE recent' \in N!Orders
  BY <1>1, SavesDate
<1>2. ASSUME NEW l \in N!Advertised, N!Publish(l) \/ N!Highlight(l) \/ \E u \in People : N!Assign(l, u)
      PROVE  recent' \in N!Orders
  BY <1>1, <1>2 DEF N!Publish, N!Highlight, N!Assign
<1>3. ASSUME NEW p \in Properties, N!Confirm(p) PROVE recent' \in N!Orders
  BY <1>1, <1>3 DEF N!Confirm, N!Advertised
<1>4. ASSUME NEW l \in N!Advertised, NEW u \in People, NEW a \in {Agency, None}, N!Transfer(l, u, a)
      PROVE  recent' \in N!Orders
  BY <1>1, <1>4 DEF N!Transfer
<1>5. CASE (\E s \in Stays : N!SetRoom(s)) \/ (\E u \in People : N!Join(u) \/ N!Leave(u)) \/ N!Close
  BY <1>5 DEF N!SetRoom, N!Join, N!Leave, N!Close
<1>6. CASE \/ \E c \in Applicants : N!Keep(c) \/ \E k \in N!Kinds : N!Query(c, k)
           \/ \E k \in N!Kinds : N!Clear(k) \/ N!Forget(k) \/ N!Expire(k)
  BY <1>6 DEF N!Keep, N!Query, N!Clear, N!Forget, N!Expire, N!tables
<1>7. CASE UNCHANGED N!vars
  BY <1>7 DEF N!vars, N!tables
<1> QED BY <1>2, <1>3, <1>4, <1>5, <1>6, <1>7 DEF N!Next
-----------------------------------------------------------------------------
(* What is told in parts, in its scene.                                    *)

ToldInv ==
  /\ scene = "demo" => DemoSafe /\ DemoTold
  /\ scene = "screens" => recent \in N!Orders

\* The pages of a dashboard follow on without gap or repetition, for all listings, dates, filters
\* and page sizes (agencies/views.py), and what a run of seed_demo_data prints is what it made, for
\* every --count, as long as a free plan has fewer than four places; the code's has two
\* (core/management/commands/seed_demo_data.py, stays/models.py).
THEOREM ToldOnce == ASSUME FreePlan < 4 PROVE Spec => []ToldInFull
<1>1. Init => ToldInv
  <2> SUFFICES ASSUME Init PROVE ToldInv
    OBVIOUS
  <2>1. scene = "demo" => DemoSafe /\ DemoTold
    BY Constants, DemoInit, ToldStarts DEF Init
  <2>2. scene = "screens" => recent \in N!Orders
    BY DEF Init, N!Init
  <2> QED BY <2>1, <2>2 DEF ToldInv
<1>2. ToldInv /\ [Next]_vars => ToldInv'
  <2> SUFFICES ASSUME ToldInv, [Next]_vars PROVE ToldInv'
    OBVIOUS
  <2>0. scene' = scene
    BY SceneStays
  <2>1. CASE scene = "demo"
    BY <2>0, <2>1, Constants, SmallSteps, DemoKeeps, ToldKeeps DEF ToldInv
  <2>2. CASE scene = "screens"
    BY <2>0, <2>2, FactSteps, OrdersKeep DEF ToldInv
  <2>3. CASE scene \notin {"demo", "screens"}
    BY <2>0, <2>3 DEF ToldInv
  <2> QED BY <2>1, <2>2, <2>3
<1>3. ToldInv => ToldInFull
  BY Constants, OrdersDate, PagesCoverTheContext DEF ToldInv, ToldInFull, DemoTold
<1> QED BY <1>1, <1>2, <1>3, PTL DEF Spec
-----------------------------------------------------------------------------
(* Types.  What the promises above do not need of the rows and requests.   *)

LinksPlaced ==
  /\ links \subseteq [user: Registrants, email: Addresses]
  /\ resets \subseteq [user: Registrants, email: Addresses, password: Passwords]
  /\ \A c \in Clients : job[c].op = "unverify" => job[c].user \in Registrants /\ job[c].email \in Addresses

LEMMA MailKeeps ==
  ASSUME links \subseteq [user: Registrants, email: Addresses], NEW u \in Registrants, NEW a \in Addresses,
         A!MayMail(u, a)
  PROVE  links' \subseteq [user: Registrants, email: Addresses]
  BY DEF A!MayMail

\* A request that goes on to write something else than a new address.
LEMMA OtherJobs ==
  ASSUME LinksPlaced, NEW c \in Clients, NEW j, j.op # "unverify", job' = [job EXCEPT ![c] = j],
         DOMAIN job = Clients
  PROVE  \A d \in Clients : job'[d].op = "unverify" => job'[d].user \in Registrants /\ job'[d].email \in Addresses
  BY DEF LinksPlaced

LEMMA LinksKeep == ASSUME A!Spelling, AccountsSafe, LinksPlaced, [A!Next]_(A!vars) PROVE LinksPlaced'
<1>0. /\ DOMAIN job = Clients /\ A!Idle.op = "none"
      /\ \A u \in Registrants : A!Exists(u) => user[u].email \in Addresses
      /\ \A u \in Registrants : user[u].password \in Passwords
  BY DEF AccountsSafe, RowsAndJobs, A!Exists, A!Row, A!Idle
<1>1. CASE UNCHANGED A!vars
  BY <1>1 DEF A!vars, LinksPlaced
<1>2. ASSUME NEW c \in Clients, A!Load(c) PROVE LinksPlaced'
  <2>1. UNCHANGED <<links, resets>>
    BY <1>2 DEF A!Load
  <2>2. PICK op, u, a : op \in AccountOps \ {"unverify"} /\ A!Start(c, op, u, a)
    BY <1>2 DEF A!Load, A!LoadRegistration, A!LoadProfile, A!LoadVerification, A!LoadPassword, A!LoadReset,
                A!LoadModeration, AccountOps
  <2> DEFINE j == [op |-> op, user |-> u, email |-> a,
                   seen |-> IF op \in {"profile", "verify"} THEN user[u] ELSE A!Absent]
  <2>3. job' = [job EXCEPT ![c] = j] /\ j.op # "unverify"
    BY <2>2 DEF A!Start
  <2> HIDE DEF j
  <2> QED BY <1>0, <2>1, <2>3, OtherJobs DEF LinksPlaced
<1>3. ASSUME NEW c \in Clients, A!Insert(c) PROVE LinksPlaced'
  <2>1. PICK u \in Registrants : A!MayMail(u, job[c].email)
    BY <1>3 DEF A!Insert
  <2>2. job[c].email \in Addresses
    BY <1>3 DEF A!Insert, AccountsSafe, CheckedLower
  <2>3. links' \subseteq [user: Registrants, email: Addresses]
    BY <2>1, <2>2, MailKeeps DEF LinksPlaced
  <2> QED BY <1>0, <1>3, <2>3, OtherJobs DEF A!Insert, A!Done, LinksPlaced
<1>4. ASSUME NEW c \in Clients, A!SaveProfile(c) PROVE LinksPlaced'
  <2>1. job[c].user \in Registrants /\ job[c].email \in Addresses
    BY <1>4 DEF A!SaveProfile, AccountsSafe, CheckedLower
  <2>2. CASE A!Done(c)
    BY <1>0, <1>4, <2>2, OtherJobs DEF A!SaveProfile, A!Done, LinksPlaced
  <2>3. CASE job' = [job EXCEPT ![c] = [job[c] EXCEPT !.op = "unverify"]]
    <3>1. job'[c].user = job[c].user /\ job'[c].email = job[c].email
      BY <1>0, <2>3 DEF AccountsSafe, RowsAndJobs, AccountJobs
    <3>2. \A d \in Clients \ {c} : job'[d] = job[d]
      BY <1>0, <2>3
    <3> QED BY <1>4, <2>1, <3>1, <3>2 DEF A!SaveProfile, LinksPlaced
  <2> QED BY <1>4, <2>2, <2>3 DEF A!SaveProfile
<1>5. ASSUME NEW c \in Clients, A!Unverify(c) PROVE LinksPlaced'
  <2>1. /\ job[c].user \in Registrants /\ job[c].email \in Addresses
        /\ A!MayMail(job[c].user, job[c].email)
    BY <1>5 DEF A!Unverify, LinksPlaced
  <2>2. links' \subseteq [user: Registrants, email: Addresses]
    BY <2>1, MailKeeps DEF LinksPlaced
  <2> QED BY <1>0, <1>5, <2>2, OtherJobs DEF A!Unverify, A!Done, LinksPlaced
<1>6. ASSUME NEW c \in Clients, A!SaveVerified(c) PROVE LinksPlaced'
  <2>1. [job[c] EXCEPT !.op = "welcome"].op = "welcome"
    BY DEF AccountsSafe, RowsAndJobs, AccountJobs
  <2>2. PICK j : job' = [job EXCEPT ![c] = j] /\ j.op # "unverify"
    BY <1>0, <1>6, <2>1 DEF A!SaveVerified, A!Done
  <2> QED BY <1>0, <1>6, <2>2, OtherJobs DEF A!SaveVerified, LinksPlaced
<1>7. ASSUME NEW c \in Clients, A!Welcome(c) \/ A!SavePassword(c) \/ A!SaveModeration(c) \/ A!GiveUp(c)
      PROVE  LinksPlaced'
  BY <1>0, <1>7, OtherJobs DEF A!Welcome, A!SavePassword, A!SaveModeration, A!GiveUp, A!Done, LinksPlaced
<1>8. CASE A!Resend
  <2>1. PICK u \in Registrants : A!Exists(u) /\ A!MayMail(u, user[u].email)
    BY <1>8 DEF A!Resend
  <2> QED BY <1>0, <1>8, <2>1, MailKeeps DEF A!Resend, LinksPlaced
<1>9. CASE A!AskReset
  <2>1. PICK u \in Registrants :
          /\ A!Exists(u)
          /\ resets' = resets \cup {[user |-> u, email |-> user[u].email, password |-> user[u].password]}
    BY <1>9 DEF A!AskReset
  <2> QED BY <1>0, <1>9, <2>1 DEF A!AskReset, LinksPlaced
<1>10. CASE A!Expire
  BY <1>10 DEF A!Expire, LinksPlaced
<1> QED BY <1>1, <1>2, <1>3, <1>4, <1>5, <1>6, <1>7, <1>8, <1>9, <1>10 DEF A!Next, A!Write

-----------------------------------------------------------------------------
MessageJob == [op: {"none", "talk", "read", "save"}, user: Users \cup {None}, conv: Conversations \cup {None},
               row: M!ConversationRows, at: Nat]
Marks == [Conversations -> [Users -> Nat \cup {Outside}]]
MessagesTyped ==
  /\ published \subseteq Listings
  /\ conv \in [Conversations -> M!ConversationRows]
  /\ mark \in Marks
  /\ job \in [Clients -> MessageJob]

LEMMA NoConversations == M!NoConv \in M!ConversationRows /\ M!GoneConv \in M!ConversationRows /\ M!Idle \in MessageJob
  BY DEF M!NoConv, M!GoneConv, M!Idle, M!ConversationRows, MessageJob

LEMMA ConversationsKeep ==
  ASSUME MessagesPlaced, MessagesTyped, [M!Next]_(M!vars) PROVE MessagesTyped'
<1>0. Len(log) \in Nat
  BY DEF MessagesPlaced
<1>1. CASE UNCHANGED M!vars
  BY <1>1 DEF M!vars, MessagesTyped
<1>2. ASSUME NEW c \in Clients, M!LoadEnquiry(c), M!Load(c) PROVE MessagesTyped'
  <2>1. PICK u \in Users, l \in published, k \in Conversations \cup {None} :
          M!Go(c, [M!Idle EXCEPT !.op = "talk", !.user = u, !.conv = k, !.row = [guest |-> u, listing |-> l]])
    BY Zenon, <1>2 DEF M!LoadEnquiry
  <2>2. l \in Listings
    BY DEF MessagesTyped
  <2>3. [guest |-> u, listing |-> l] \in M!ConversationRows
    BY <2>2 DEF M!ConversationRows
  <2>4. [M!Idle EXCEPT !.op = "talk", !.user = u, !.conv = k, !.row = [guest |-> u, listing |-> l]] \in MessageJob
    BY <2>3 DEF M!Idle, MessageJob
  <2> QED BY <1>2, <2>1, <2>4 DEF M!Load, M!Go, MessagesTyped
<1>3. ASSUME NEW c \in Clients, M!LoadRead(c), M!Load(c) PROVE MessagesTyped'
  <2>1. PICK k \in Conversations, u \in Users :
          M!Go(c, [M!Idle EXCEPT !.op = "read", !.user = u, !.conv = k, !.at = Len(log)])
    BY Zenon, <1>3 DEF M!LoadRead
  <2>2. [M!Idle EXCEPT !.op = "read", !.user = u, !.conv = k, !.at = Len(log)] \in MessageJob
    BY <1>0, NoConversations DEF M!Idle, MessageJob
  <2> QED BY <1>3, <2>1, <2>2 DEF M!Load, M!Go, MessagesTyped
<1>4. ASSUME NEW c \in Clients, M!LoadUpdate(c), M!Load(c) PROVE MessagesTyped'
  <2>1. PICK k \in Conversations, l \in Listings :
          M!Go(c, [M!Idle EXCEPT !.op = "save", !.conv = k, !.row = [conv[k] EXCEPT !.listing = l]])
    BY Zenon, <1>4 DEF M!LoadUpdate
  <2>2. [conv[k] EXCEPT !.listing = l] \in M!ConversationRows
    BY DEF MessagesTyped, M!ConversationRows
  <2>3. [M!Idle EXCEPT !.op = "save", !.conv = k, !.row = [conv[k] EXCEPT !.listing = l]] \in MessageJob
    BY <2>2 DEF M!Idle, MessageJob
  <2> QED BY <1>4, <2>1, <2>3 DEF M!Load, M!Go, MessagesTyped
<1>5. ASSUME NEW c \in Clients, M!Talk(c) PROVE MessagesTyped'
  <2>1. job[c].row \in M!ConversationRows
    BY DEF MessagesTyped, MessageJob
  <2>2. PICK k : conv' = [conv EXCEPT ![k] = job[c].row]
    BY <1>5 DEF M!Talk
  <2>3. conv' \in [Conversations -> M!ConversationRows]
    BY <2>1, <2>2 DEF MessagesTyped
  <2>4. mark' \in Marks
    <3>1. CASE UNCHANGED mark
      BY <3>1 DEF MessagesTyped
    <3>2. ASSUME NEW i \in Conversations, NEW u, NEW v,
                 mark' = [mark EXCEPT ![i] = [mark[i] EXCEPT ![u] = 0, ![v] = 0]]
          PROVE  mark' \in Marks
      <4>1. [mark[i] EXCEPT ![u] = 0] \in [Users -> Nat \cup {Outside}]
        BY DEF MessagesTyped, Marks
      <4>2. [mark[i] EXCEPT ![u] = 0, ![v] = 0] \in [Users -> Nat \cup {Outside}]
        BY <4>1
      <4> QED BY <3>2, <4>2 DEF MessagesTyped, Marks
    <3> QED BY <1>5, <3>1, <3>2 DEF M!Talk
  <2> QED BY <1>5, <2>3, <2>4, NoConversations DEF M!Talk, M!Done, M!Go, MessagesTyped
<1>6. ASSUME NEW c \in Clients, M!Post(c) PROVE MessagesTyped'
  <2>1. PICK k \in Conversations, u \in Users :
          M!Go(c, [M!Idle EXCEPT !.op = "save", !.conv = k, !.row = conv[k]])
    BY Zenon, <1>6 DEF M!Post
  <2>2. [M!Idle EXCEPT !.op = "save", !.conv = k, !.row = conv[k]] \in MessageJob
    BY DEF M!Idle, MessageJob, MessagesTyped
  <2> QED BY <1>6, <2>1, <2>2 DEF M!Post, M!Go, MessagesTyped
<1>7. ASSUME NEW c \in Clients, M!Save(c) PROVE MessagesTyped'
  <2>1. job[c].row \in M!ConversationRows
    BY DEF MessagesTyped, MessageJob
  <2> QED BY <1>7, <2>1, NoConversations DEF M!Save, M!Done, M!Go, MessagesTyped
<1>8. ASSUME NEW c \in Clients, M!MarkRead(c) PROVE MessagesTyped'
  <2> DEFINE k == job[c].conv  u == job[c].user  at == job[c].at
  <2>1. mark' = [mark EXCEPT ![k] = [mark[k] EXCEPT ![u] = at]] /\ at \in Nat
    BY <1>8 DEF M!MarkRead, MessagesTyped, MessageJob
  <2> HIDE DEF k, u, at
  <2>2. mark' \in Marks
    BY <2>1 DEF MessagesTyped, Marks
  <2> QED BY <1>8, <2>2, NoConversations DEF M!MarkRead, M!Done, M!Go, MessagesTyped
<1>9. ASSUME NEW c \in Clients, M!GiveUp(c) PROVE MessagesTyped'
  BY <1>9, NoConversations DEF M!GiveUp, M!Done, M!Go, MessagesTyped
<1>10. ASSUME NEW k \in Conversations, M!Destroy(k) PROVE MessagesTyped'
  BY <1>10, NoConversations DEF M!Destroy, MessagesTyped, Marks
<1>11. CASE M!Announce \/ M!Remove
  BY <1>11 DEF M!Announce, M!Remove, MessagesTyped
<1>12. CASE M!Market
  BY <1>12 DEF M!Market, MessagesTyped
<1> QED BY <1>1, <1>2, <1>3, <1>4, <1>5, <1>6, <1>7, <1>8, <1>9, <1>10, <1>11, <1>12 DEF M!Next, M!Step, M!Load

-----------------------------------------------------------------------------
ViewingJob == [op: {"none", "insert", "change"}, viewing: Viewings \cup {None}, row: W!Rows]
ViewingsTyped == /\ published \subseteq Listings
                 /\ viewing \in [Viewings -> W!Rows]
                 /\ job \in [Clients -> ViewingJob]

LEMMA NoViewing == W!NoRow \in W!Rows /\ W!Idle \in ViewingJob
  BY DEF W!NoRow, W!Idle, W!Rows, ViewingJob

LEMMA ViewingTypesKeep == ASSUME ViewingsTyped, [W!Next]_(W!vars) PROVE ViewingsTyped'
<1>1. CASE UNCHANGED W!vars
  BY <1>1 DEF W!vars, ViewingsTyped
<1>2. ASSUME NEW c \in Clients, W!LoadRequest(c) PROVE ViewingsTyped'
  <2>1. PICK g \in Guests, l \in published, s \in Slots :
          W!Go(c, [op |-> "insert", viewing |-> None,
                   row |-> [status |-> "PENDING", guest |-> g, listing |-> l, slot |-> s]])
    BY <1>2 DEF W!LoadRequest
  <2>2. l \in Listings
    BY DEF ViewingsTyped
  <2>3. [status |-> "PENDING", guest |-> g, listing |-> l, slot |-> s] \in W!Rows
    BY <2>2 DEF W!Rows, W!Statuses, W!Holding
  <2> QED BY <1>2, <2>1, <2>3 DEF W!LoadRequest, W!Go, ViewingsTyped, ViewingJob
<1>3. ASSUME NEW c \in Clients, W!InsertRequest(c) \/ W!Change(c) PROVE ViewingsTyped'
  <2>1. job[c].row \in W!Rows
    BY DEF ViewingsTyped, ViewingJob
  <2>2. UNCHANGED published /\ job' = [job EXCEPT ![c] = W!Idle]
    BY <1>3 DEF W!InsertRequest, W!Change, W!Go
  <2>3. PICK v : viewing' = [viewing EXCEPT ![v] = job[c].row]
    BY <1>3 DEF W!InsertRequest, W!Change
  <2> QED BY <2>1, <2>2, <2>3, NoViewing DEF ViewingsTyped
<1>4. ASSUME NEW c \in Clients, W!LoadChange(c) PROVE ViewingsTyped'
  <2>1. PICK v \in Viewings, s \in W!Statuses \ {"PENDING"} :
          /\ viewing[v] # W!NoRow
          /\ W!Go(c, [op |-> "change", viewing |-> v, row |-> [viewing[v] EXCEPT !.status = s]])
    BY <1>4 DEF W!LoadChange
  <2>2. [viewing[v] EXCEPT !.status = s] \in W!Rows
    BY <2>1 DEF ViewingsTyped, W!Rows
  <2> QED BY <1>4, <2>1, <2>2 DEF W!LoadChange, W!Go, ViewingsTyped, ViewingJob
<1>5. ASSUME NEW c \in Clients, W!GiveUp(c) PROVE ViewingsTyped'
  BY <1>5, NoViewing DEF W!GiveUp, W!Go, ViewingsTyped
<1>6. CASE W!Market
  BY <1>6 DEF W!Market, ViewingsTyped
<1> QED BY <1>1, <1>2, <1>3, <1>4, <1>5, <1>6 DEF W!Next, W!Step

-----------------------------------------------------------------------------
\* A request or a run of the task holds rows that were stored, and has found no more than
\* it may still find.
SearchJob(j) ==
  /\ DOMAIN j = {"op", "rows", "left", "found"}
  /\ DOMAIN j.rows \subseteq Searches /\ j.left \subseteq Listings
  /\ \A s \in DOMAIN j.rows : S!Wanted(j.rows[s])
  /\ j.op # "none" => DOMAIN j.rows # {}
  /\ j.found \in Nat /\ j.found + Cardinality(j.left) <= Cardinality(Listings)
SearchesTyped ==
  /\ day \in 1..MaxDay /\ listed \subseteq Listings
  /\ Indexed(search, Searches)
  /\ \A s \in Searches : S!Exists(s) => S!Wanted(search[s])
  /\ events \subseteq Searches \X Listings
  /\ DOMAIN job = Clients /\ \A w \in Clients : SearchJob(job[w])

LEMMA SearchGoes ==
  ASSUME SearchesTyped, NEW w \in Clients, NEW j, SearchJob(j), S!Go(w, j)
  PROVE  DOMAIN job' = Clients /\ \A v \in Clients : SearchJob(job[v])'
<1>1. job' = [job EXCEPT ![w] = j] /\ DOMAIN job = Clients
  BY DEF S!Go, SearchesTyped
<1>2. ASSUME NEW v \in Clients PROVE job'[v] = IF v = w THEN j ELSE job[v]
  BY <1>1
<1>3. ASSUME NEW i, SearchJob(i) PROVE SearchJob(i)'
  BY <1>3 DEF SearchJob, S!Wanted, S!Row
<1>4. ASSUME NEW v \in Clients, NEW i, i = job'[v] PROVE SearchJob(i)
  BY <1>2, <1>4 DEF SearchesTyped
<1> QED BY <1>1, <1>4 DEF SearchJob, S!Wanted, S!Row

\* A row is written that somebody may want.
LEMMA SearchWritten ==
  ASSUME SearchesTyped, NEW s, NEW r, s \in Searches => S!Wanted(r), search' = [search EXCEPT ![s] = r]
  PROVE  Indexed(search, Searches)' /\ \A x \in Searches : S!Exists(x)' => S!Wanted(search'[x])
<1>1. Indexed(search, Searches)'
  BY DEF SearchesTyped, Indexed
<1>2. \A x \in Searches : search'[x] = IF x = s THEN r ELSE search[x]
  BY DEF SearchesTyped, Indexed
<1> QED BY <1>1, <1>2 DEF SearchesTyped, S!Exists

LEMMA ListingsCounted ==
  /\ Cardinality(Listings) \in Nat /\ Cardinality({}) = 0
  /\ \A some \in SUBSET Listings : /\ Cardinality(some) \in Nat /\ Cardinality(some) <= Cardinality(Listings)
                                   /\ \A l \in some : Cardinality(some \ {l}) = Cardinality(some) - 1
<1>1. IsFiniteSet(Listings)
  BY Countable
<1> QED BY <1>1, FS_Subset, FS_CardinalityType, FS_EmptySet, FS_RemoveElement

LEMMA NoSearchJob == SearchJob(S!Idle)
<1>1. DOMAIN S!Idle = {"op", "rows", "left", "found"} /\ DOMAIN S!Idle.rows = {} /\ S!Idle.left = {}
      /\ S!Idle.found = 0 /\ S!Idle.op = "none"
  BY DEF S!Idle
<1> QED BY <1>1, ListingsCounted DEF SearchJob

\* Once checked, today, a row is as wanted as before.
LEMMA CheckedIsWanted ==
  ASSUME NEW r, S!Wanted(r), day \in 1..MaxDay PROVE S!Wanted([r EXCEPT !.checked = day])
  BY Bounds DEF S!Wanted, S!Row

LEMMA NextSearch ==
  ASSUME SearchesTyped, NEW w \in Clients, job[w].op # "none"
  PROVE  /\ S!Next1(w) \in DOMAIN job[w].rows /\ S!Next1(w) \in Searches
         /\ S!Wanted(job[w].rows[S!Next1(w)])
<1>1. SearchJob(job[w])
  BY DEF SearchesTyped
<1>2. S!Next1(w) \in DOMAIN job[w].rows
  BY <1>1 DEF SearchJob, S!Next1
<1> QED BY <1>1, <1>2 DEF SearchJob

\* The run goes on with the searches that are left, or ends.
LEMMA RestIsJob ==
  ASSUME SearchesTyped, NEW w \in Clients, NEW j,
         S!Go(w, IF DOMAIN S!Rest(w).rows = {} THEN S!Idle ELSE S!Rest(w))
  PROVE  DOMAIN job' = Clients /\ \A v \in Clients : SearchJob(job[v])'
<1>1. SearchJob(job[w])
  BY DEF SearchesTyped
<1> DEFINE rows == [x \in DOMAIN job[w].rows \ {S!Next1(w)} |-> job[w].rows[x]]
<1>2. /\ DOMAIN S!Rest(w) = DOMAIN job[w] /\ S!Rest(w).rows = rows /\ S!Rest(w).left = job[w].left
      /\ S!Rest(w).found = job[w].found
  BY <1>1 DEF S!Rest, SearchJob
<1>3. DOMAIN S!Rest(w).rows # {} => SearchJob(S!Rest(w))
  BY <1>1, <1>2 DEF SearchJob
<1> QED BY <1>3, NoSearchJob, SearchGoes

LEMMA SearchTypesKeep == ASSUME SearchesTyped, [S!Next]_(S!vars) PROVE SearchesTyped'
<1>0. SearchJob(S!Idle) /\ \A w \in Clients : SearchJob(job[w])
  BY NoSearchJob DEF SearchesTyped
<1>1. ASSUME UNCHANGED <<search, job>>, day' \in 1..MaxDay, listed' \subseteq Listings,
             events' \subseteq Searches \X Listings
      PROVE  SearchesTyped'
  BY <1>1 DEF SearchesTyped, SearchJob, Indexed, S!Exists, S!Absent, S!Wanted, S!Row
<1>2. ASSUME UNCHANGED <<day, listed, search, events>>, NEW w \in Clients, NEW j, S!Go(w, j), SearchJob(j)
      PROVE  SearchesTyped'
  <2>1. DOMAIN job' = Clients /\ \A v \in Clients : SearchJob(job[v])'
    BY <1>2, SearchGoes
  <2> QED BY <1>2, <2>1 DEF SearchesTyped, Indexed, S!Exists
<1>3. CASE S!Create
  <2>1. PICK s, r : s \in Searches /\ S!Wanted(r) /\ search' = [search EXCEPT ![s] = r]
    BY <1>3 DEF S!Create
  <2>2. Indexed(search, Searches)' /\ \A x \in Searches : S!Exists(x)' => S!Wanted(search'[x])
    BY <2>1, SearchWritten
  <2> QED BY <1>3, <2>2 DEF S!Create, SearchesTyped, SearchJob, S!Wanted, S!Row
<1>4. CASE S!Delete
  <2>1. PICK s \in Searches : search' = [search EXCEPT ![s] = S!Absent]
    BY <1>4 DEF S!Delete
  <2>2. Indexed(search, Searches)'
    BY <2>1 DEF SearchesTyped, Indexed
  <2>3. \A x \in Searches : search'[x] = IF x = s THEN S!Absent ELSE search[x]
    BY <2>1 DEF SearchesTyped, Indexed
  <2>4. \A x \in Searches : S!Exists(x)' => S!Wanted(search'[x])
    BY <2>3 DEF SearchesTyped, S!Exists
  <2> QED BY <1>4, <2>2, <2>4 DEF S!Delete, SearchesTyped, SearchJob, S!Wanted, S!Row
<1>5. CASE S!Market
  BY <1>1, <1>5 DEF S!Market, SearchesTyped
<1>6. CASE S!Tick
  BY <1>1, <1>6, Bounds DEF S!Tick, SearchesTyped
<1>7. CASE UNCHANGED S!vars
  BY <1>1, <1>7 DEF S!vars, SearchesTyped
<1>8. ASSUME NEW w \in Clients, S!LoadEdit(w) PROVE SearchesTyped'
  <2>1. PICK s, r : s \in Searches /\ S!Wanted(r) /\ S!Go(w, [S!Idle EXCEPT !.op = "edit", !.rows = S!Only(s, r)])
    BY <1>8 DEF S!LoadEdit
  <2> DEFINE j == [S!Idle EXCEPT !.op = "edit", !.rows = S!Only(s, r)]
  <2>2. DOMAIN S!Only(s, r) = {s} /\ S!Only(s, r)[s] = r
    BY DEF S!Only
  <2>3. DOMAIN j = DOMAIN S!Idle /\ j.rows = S!Only(s, r) /\ j.left = S!Idle.left /\ j.found = S!Idle.found
    BY DEF S!Idle
  <2>4. SearchJob(j)
    BY <1>0, <2>1, <2>2, <2>3 DEF SearchJob
  <2> HIDE DEF j
  <2> QED BY <1>2, <1>8, <2>1, <2>4 DEF S!LoadEdit, j
<1>9. ASSUME NEW w \in Clients, S!StartCheck(w) PROVE SearchesTyped'
  <2>1. PICK s \in Searches : S!Exists(s) /\ S!Go(w, [S!Idle EXCEPT !.op = "check", !.rows = S!Only(s, search[s])])
    BY <1>9 DEF S!StartCheck
  <2> DEFINE j == [S!Idle EXCEPT !.op = "check", !.rows = S!Only(s, search[s])]
  <2>2. DOMAIN S!Only(s, search[s]) = {s} /\ S!Only(s, search[s])[s] = search[s]
    BY DEF S!Only
  <2>3. DOMAIN j = DOMAIN S!Idle /\ j.rows = S!Only(s, search[s]) /\ j.left = S!Idle.left /\ j.found = S!Idle.found
    BY DEF S!Idle
  <2>4. SearchJob(j)
    BY <1>0, <2>1, <2>2, <2>3 DEF SearchJob, SearchesTyped
  <2> HIDE DEF j
  <2> QED BY <1>2, <1>9, <2>1, <2>4 DEF S!StartCheck, j
<1>10. ASSUME NEW w \in Clients, S!StartTask(w) PROVE SearchesTyped'
  <2> DEFINE due == {x \in Searches : S!Exists(x) /\ search[x].on /\ search[x].frequency # "OFF" /\ S!Due(search[x])}
             rows == [s \in due |-> search[s]]
             j == [op |-> "due", rows |-> rows, left |-> {}, found |-> 0]
  <2>1. DOMAIN rows # {} /\ S!Go(w, j)
    BY <1>10 DEF S!StartTask
  <2>2. \A s \in DOMAIN rows : s \in Searches /\ S!Wanted(rows[s])
    BY DEF SearchesTyped
  <2> HIDE DEF rows
  <2>3. SearchJob(j)
    BY <2>1, <2>2, ListingsCounted DEF SearchJob
  <2> HIDE DEF j
  <2> QED BY <1>2, <1>10, <2>1, <2>3 DEF S!StartTask
<1>11. ASSUME NEW w \in Clients, S!Evaluate(w) PROVE SearchesTyped'
  <2> DEFINE j == [job[w] EXCEPT !.op = IF @ = "due" THEN "dueItems" ELSE "checkItems",
                                 !.left = S!Matches(job[w].rows[S!Next1(w)]), !.found = 0]
  <2>1. S!Go(w, j) /\ job[w].op # "none"
    BY <1>11 DEF S!Evaluate
  <2>2. /\ DOMAIN j = DOMAIN job[w] /\ j.rows = job[w].rows /\ j.found = 0
        /\ j.left = S!Matches(job[w].rows[S!Next1(w)])
    BY <1>0 DEF SearchJob
  <2>3. j.left \subseteq Listings
    BY <2>2 DEF S!Matches, SearchesTyped
  <2> HIDE DEF j
  <2>4. SearchJob(j)
    BY <1>0, <2>1, <2>2, <2>3, ListingsCounted DEF SearchJob
  <2> QED BY <1>2, <1>11, <2>1, <2>4 DEF S!Evaluate
<1>12. ASSUME NEW w \in Clients, S!Item(w) PROVE SearchesTyped'
  <2> DEFINE s == S!Next1(w)
  <2>1. PICK l \in job[w].left :
          /\ events' = events \cup {<<s, l>>}
          /\ S!Go(w, [job[w] EXCEPT !.left = @ \ {l}, !.found = IF S!IsNew(<<s, l>>) THEN @ + 1 ELSE @])
    BY <1>12 DEF S!Item
  <2>2. s \in Searches /\ l \in Listings /\ UNCHANGED <<day, listed, search>>
    BY <1>0, <1>12, <2>1, NextSearch DEF S!Item, SearchJob
  <2> DEFINE j == [job[w] EXCEPT !.left = @ \ {l}, !.found = IF S!IsNew(<<s, l>>) THEN @ + 1 ELSE @]
  <2>3. /\ DOMAIN j = DOMAIN job[w] /\ j.rows = job[w].rows /\ j.op = job[w].op /\ j.left = job[w].left \ {l}
        /\ j.found = job[w].found \/ j.found = job[w].found + 1
    BY <1>0 DEF SearchJob
  <2>4. S!Go(w, j)
    BY <2>1
  <2> HIDE DEF j
  <2>5. SearchJob(j)
    BY <1>0, <2>1, <2>3, ListingsCounted DEF SearchJob
  <2>6. DOMAIN job' = Clients /\ \A v \in Clients : SearchJob(job[v])'
    BY <2>4, <2>5, SearchGoes
  <2>7. events' \subseteq Searches \X Listings
    BY <2>1, <2>2 DEF SearchesTyped
  <2> QED BY <2>2, <2>6, <2>7 DEF SearchesTyped, Indexed, S!Exists
<1>13. ASSUME NEW w \in Clients, S!Edit(w) \/ S!SaveNotified(w) PROVE SearchesTyped'
  <2>1. job[w].op # "none" /\ UNCHANGED <<day, listed, events>>
    BY <1>13 DEF S!Edit, S!SaveNotified
  <2>2. search' = [search EXCEPT ![S!Next1(w)] = job[w].rows[S!Next1(w)]]
    BY <1>13 DEF S!Edit, S!SaveNotified
  <2>3. Indexed(search, Searches)' /\ \A x \in Searches : S!Exists(x)' => S!Wanted(search'[x])
    BY <2>1, <2>2, NextSearch, SearchWritten
  <2>4. DOMAIN job' = Clients /\ \A v \in Clients : SearchJob(job[v])'
    BY <1>0, <1>13, SearchGoes, RestIsJob DEF S!Edit, S!SaveNotified
  <2> QED BY <2>1, <2>3, <2>4 DEF SearchesTyped
<1>14. ASSUME NEW w \in Clients, S!Checked(w) PROVE SearchesTyped'
  <2> DEFINE s == S!Next1(w)
  <2>1. /\ job[w].op # "none" /\ UNCHANGED <<day, listed, events>> /\ S!Exists(s)
        /\ search' = [search EXCEPT ![s] = [search[s] EXCEPT !.checked = day]]
    BY <1>14 DEF S!Checked
  <2>2. s \in Searches /\ s \in DOMAIN job[w].rows /\ S!Wanted(job[w].rows[s]) /\ S!Wanted(search[s])
    BY <2>1, NextSearch DEF SearchesTyped
  <2>3. S!Wanted([search[s] EXCEPT !.checked = day]) /\ S!Wanted([job[w].rows[s] EXCEPT !.checked = day])
    BY <2>2, CheckedIsWanted DEF SearchesTyped
  <2>4. Indexed(search, Searches)' /\ \A x \in Searches : S!Exists(x)' => S!Wanted(search'[x])
    BY <2>1, <2>3, SearchWritten
  <2> DEFINE j == [job[w] EXCEPT !.op = "notified", !.rows[s].checked = day]
  <2>5. \/ S!Go(w, j)
        \/ S!Go(w, IF DOMAIN S!Rest(w).rows = {} THEN S!Idle ELSE S!Rest(w))
    BY <1>14 DEF S!Checked
  <2>6. SearchJob(j)
    <3>1. /\ DOMAIN j = DOMAIN job[w] /\ j.left = job[w].left /\ j.found = job[w].found
          /\ j.rows = [job[w].rows EXCEPT ![s] = [job[w].rows[s] EXCEPT !.checked = day]]
      BY <1>0 DEF SearchJob
    <3> HIDE DEF j
    <3> DEFINE r == [job[w].rows[s] EXCEPT !.checked = day]
    <3>2. DOMAIN j.rows = DOMAIN job[w].rows
      BY <3>1
    <3>3. S!Wanted(r) /\ j.rows = [job[w].rows EXCEPT ![s] = r]
      BY <2>3, <3>1
    <3> HIDE DEF r
    <3>4. \A x \in DOMAIN j.rows : j.rows[x] = IF x = s THEN r ELSE job[w].rows[x]
      BY <3>3
    <3>5. \A x \in DOMAIN j.rows : S!Wanted(j.rows[x])
      BY <1>0, <3>2, <3>3, <3>4 DEF SearchJob
    <3> QED BY <1>0, <2>2, <3>1, <3>2, <3>5 DEF SearchJob
  <2> HIDE DEF j
  <2>7. DOMAIN job' = Clients /\ \A v \in Clients : SearchJob(job[v])'
    BY <2>5, <2>6, SearchGoes, RestIsJob
  <2> QED BY <2>1, <2>4, <2>7 DEF SearchesTyped
<1>15. ASSUME NEW w \in Clients, S!GiveUp(w) PROVE SearchesTyped'
  BY <1>0, <1>2, <1>15 DEF S!GiveUp
<1> QED BY <1>3, <1>4, <1>5, <1>6, <1>7, <1>8, <1>9, <1>10, <1>11, <1>12, <1>13, <1>14, <1>15 DEF S!Next, S!Step

-----------------------------------------------------------------------------
FavouritesTyped == /\ favourite \in [Favourites -> (Users \X Listings) \cup {None}]
                   /\ job \in [Clients -> (Users \X Listings) \cup {None}]

LEMMA FavouriteTypesKeep == ASSUME FavouritesTyped, [F!Next]_(F!vars) PROVE FavouritesTyped'
<1>1. CASE UNCHANGED F!vars
  BY <1>1 DEF F!vars, FavouritesTyped
<1>2. ASSUME NEW c \in Clients, F!Validate(c) PROVE FavouritesTyped'
  BY <1>2 DEF F!Validate, F!Pair, FavouritesTyped
<1>3. ASSUME NEW c \in Clients, F!Insert(c) \/ F!Refuse(c) PROVE FavouritesTyped'
  BY <1>3 DEF F!Insert, F!Refuse, FavouritesTyped
<1>4. CASE F!Remove
  BY <1>4 DEF F!Remove, FavouritesTyped
<1> QED BY <1>1, <1>2, <1>3, <1>4 DEF F!Next

\* A gallery stays whose it is.
LEMMA GalleryStays == [P!Next]_(P!vars) => UNCHANGED kind
  BY DEF P!Next, P!Step, P!Upload, P!LoadPhoto, P!Change, P!Delete, P!Look, P!Mark, P!GiveUp, P!vars

-----------------------------------------------------------------------------
AnswerTyped == ask # None => answer.total \in Nat /\ answer.rooms \in 0..Quantity

LEMMA AnswersAreNumbers ==
  ASSUME Q!Terms, Calendar, NEW q \in Q!AsksHere
  PROVE  Q!room_availability(q).total \in Nat /\ Q!room_availability(q).rooms \in 0..Quantity
<1> DEFINE days == Q!DaysOf(q)
<1>1. days \in SUBSET Nights /\ q.rooms \in 1..MaxRooms
  BY DEF Q!AsksHere, Q!Asks
<1>2. IsFiniteSet(days)
  BY <1>1, NightsFinite, FS_Subset
<1>3. PICK g : /\ OverNights(g, days)
               /\ Q!room_availability(q).total = g[days].total * q.rooms
               /\ Q!room_availability(q).rooms = g[days].rooms
  BY <1>2, LoopIs
<1>4. PICK h : Adds(h, days, Costs(days))
  BY <1>1, CostsAdd
<1> HIDE DEF days
<1>5. Found(g, h, days)
  BY <1>1, <1>3, <1>4, LoopFinds
<1>6. g[days].total \in Nat /\ g[days].rooms \in Nat /\ g[days].rooms <= Quantity
  BY <1>5 DEF Found
<1>7. q.rooms \in Nat
  BY <1>1
<1> QED BY <1>3, <1>6, <1>7 DEF Q!Terms

LEMMA AnswerKeeps == ASSUME Q!Terms, Calendar, AnswerTyped, [Q!Next]_(Q!vars) PROVE AnswerTyped'
  BY AnswersAreNumbers DEF Q!Next, Q!Ask, Q!vars, AnswerTyped

-----------------------------------------------------------------------------
RunsTyped == /\ today \in 1..MaxRunDay
             /\ told # None => told.count \in Counts /\ told.ok \in BOOLEAN

LEMMA RunTypesKeep == ASSUME RunsTyped, [D!Next]_(D!vars) PROVE RunsTyped'
<1>1. ASSUME NEW n \in Counts, NEW reset \in BOOLEAN, D!Run(n, reset) PROVE RunsTyped'
  <2>1. PICK ok \in BOOLEAN : told' = [count |-> n, ok |-> ok]
    BY Zenon, <1>1 DEF D!Run
  <2> QED BY <1>1, <2>1 DEF D!Run, RunsTyped
<1>2. ASSUME NEW d, NEW x, D!Used(d, x) PROVE RunsTyped'
  BY <1>2 DEF D!Used, RunsTyped
<1>3. CASE D!NextDay
  BY <1>3, Bounds DEF D!NextDay, RunsTyped
<1>4. CASE UNCHANGED D!vars
  BY <1>4 DEF D!vars, RunsTyped
<1> QED BY <1>1, <1>2, <1>3, <1>4 DEF D!Next, D!Seed, D!Pause, D!Publish, D!Book, D!Repeat

-----------------------------------------------------------------------------
Belongs(r) == r.owner \in People /\ r.agency \in {Agency, None} /\ r.agent \in People \cup {None}
ScreensTyped == /\ \A l \in N!Advertised : Belongs(listing[l])
                /\ shifts \in 0..Shift

LEMMA ShiftsShrink == ASSUME shifts \in 0..Shift, shifts > 0, shifts' = shifts - 1 PROVE shifts' \in 0..Shift
  BY Bounds

LEMMA OwnersSave ==
  ASSUME PagesStored, ScreensTyped, NEW l \in N!Advertised, NEW r, N!Save(l, r), Belongs(r), N!Change
  PROVE  ScreensTyped'
<1>1. \A m \in N!Advertised : listing'[m] = IF m = l THEN r ELSE listing[m]
  BY DEF N!Save, PagesStored
<1>2. shifts' \in 0..Shift
  BY ShiftsShrink DEF N!Change, ScreensTyped
<1> QED BY <1>1, <1>2 DEF ScreensTyped, Belongs

LEMMA ScreenTypesKeep == ASSUME PagesStored, ScreensTyped, [N!Next]_(N!vars) PROVE ScreensTyped'
<1>1. CASE UNCHANGED N!vars
  BY <1>1 DEF N!vars, N!tables, ScreensTyped, Belongs, N!Advertised
<1>2. ASSUME NEW l \in N!Advertised, N!Publish(l) \/ N!Highlight(l) PROVE ScreensTyped'
  <2>1. /\ \A date : Belongs([listing[l] EXCEPT !.published = ~@, !.date = date])
        /\ Belongs([listing[l] EXCEPT !.featured = ~@])
        /\ N!Change
    BY <1>2 DEF PagesStored, ScreensTyped, Belongs, N!Publish, N!Highlight
  <2> QED BY <1>2, <2>1, OwnersSave DEF N!Publish, N!Highlight
<1>3. ASSUME NEW p \in Properties, N!Confirm(p) PROVE ScreensTyped'
  <2>1. p \in N!Advertised
    BY DEF N!Advertised
  <2>2. Belongs([listing[p] EXCEPT !.open = ~@]) /\ N!Change
    BY <1>3, <2>1 DEF PagesStored, ScreensTyped, Belongs, N!Confirm
  <2> QED BY <1>3, <2>1, <2>2, OwnersSave DEF N!Confirm
<1>4. ASSUME NEW l \in N!Advertised, NEW u \in People, N!Assign(l, u) PROVE ScreensTyped'
  <2>1. Belongs([listing[l] EXCEPT !.agent = u]) /\ N!Change
    BY <1>4 DEF PagesStored, ScreensTyped, Belongs, N!Assign
  <2> QED BY <1>4, <2>1, OwnersSave DEF N!Assign
<1>5. ASSUME NEW l \in N!Advertised, NEW u \in People, NEW a \in {Agency, None}, N!Transfer(l, u, a)
      PROVE  ScreensTyped'
  <2>1. Belongs([listing[l] EXCEPT !.owner = u, !.agency = a, !.agent = None]) /\ N!Change
    BY <1>5 DEF PagesStored, ScreensTyped, Belongs, N!Transfer
  <2> QED BY <1>5, <2>1, OwnersSave DEF N!Transfer
<1>6. ASSUME NEW s \in Stays, N!SetRoom(s) PROVE ScreensTyped'
  <2>1. s \in N!Advertised /\ shifts' \in 0..Shift
    BY <1>6, ShiftsShrink DEF N!Advertised, N!SetRoom, N!Change, ScreensTyped
  <2>2. listing' = [listing EXCEPT ![s] = [listing[s] EXCEPT !.open = ~listing[s].open]]
    BY <1>6 DEF N!SetRoom
  <2>3. Belongs([listing[s] EXCEPT !.open = ~listing[s].open])
    BY <2>1 DEF PagesStored, ScreensTyped, Belongs
  <2> DEFINE r == [listing[s] EXCEPT !.open = ~listing[s].open]
  <2> HIDE DEF r
  <2>4. Belongs(r) /\ listing' = [listing EXCEPT ![s] = r]
    BY <2>2, <2>3 DEF r
  <2>5. \A m \in N!Advertised : listing'[m] = IF m = s THEN r ELSE listing[m]
    BY <2>4 DEF PagesStored
  <2> QED BY <2>1, <2>4, <2>5 DEF ScreensTyped, Belongs
<1>7. CASE (\E u \in People : N!Join(u) \/ N!Leave(u)) \/ N!Close
  BY <1>7, ShiftsShrink DEF N!Join, N!Leave, N!Close, N!Change, ScreensTyped, Belongs
<1>8. CASE \/ \E c \in Applicants : N!Keep(c) \/ \E k \in N!Kinds : N!Query(c, k)
           \/ \E k \in N!Kinds : N!Clear(k) \/ N!Forget(k) \/ N!Expire(k)
  BY <1>8 DEF N!Keep, N!Query, N!Clear, N!Forget, N!Expire, N!tables, ScreensTyped, Belongs
<1> QED BY <1>1, <1>2, <1>3, <1>4, <1>5, <1>6, <1>7, <1>8 DEF N!Next

-----------------------------------------------------------------------------
\* What is left of the changes that may happen.
LEMMA EditsCount == ASSUME shifts \in 0..Shift, [E!Next]_(E!vars) PROVE shifts' \in 0..Shift
<1>1. \/ UNCHANGED shifts \/ E!Change
  BY DEF E!Next, E!vars, E!ValidateNew, E!ValidateEdit, E!Start, E!Create, E!Edit, E!Refused, E!Write, E!WriteAll,
         E!GiveUp, E!Load, E!Decide, E!Transfer, E!Join, E!Leave
<1> QED BY <1>1, ShiftsShrink DEF E!Change

LEMMA LessIsLeft == ASSUME left \in 0..Lasting, left > 0, left' = left - 1 PROVE left' \in 0..Lasting
  BY Bounds

LEMMA RolesCount == ASSUME left \in 0..Lasting, [R!Next]_(R!vars) PROVE left' \in 0..Lasting
<1>1. \/ UNCHANGED left \/ R!Request
  BY DEF R!Next, R!vars, R!Post, R!Create, R!Patch, R!Rename, R!Read, R!Add, R!Put, R!Remove, R!Grant, R!Stop,
         R!Delete
<1> QED BY <1>1, LessIsLeft DEF R!Request

-----------------------------------------------------------------------------
Reader(n) == n.user \in Users /\ n.as \in {"guest", "host"}
NoticesTyped == /\ thing.owner \in Users /\ thing.guest \in Users
                /\ \A n \in inbox : Reader(n)
                /\ left \in 0..Lasting

LEMMA AnnouncesToReaders ==
  ASSUME NoticesSafe, NoticesTyped, NEW notices, NEW status, L!Announce(notices, status), \A n \in notices : Reader(n)
  PROVE  NoticesTyped'
<1>1. thing'.owner = thing.owner /\ thing'.guest = thing.guest
  BY DEF L!Announce, NoticesSafe
<1>2. \A n \in inbox' : n \in inbox \/ n \in notices
  BY DEF L!Announce
<1>3. left' \in 0..Lasting
  BY LessIsLeft DEF L!Announce, NoticesTyped
<1> QED BY <1>1, <1>2, <1>3 DEF NoticesTyped, Reader

LEMMA NoticesReach ==
  ASSUME NoticesTyped
  PROVE  /\ \A what : \A n \in L!AboutBooking(what) : Reader(n)
         /\ \A what : \A n \in L!AboutViewing(what) : Reader(n)
         /\ \A what : \A n \in L!AboutVerification(what) : Reader(n)
         /\ \A what, status : \A n \in L!AboutProperty(what, status) \cup L!AboutStay(what, status) : Reader(n)
         /\ \A what : \A n \in L!ByStaff(what) \cup L!Reminder(what) : Reader(n)
<1>1. ASSUME NEW type, NEW what, NEW route
      PROVE  /\ Reader(L!Notice(thing.owner, "host", type, what, route))
             /\ Reader(L!Notice(thing.guest, "guest", type, what, route))
  BY DEF NoticesTyped, Reader, L!Notice
<1>2. ASSUME NEW type, NEW what PROVE Reader(L!ToGuest(type, what)) /\ Reader(L!ToHost(type, what))
  BY <1>1 DEF L!ToGuest, L!ToHost, L!Notice, Reader
<1>3. ASSUME NEW what, NEW n \in L!AboutBooking(what) PROVE Reader(n)
  BY Zenon, <1>2, <1>3 DEF L!AboutBooking
<1>4. ASSUME NEW what, NEW n \in L!AboutViewing(what) PROVE Reader(n)
  BY Zenon, <1>1, <1>4 DEF L!AboutViewing
<1>5. ASSUME NEW what, NEW n \in L!AboutVerification(what) PROVE Reader(n)
  BY <1>1, <1>5 DEF L!AboutVerification, L!Notice, Reader, NoticesTyped
<1>6. ASSUME NEW what, NEW status, NEW n \in L!AboutProperty(what, status) \cup L!AboutStay(what, status)
      PROVE  Reader(n)
  BY <1>1, <1>6 DEF L!AboutProperty, L!AboutStay, L!Decided, L!Notice, Reader, NoticesTyped
<1>7. ASSUME NEW what, NEW n \in L!ByStaff(what) \cup L!Reminder(what) PROVE Reader(n)
  BY <1>1, <1>7 DEF L!ByStaff, L!Reminder
<1> QED BY <1>3, <1>4, <1>5, <1>6, <1>7

LEMMA NoticeTypesKeep == ASSUME NoticesSafe, NoticesTyped, [L!Next]_(L!vars) PROVE NoticesTyped'
<1>1. ASSUME NEW what, L!Book(what) \/ L!View(what) \/ L!Review(what) \/ L!Moderate(what)
                       \/ L!listing_action(what) \/ L!Remind(what)
      PROVE  NoticesTyped'
  <2>1. PICK notices, status : L!Announce(notices, status) /\ \A n \in notices : Reader(n)
    BY Zenon, <1>1, NoticesReach DEF L!Book, L!View, L!Review, L!Moderate, L!listing_action, L!Remind
  <2> QED BY <2>1, AnnouncesToReaders
<1>2. CASE L!Submit
  BY <1>2, AnnouncesToReaders DEF L!Submit
<1>3. CASE L!Transfer
  <2>1. PICK u \in Users : thing' = [thing EXCEPT !.owner = u]
    BY <1>3 DEF L!Transfer
  <2>2. thing'.owner = u /\ thing'.guest = thing.guest
    BY <2>1 DEF NoticesSafe
  <2>3. left' \in 0..Lasting
    BY <1>3, LessIsLeft DEF L!Transfer, NoticesTyped
  <2> QED BY <1>3, <2>2, <2>3 DEF L!Transfer, NoticesTyped, Reader
<1>4. CASE UNCHANGED L!vars
  BY <1>4 DEF L!vars, NoticesTyped, Reader
<1> QED BY <1>1, <1>2, <1>3, <1>4 DEF L!Next

-----------------------------------------------------------------------------
TypeInv ==
  /\ scene \in Scenes
  /\ scene = "accounts" => LinksPlaced
  /\ scene = "messaging" => MessagesTyped
  /\ scene = "viewings" => ViewingsTyped
  /\ scene = "searches" => SearchesTyped
  /\ scene = "favourites" => FavouritesTyped
  /\ scene = "photos" => kind \in P!Kinds
  /\ scene = "quotes" => AnswerTyped
  /\ scene = "demo" => RunsTyped
  /\ scene = "screens" => ScreensTyped /\ recent \in N!Orders
  /\ scene = "edits" => shifts \in 0..Shift
  /\ scene = "roles" => left \in 0..Lasting
  /\ scene = "notices" => NoticesTyped

LEMMA TypesStart == Init => TypeInv
<1> SUFFICES ASSUME Init PROVE TypeInv
  OBVIOUS
<1>1. scene = "accounts" => LinksPlaced
  BY DEF Init, A!Init, A!Idle, LinksPlaced
<1>2. scene = "messaging" => MessagesTyped
  BY NoConversations DEF Init, M!Init, MessagesTyped, Marks
<1>3. scene = "viewings" => ViewingsTyped
  BY NoViewing DEF Init, W!Init, ViewingsTyped
<1>4. scene = "searches" => SearchesTyped
  BY Bounds, NoSearchJob DEF Init, S!Init, SearchesTyped, Indexed, S!Exists
<1>5. scene = "favourites" => FavouritesTyped
  BY DEF Init, F!Init, FavouritesTyped
<1>6. scene = "photos" => kind \in P!Kinds
  BY DEF Init, P!Init
<1>7. scene = "quotes" => AnswerTyped
  BY DEF Init, Q!Init, AnswerTyped
<1>8. scene = "demo" => RunsTyped
  BY Bounds DEF Init, D!Init, RunsTyped
<1>9. scene = "screens" => ScreensTyped /\ recent \in N!Orders
  <2>1. SUFFICES ASSUME N!Init PROVE ScreensTyped /\ recent \in N!Orders
    BY DEF Init
  <2>2. PICK u \in People \ Hosts :
          listing = [l \in N!Advertised |-> N!Listed(u, IF l = Newcomer THEN Agency ELSE None, recent[l])]
    BY <2>1 DEF N!Init
  <2>3. \A l \in N!Advertised : Belongs(N!Listed(u, IF l = Newcomer THEN Agency ELSE None, recent[l]))
    BY <2>2 DEF N!Listed, Belongs
  <2>4. shifts \in 0..Shift /\ recent \in N!Orders
    BY <2>1, Bounds DEF N!Init
  <2> QED BY <2>2, <2>3, <2>4 DEF ScreensTyped
<1>10. scene = "edits" => shifts \in 0..Shift
  BY Bounds DEF Init, E!Init
<1>11. scene = "roles" => left \in 0..Lasting
  BY Bounds DEF Init, R!Init
<1>12. scene = "notices" => NoticesTyped
  BY Bounds DEF Init, L!Init, NoticesTyped
<1>13. scene \in Scenes
  BY DEF Init
<1> QED BY <1>1, <1>2, <1>3, <1>4, <1>5, <1>6, <1>7, <1>8, <1>9, <1>10, <1>11, <1>12, <1>13 DEF TypeInv

LEMMA TypesKeep == AccountsInv /\ FactsInv /\ TypeInv /\ [Next]_vars => TypeInv'
<1> SUFFICES ASSUME AccountsInv, FactsInv, TypeInv, [Next]_vars PROVE TypeInv'
  OBVIOUS
<1>0. scene' = scene /\ scene \in Scenes
  BY SceneStays DEF TypeInv
<1>1. CASE scene = "accounts"
  BY <1>0, <1>1, Constants, AccountsSteps, LinksKeep DEF AccountsInv, TypeInv
<1>2. CASE scene = "messaging"
  BY <1>0, <1>2, FactSteps, ConversationsKeep DEF FactsInv, TypeInv
<1>3. CASE scene = "viewings"
  BY <1>0, <1>3, SmallSteps, ViewingTypesKeep DEF TypeInv
<1>4. CASE scene = "searches"
  BY <1>0, <1>4, SmallSteps, SearchTypesKeep DEF TypeInv
<1>5. CASE scene = "favourites"
  BY <1>0, <1>5, SmallSteps, FavouriteTypesKeep DEF TypeInv
<1>6. CASE scene = "photos"
  BY <1>0, <1>6, SmallSteps, GalleryStays DEF TypeInv, P!Kinds
<1>7. CASE scene = "quotes"
  BY <1>0, <1>7, Constants, FactSteps, AnswerKeeps DEF FactsInv, QuotesSafe, TypeInv
<1>8. CASE scene = "demo"
  BY <1>0, <1>8, SmallSteps, RunTypesKeep DEF TypeInv
<1>9. CASE scene = "screens"
  BY <1>0, <1>9, FactSteps, ScreenTypesKeep, OrdersKeep DEF FactsInv, ScreensSafe, TypeInv
<1>10. CASE scene = "edits"
  BY <1>0, <1>10, FactSteps, EditsCount DEF TypeInv
<1>11. CASE scene = "roles"
  BY <1>0, <1>11, FactSteps, RolesCount DEF TypeInv
<1>12. CASE scene = "notices"
  BY <1>0, <1>12, FactSteps, NoticeTypesKeep DEF FactsInv, TypeInv
<1>13. CASE scene \in {"onboarding", "verification", "reports"}
  BY <1>0, <1>13 DEF TypeInv
<1> QED BY <1>0, <1>1, <1>2, <1>3, <1>4, <1>5, <1>6, <1>7, <1>8, <1>9, <1>10, <1>11, <1>12, <1>13 DEF Scenes
-----------------------------------------------------------------------------
LEMMA SearchCounts == ASSUME NEW some PROVE S!Cardinality(some) = Cardinality(some)
  BY DEF S!Cardinality, Cardinality

LEMMA AccountsTyped == ASSUME RowsAndJobs, LinksPlaced PROVE A!TypeOK
  BY DEF RowsAndJobs, LinksPlaced, AccountJobs, AccountOps, A!TypeOK

LEMMA ConversationsTyped == ASSUME MessagesPlaced, MessagesTyped PROVE M!TypeOK
  BY DEF MessagesPlaced, MessagesTyped, Marks, MessageJob, Sent, M!MessageRows, M!TypeOK

LEMMA ReportsMatchedTyped == ASSUME SearchesSafe, SearchesTyped PROVE S!TypeOK
<1>1. announced \in [Searches -> [Listings -> Nat]]
  BY DEF SearchesSafe
<1>2. ASSUME NEW w \in Clients PROVE job[w].found \in 0..S!Cardinality(Listings)
  <2>1. SearchJob(job[w]) /\ job[w].left \subseteq Listings
    BY DEF SearchesTyped, SearchJob
  <2>2. IsFiniteSet(Listings) /\ IsFiniteSet(job[w].left)
    BY <2>1, Countable, FS_Subset
  <2>3. Cardinality(Listings) \in Nat /\ Cardinality(job[w].left) \in Nat
    BY <2>2, FS_CardinalityType
  <2> QED BY <2>1, <2>3, SearchCounts DEF SearchJob
<1> QED BY <1>1, <1>2 DEF SearchesTyped, SearchJob, S!TypeOK

LEMMA GalleryTyped == ASSUME GallerySafe, kind \in P!Kinds PROVE P!TypeOK
  BY DEF GallerySafe, Covered, PhotoJobs, PhotoJob, P!TypeOK

LEMMA QuotesTyped == ASSUME Q!Terms, QuotesSafe, AnswerTyped PROVE Q!TypeOK
  BY DEF QuotesSafe, Calendar, AnswerTyped, Q!Terms, Q!TypeOK

LEMMA DemoTyped == ASSUME DemoSafe, RunsTyped PROVE D!TypeOK
<1>1. ASSUME NEW table \in {db.property, db.stay}, NEW t \in DOMAIN table, table[t] # None
      PROVE  table[t].payer \in {"account", "agency"} \X (0..3) /\ table[t].live \in BOOLEAN
  <2>1. table[t] \in Entry
    BY <1>1 DEF DemoSafe, Fitting
  <2> QED BY <1>1, <2>1 DEF Entry, Payers, D!Row
<1> QED BY <1>1 DEF RunsTyped, D!TypeOK

LEMMA EditsTyped == ASSUME EditsSafe, shifts \in 0..Shift PROVE E!TypeOK
  BY DEF EditsSafe, RowFits, E!TypeOK

LEMMA RolesTyped == ASSUME RolesSafe, left \in 0..Lasting PROVE R!TypeOK
  BY DEF RolesSafe, RolesStored, RoleJobs, R!TypeOK

LEMMA ReportsTyped == ASSUME ReportsSafe, ReportsPlaced PROVE T!TypeOK
<1>1. ASSUME NEW r \in T!Filed
      PROVE  report[r].status \in T!Unsettled \cup T!Finished /\ report[r].reporter \in Guests
  BY DEF ReportsSafe, Accounted, ReportRow, T!Unsettled, T!Finished
<1> QED BY <1>1 DEF ReportsSafe, ReportsPlaced, T!TypeOK

LEMMA InboxTyped == ASSUME NoticesSafe, NoticesTyped PROVE L!TypeOK
  BY DEF NoticesSafe, NoticesTyped, Reader, L!TypeOK

\* Whatever happens in the office, every row, job and counter of a scene stays what its table can
\* hold (the models.py of core, verification, accounts, alerts, messaging, bookings, favourites,
\* properties, stays, agencies, moderation and notifications).
THEOREM Typed == Spec => []TypeOK
<1>1. ASSUME OnboardingInv, VerificationInv, AccountsInv, FactsInv, OnceInv, TypeInv PROVE TypeOK
  <2>1. In("onboarding", O!TypeOK)
    BY <1>1 DEF OnboardingInv, OnboardingSafe, In
  <2>2. In("verification", V!TypeOK)
    BY <1>1 DEF VerificationInv, ReviewsSafe, In
  <2>3. In("accounts", A!TypeOK)
    BY <1>1, AccountsTyped DEF AccountsInv, AccountsSafe, TypeInv, In
  <2>4. In("messaging", M!TypeOK)
    BY <1>1, ConversationsTyped DEF FactsInv, TypeInv, In
  <2>5. In("viewings", W!TypeOK)
    BY <1>1 DEF TypeInv, ViewingsTyped, ViewingJob, W!TypeOK, In
  <2>6. In("searches", S!TypeOK)
    BY <1>1, ReportsMatchedTyped DEF OnceInv, TypeInv, In
  <2>7. In("favourites", F!TypeOK)
    BY <1>1 DEF TypeInv, FavouritesTyped, F!TypeOK, In
  <2>8. In("photos", P!TypeOK)
    BY <1>1, GalleryTyped DEF OnceInv, TypeInv, In
  <2>9. In("quotes", Q!TypeOK)
    BY <1>1, Constants, QuotesTyped DEF FactsInv, TypeInv, In
  <2>10. In("demo", D!TypeOK)
    BY <1>1, DemoTyped DEF OnceInv, TypeInv, In
  <2>11. In("screens", N!TypeOK)
    BY <1>1 DEF TypeInv, ScreensTyped, Belongs, N!TypeOK, In
  <2>12. In("edits", E!TypeOK)
    BY <1>1, EditsTyped DEF FactsInv, TypeInv, In
  <2>13. In("roles", R!TypeOK)
    BY <1>1, RolesTyped DEF FactsInv, TypeInv, In
  <2>14. In("reports", T!TypeOK)
    BY <1>1, ReportsTyped DEF FactsInv, In
  <2>15. In("notices", L!TypeOK)
    BY <1>1, InboxTyped DEF FactsInv, TypeInv, In
  <2>16. scene \in Scenes
    BY <1>1 DEF TypeInv
  <2> QED BY Zenon, <2>1, <2>2, <2>3, <2>4, <2>5, <2>6, <2>7, <2>8, <2>9, <2>10, <2>11, <2>12, <2>13,
             <2>14, <2>15, <2>16 DEF TypeOK
<1>2. Spec => [](AccountsInv /\ FactsInv)
  BY AccountsInvariance, FactsInvariance, PTL
<1>3. Spec => []TypeInv
  BY <1>2, TypesStart, TypesKeep, PTL DEF Spec
<1> QED BY <1>1, <1>2, <1>3, OnboardingInvariance, VerificationInvariance, OnceInvariance, PTL
=============================================================================
