-------------------------- MODULE AdminListsProofs --------------------------
(***************************************************************************)
(* Reading a list page by page misses no row, and a page fits the total it *)
(* comes with: theorems about AdminLists for every set of rows and every   *)
(* page size.                                                              *)
(*                                                                         *)
(* A row that waits to be shown has at least Offset rows ahead of it.  An  *)
(* insertion can only put more rows ahead of it, so no page passes it by.  *)
(* Between the two statements of an answer the total bounds the rows from  *)
(* above until one enters and from below until one leaves.                 *)
(***************************************************************************)
EXTENDS AdminLists, FiniteSetTheorems, TLAPS

-----------------------------------------------------------------------------
(* The place of a row in the list *)

\* The rows shown before x.
Ahead(x) == {y \in Matching : Follows(x, y)}

\* The columns of an ORDER BY end in a unique one: the order is strict.
LEMMA StrictOrder ==
    ASSUME NEW x \in Row, NEW y \in Row
    PROVE  /\ ~Follows(x, x)
           /\ Follows(x, y) => ~Follows(y, x)
  <1>1. /\ x[1] \in Nat /\ x[2] \in Nat /\ y[1] \in Nat /\ y[2] \in Nat
    BY AdminListsAssumption
  <1> QED
    BY <1>1 DEF Follows, Before

LEMMA FiniteRows ==
    /\ IsFiniteSet(Matching) /\ Cardinality(Matching) \in Nat
    /\ \A x \in Row : IsFiniteSet(Ahead(x)) /\ Cardinality(Ahead(x)) \in Nat
  <1>1. Matching \in SUBSET Row /\ \A x \in Row : Ahead(x) \in SUBSET Row
    BY DEF Matching, Ahead
  <1> QED
    BY <1>1, AdminListsAssumption, FS_Subset, FS_CardinalityType

\* A row of the list has fewer rows ahead of it than there are.
LEMMA AheadOfMatching ==
    ASSUME NEW x \in Matching
    PROVE  Cardinality(Ahead(x)) < Cardinality(Matching)
  <1>1. x \in Row /\ x \notin Ahead(x)
    BY StrictOrder DEF Matching, Ahead
  <1>2. Ahead(x) \in SUBSET (Matching \ {x})
    BY <1>1 DEF Ahead
  <1>3. IsFiniteSet(Matching \ {x}) /\ Cardinality(Matching \ {x}) = Cardinality(Matching) - 1
    BY FiniteRows, FS_RemoveElement
  <1>4. Cardinality(Ahead(x)) <= Cardinality(Matching \ {x})
    BY <1>2, <1>3, FS_Subset
  <1> QED
    BY <1>1, <1>3, <1>4, FiniteRows

\* The place of x in the sequence is the number of rows ahead of it, plus one.
LEMMA Place ==
    ASSUME NEW s \in Orders, NEW i \in DOMAIN s
    PROVE  /\ s[i] \in Row
           /\ Cardinality(Ahead(s[i])) = i - 1
  <1> DEFINE n == Cardinality(Matching)
             x == s[i]
             h == [j \in 1..(i - 1) |-> s[j]]
  <1>1. /\ n \in Nat /\ s \in [1..n -> Matching]
        /\ \A j, k \in 1..n : j # k => s[j] # s[k]
        /\ \A j, k \in 1..n : j < k => Follows(s[k], s[j])
    BY FiniteRows DEF Orders, SetToSeqs
  <1>2. i \in 1..n /\ x \in Matching /\ \A j \in 1..n : s[j] \in Row
    BY <1>1 DEF Matching
  <1> HIDE DEF n
  <1>3. ASSUME NEW j \in 1..n PROVE Follows(x, s[j]) <=> j < i
    <2>1. CASE j < i
      BY <1>1, <1>2, <2>1
    <2>2. CASE j = i
      BY <1>2, <2>2, StrictOrder
    <2>3. CASE i < j
      BY <1>1, <1>2, <2>3, StrictOrder
    <2> QED
      BY <1>1, <1>2, <2>1, <2>2, <2>3
  <1>4. h \in [1..(i - 1) -> Ahead(x)]
    BY <1>1, <1>2, <1>3 DEF Ahead
  <1>5. \A j, k \in 1..(i - 1) : h[j] = h[k] => j = k
    BY <1>1, <1>2
  <1>6. \A y \in Matching : \E j \in 1..n : s[j] = y
    <2>1. IsFiniteSet(1..n) /\ Cardinality(1..n) = n
      BY <1>1, FS_Interval
    <2>2. s \in Injection(1..n, Matching)
      BY <1>1 DEF Injection, IsInjective
    <2>3. s \in Surjection(1..n, Matching)
      BY <2>1, <2>2, FiniteRows, FS_Injection DEF n
    <2> QED
      BY <2>3 DEF Surjection
  <1>7. \A y \in Ahead(x) : \E j \in 1..(i - 1) : h[j] = y
    <2> SUFFICES ASSUME NEW y \in Ahead(x) PROVE \E j \in 1..(i - 1) : h[j] = y
      OBVIOUS
    <2>1. PICK j \in 1..n : s[j] = y
      BY <1>6 DEF Ahead
    <2>2. j < i
      BY <1>3, <2>1 DEF Ahead
    <2> QED
      BY <1>1, <1>2, <2>1, <2>2
  <1>8. IsFiniteSet(1..(i - 1)) /\ Cardinality(1..(i - 1)) = i - 1
    BY <1>1, <1>2, FS_Interval
  <1>9. h \in Bijection(1..(i - 1), Ahead(x))
    <2>1. DOMAIN h = 1..(i - 1)
      OBVIOUS
    <2> HIDE DEF h
    <2> QED
      BY <1>4, <1>5, <1>7, <2>1 DEF Bijection, Injection, Surjection, IsInjective
  <1>10. Cardinality(Ahead(x)) = i - 1
    <2> HIDE DEF h
    <2> QED
      BY <1>8, <1>9, FS_Bijection DEF ExistsBijection
  <1> QED
    BY <1>2, <1>10

\* Every row of the list has a place.
LEMMA HasPlace ==
    ASSUME NEW s \in Orders, NEW x \in Matching
    PROVE  \E i \in DOMAIN s : s[i] = x
  <1> DEFINE n == Cardinality(Matching)
  <1>1. n \in Nat /\ s \in [1..n -> Matching] /\ \A j, k \in 1..n : j # k => s[j] # s[k]
    BY FiniteRows DEF Orders, SetToSeqs
  <1> HIDE DEF n
  <1>2. IsFiniteSet(1..n) /\ Cardinality(1..n) = n
    BY <1>1, FS_Interval
  <1>3. s \in Injection(1..n, Matching)
    BY <1>1 DEF Injection, IsInjective
  <1>4. s \in Surjection(1..n, Matching)
    BY <1>2, <1>3, FiniteRows, FS_Injection DEF n
  <1> QED
    BY <1>1, <1>4 DEF Surjection

\* A page ends at the last row or after Limit rows, whichever comes first.
LEMMA PageEnd ==
    ASSUME NEW n \in Nat, Offset \in Nat
    PROVE  LET m == Min({Offset + Limit, n})
           IN  m \in Nat /\ m <= n /\ m <= Offset + Limit /\ (m = n \/ m = Offset + Limit)
  <1>1. Offset + Limit \in Nat
    BY AdminListsAssumption
  <1>2. CASE n <= Offset + Limit
    <2>1. Min({Offset + Limit, n}) = n
      BY <1>1, <1>2 DEF Min
    <2> QED
      BY <1>1, <1>2, <2>1
  <1>3. CASE ~(n <= Offset + Limit)
    <2>1. Min({Offset + Limit, n}) = Offset + Limit
      BY <1>1, <1>3 DEF Min
    <2> QED
      BY <1>1, <1>3, <2>1
  <1> QED
    BY <1>2, <1>3

\* The page shows the rows whose place it covers, and only rows of the list.
LEMMA PageShows ==
    ASSUME NEW s \in Orders, Offset \in Nat
    PROVE  /\ ToSet(PageOf(s)) \subseteq Matching
           /\ \A x \in Matching :
                 /\ Cardinality(Ahead(x)) >= Offset
                 /\ Cardinality(Ahead(x)) < Offset + Limit
                 => x \in ToSet(PageOf(s))
  <1> DEFINE n == Cardinality(Matching)
             m == Min({Offset + Limit, Len(s)})
  <1>1. n \in Nat /\ s \in [1..n -> Matching] /\ s \in Seq(Matching) /\ Len(s) = n
    BY FiniteRows DEF Orders, SetToSeqs
  <1> HIDE DEF n
  <1>2. Offset + Limit \in Nat
    BY AdminListsAssumption
  <1>3. m \in Nat /\ m <= n /\ m <= Offset + Limit /\ (m = n \/ m = Offset + Limit)
    BY <1>1, PageEnd
  <1> HIDE DEF m
  <1>4. PageOf(s) = SubSeq(s, Offset + 1, m)
    BY DEF PageOf, m
  <1>5. /\ DOMAIN PageOf(s) = 1..(IF Offset + 1 <= m THEN m - Offset ELSE 0)
        /\ \A j \in 1..(m - Offset) : PageOf(s)[j] = s[Offset + j]
    BY <1>1, <1>3, <1>4
  <1>6. ToSet(PageOf(s)) \subseteq Matching
    BY <1>1, <1>3, <1>5 DEF ToSet
  <1>7. ASSUME NEW x \in Matching, Cardinality(Ahead(x)) >= Offset,
               Cardinality(Ahead(x)) < Offset + Limit
        PROVE  x \in ToSet(PageOf(s))
    <2>1. PICK i \in DOMAIN s : s[i] = x
      BY HasPlace
    <2>2. Cardinality(Ahead(x)) = i - 1 /\ i \in 1..n
      BY <1>1, <2>1, Place
    <2>3. i >= Offset + 1 /\ i <= m
      BY <1>1, <1>2, <1>3, <1>7, <2>2
    <2>4. i - Offset \in 1..(m - Offset) /\ Offset + (i - Offset) = i
      BY <1>3, <2>2, <2>3
    <2>5. PageOf(s)[i - Offset] = s[Offset + (i - Offset)]
      BY <1>5, <2>4
    <2>6. PageOf(s)[i - Offset] = x
      BY <2>1, <2>4, <2>5
    <2>7. i - Offset \in DOMAIN PageOf(s)
      <3>1. Offset + 1 <= m
        BY <1>3, <2>2, <2>3
      <3> QED
        BY <1>5, <2>4, <3>1
    <2> QED
      BY <2>6, <2>7 DEF ToSet
  <1> QED
    BY <1>6, <1>7

\* The page holds the rows after Offset, at most Limit of them.
LEMMA PageLength ==
    ASSUME NEW s \in Orders, Offset \in Nat
    PROVE  /\ Len(PageOf(s)) \in Nat
           /\ PageOf(s) = <<>> \/ Offset + Len(PageOf(s)) <= Cardinality(Matching)
           /\ Len(PageOf(s)) = Limit \/ Offset + Len(PageOf(s)) >= Cardinality(Matching)
  <1> DEFINE n == Cardinality(Matching)
             m == Min({Offset + Limit, Len(s)})
  <1>1. n \in Nat /\ s \in Seq(Matching) /\ Len(s) = n
    BY FiniteRows DEF Orders, SetToSeqs
  <1> HIDE DEF n
  <1>2. Offset + Limit \in Nat /\ Limit \in Nat
    BY AdminListsAssumption
  <1>3. m \in Nat /\ m <= n /\ m <= Offset + Limit /\ (m = n \/ m = Offset + Limit)
    BY <1>1, PageEnd
  <1> HIDE DEF m
  <1>4. PageOf(s) = SubSeq(s, Offset + 1, m)
    BY DEF PageOf, m
  <1>5. /\ Len(PageOf(s)) = (IF Offset + 1 <= m THEN m - Offset ELSE 0)
        /\ Offset + 1 > m => PageOf(s) = <<>>
    <2>1. SubSeq(s, Offset + 1, m) \in Seq(Matching)
      BY <1>1, <1>3
    <2>2. Len(SubSeq(s, Offset + 1, m)) = (IF Offset + 1 <= m THEN m - Offset ELSE 0)
      BY <1>1, <1>3
    <2>3. Offset + 1 > m => ~(Offset + 1 <= m)
      BY <1>3
    <2> QED
      BY <1>4, <2>1, <2>2, <2>3
  <1>6. CASE Offset + 1 <= m
    BY <1>1, <1>2, <1>3, <1>5, <1>6 DEF n
  <1>7. CASE Offset + 1 > m
    BY <1>1, <1>2, <1>3, <1>5, <1>7 DEF n
  <1> QED
    BY <1>3, <1>6, <1>7

-----------------------------------------------------------------------------
(* The inductive invariant *)

\* Rows ahead of one that the screen has not shown: those of the pages asked for.
Passed == IF stage \in {"shown", "done"} THEN Offset + Limit ELSE Offset

Types ==
    /\ stage \in {"idle", "count", "page", "shown", "done"}
    /\ page \in Nat /\ (stage # "idle" => page > 0)
    /\ total \in Nat /\ row \in [Row -> {"none", "open", "in", "out", "gone"}]
    /\ left \in BOOLEAN /\ entered \in BOOLEAN /\ lost \in BOOLEAN

\* A row the walk owes the screen is shown, or still ahead.
NonePassedBy ==
    stage # "idle" /\ ~left =>
        \A x \in old : /\ x \in Matching
                       /\ x \in seen \/ Cardinality(Ahead(x)) >= Passed

\* The total counts at least the rows there are until one enters, and at most
\* those until one leaves.
TotalOK ==
    stage = "page" =>
        /\ entered \/ Cardinality(Matching) <= total
        /\ lost \/ Cardinality(Matching) >= total

\* What the last page owes.
LastPageOK ==
    /\ stage = "done" => Offset + Limit >= total
    /\ stage \in {"shown", "done"} /\ ~left /\ ~entered /\ Offset + Limit >= total =>
          old \subseteq seen

ListsInv == Types /\ NonePassedBy /\ TotalOK /\ LastPageOK /\ PageFitsTotal

LEMMA OffsetType ==
    ASSUME Types, stage # "idle"
    PROVE  Offset \in Nat /\ Offset + Limit \in Nat
  <1>1. page - 1 \in Nat /\ Limit \in Nat
    BY AdminListsAssumption DEF Types
  <1> QED
    BY <1>1 DEF Offset

LEMMA ListsInit == Init => ListsInv
  <1> SUFFICES ASSUME Init PROVE ListsInv
    OBVIOUS
  <1>1. /\ stage = "idle" /\ page = 0 /\ total = 0 /\ row \in [Row -> {"none", "in"}]
        /\ left = FALSE /\ entered = FALSE /\ lost = FALSE
    BY DEF Init
  <1>2. Types
    BY <1>1 DEF Types
  <1>3. NonePassedBy /\ TotalOK /\ LastPageOK /\ PageFitsTotal
    BY <1>1 DEF NonePassedBy, TotalOK, LastPageOK, PageFitsTotal
  <1> QED
    BY <1>2, <1>3 DEF ListsInv

-----------------------------------------------------------------------------
(* Steps *)

\* A writer: as long as nothing leaves, nothing comes nearer.
LEMMA SetRowStep ==
    ASSUME ListsInv, NEW x \in Row, NEW state \in {"open", "in", "out", "gone"},
           SetRow(x, state)
    PROVE  ListsInv'
  <1>1. /\ row' = [row EXCEPT ![x] = state]
        /\ left' = (left \/ (row[x] = "in" /\ state # "in"))
        /\ entered' = (entered \/ (stage = "page" /\ state = "in"))
        /\ lost' = (lost \/ (stage = "page" /\ row[x] = "in" /\ state # "in"))
        /\ list' = list /\ stage' = stage /\ page' = page /\ total' = total
        /\ seen' = seen /\ old' = old /\ items' = items
    BY DEF SetRow, screen
  <1>2. Types'
    BY <1>1 DEF ListsInv, Types
  <1>3. ASSUME ~left'
        PROVE  /\ ~left /\ Matching \subseteq Matching'
               /\ \A z \in Row : Cardinality(Ahead(z)) <= Cardinality(Ahead(z)')
    <2>1. ~left /\ ~(row[x] = "in" /\ state # "in")
      BY <1>1, <1>3
    <2>2. Matching \subseteq Matching'
      BY <1>1, <2>1 DEF Matching, ListsInv, Types
    <2>3. ASSUME NEW z \in Row PROVE Cardinality(Ahead(z)) <= Cardinality(Ahead(z)')
      <3>1. Ahead(z) \in SUBSET (Ahead(z)')
        BY <1>1, <2>2 DEF Ahead, Follows
      <3>2. Ahead(z)' \in SUBSET Row
        BY DEF Ahead, Matching
      <3>3. IsFiniteSet(Ahead(z)')
        BY <3>2, AdminListsAssumption, FS_Subset
      <3> QED
        BY <3>1, <3>3, FS_Subset
    <2> QED
      BY <2>1, <2>2, <2>3
  <1>4. Offset' = Offset /\ Passed' = Passed
    BY <1>1 DEF Offset, Passed
  <1>5. NonePassedBy'
    <2> SUFFICES ASSUME stage # "idle", ~left', NEW z \in old
                 PROVE  z \in Matching' /\ (z \in seen \/ Cardinality(Ahead(z)') >= Passed)
      BY <1>1, <1>4 DEF NonePassedBy
    <2>1. z \in Matching /\ z \in Row /\ (z \in seen \/ Cardinality(Ahead(z)) >= Passed)
      BY <1>3 DEF ListsInv, NonePassedBy, Matching
    <2>2. Cardinality(Ahead(z)) \in Nat /\ Cardinality(Ahead(z)') \in Nat /\ Passed \in Nat
      <3>1. Ahead(z)' \in SUBSET Row
        BY DEF Ahead, Matching
      <3>2. Cardinality(Ahead(z)') \in Nat
        BY <3>1, AdminListsAssumption, FS_Subset, FS_CardinalityType
      <3> QED
        BY <2>1, <3>2, FiniteRows, OffsetType DEF Passed, ListsInv
    <2> QED
      BY <1>3, <2>1, <2>2
  <1>6. TotalOK'
    <2> SUFFICES ASSUME stage = "page"
                 PROVE  /\ entered' \/ Cardinality(Matching') <= total
                        /\ lost' \/ Cardinality(Matching') >= total
      BY <1>1 DEF TotalOK
    <2>1. /\ IsFiniteSet(Matching') /\ Cardinality(Matching') \in Nat
          /\ Cardinality(Matching) \in Nat /\ total \in Nat
      <3>1. Matching' \in SUBSET Row
        BY DEF Matching
      <3> QED
        BY <3>1, AdminListsAssumption, FS_Subset, FS_CardinalityType, FiniteRows
           DEF ListsInv, Types
    <2>2. /\ entered \/ Cardinality(Matching) <= total
          /\ lost \/ Cardinality(Matching) >= total
      BY DEF ListsInv, TotalOK
    <2>3. ASSUME ~entered' PROVE Cardinality(Matching') <= total
      <3>1. ~entered /\ state # "in"
        BY <1>1, <2>3
      <3>2. Matching' \in SUBSET Matching
        BY <1>1, <3>1 DEF Matching, ListsInv, Types
      <3>3. Cardinality(Matching') <= Cardinality(Matching)
        BY <3>2, FiniteRows, FS_Subset
      <3> QED
        BY <2>1, <2>2, <3>1, <3>3
    <2>4. ASSUME ~lost' PROVE Cardinality(Matching') >= total
      <3>1. ~lost /\ ~(row[x] = "in" /\ state # "in")
        BY <1>1, <2>4
      <3>2. Matching \in SUBSET (Matching')
        BY <1>1, <3>1 DEF Matching, ListsInv, Types
      <3>3. Cardinality(Matching) <= Cardinality(Matching')
        BY <2>1, <3>2, FS_Subset
      <3> QED
        BY <2>1, <2>2, <3>1, <3>3
    <2> QED
      BY <2>3, <2>4
  <1>7. LastPageOK'
    BY <1>1, <1>4, <1>3 DEF ListsInv, LastPageOK
  <1>8. PageFitsTotal'
    BY <1>1, <1>4 DEF ListsInv, PageFitsTotal
  <1> QED
    BY <1>2, <1>5, <1>6, <1>7, <1>8 DEF ListsInv

LEMMA WriterStep ==
    ASSUME ListsInv, NEW x \in Row, Begin(x) \/ Commit(x) \/ Rollback(x) \/ Update(x)
    PROVE  ListsInv'
  <1>1. CASE Begin(x)
    BY <1>1, SetRowStep DEF Begin
  <1>2. CASE Commit(x)
    <2>1. PICK state \in Fresh : SetRow(x, state)
      BY <1>2 DEF Commit
    <2>2. state \in {"in", "out"}
      BY <2>1 DEF Fresh
    <2> QED
      BY <2>1, <2>2, SetRowStep
  <1>3. CASE Rollback(x)
    BY <1>3, SetRowStep DEF Rollback
  <1>4. CASE Update(x)
    BY <1>4, SetRowStep DEF Update
  <1> QED
    BY <1>1, <1>2, <1>3, <1>4

\* The screen asks for its first page: it owes every row of the list.
LEMMA AskFirstStep == ASSUME ListsInv, AskFirst PROVE ListsInv'
  <1>1. /\ stage' = "count" /\ page' = 1 /\ seen' = {} /\ old' = Matching
        /\ left' = FALSE
        /\ list' = list /\ row' = row /\ total' = total
        /\ entered' = entered /\ lost' = lost
    <2>1. ~(1 > 1)
      OBVIOUS
    <2> QED
      BY <2>1 DEF AskFirst, Ask, marks
  <1>2. Types'
    <2>1. page' \in Nat /\ page' > 0 /\ stage' \in {"idle", "count", "page", "shown", "done"}
      BY <1>1
    <2>2. left' \in BOOLEAN /\ entered' \in BOOLEAN /\ lost' \in BOOLEAN
      BY <1>1 DEF ListsInv, Types
    <2>3. total' \in Nat /\ row' \in [Row -> {"none", "open", "in", "out", "gone"}]
      BY <1>1 DEF ListsInv, Types
    <2> QED
      BY <2>1, <2>2, <2>3 DEF Types
  <1>3. Passed' = 0
    <2>1. Limit \in Nat
      BY AdminListsAssumption
    <2> QED
      BY <1>1, <2>1 DEF Passed, Offset
  <1>4. NonePassedBy'
    <2> SUFFICES ASSUME NEW z \in Matching
                 PROVE  z \in Matching' /\ Cardinality(Ahead(z)') >= 0
      BY <1>1, <1>3 DEF NonePassedBy
    <2>1. z \in Matching' /\ z \in Row /\ Ahead(z)' = Ahead(z)
      BY <1>1 DEF Ahead, Matching, Follows
    <2> QED
      BY <2>1, FiniteRows
  <1>5. TotalOK' /\ LastPageOK' /\ PageFitsTotal'
    BY <1>1 DEF TotalOK, LastPageOK, PageFitsTotal
  <1> QED
    BY <1>2, <1>4, <1>5 DEF ListsInv

\* The screen asks for the next page: it starts where the last one ended.
LEMMA AskNextStep == ASSUME ListsInv, AskNext PROVE ListsInv'
  <1>1. page \in Nat /\ page > 0 /\ stage = "shown"
    BY DEF AskNext, ListsInv, Types
  <1>2. /\ stage' = "count" /\ page' = page + 1 /\ seen' = seen /\ old' = old
        /\ left' = (left /\ page + 1 > 1)
        /\ list' = list /\ row' = row /\ total' = total
        /\ entered' = entered /\ lost' = lost
    BY <1>1 DEF AskNext, Ask, marks
  <1>3. left' = left /\ Types'
    BY <1>1, <1>2 DEF ListsInv, Types
  <1>4. Passed' = Passed
    <2>1. (page + 1 - 1) * Limit = (page - 1) * Limit + Limit
      <3>1. Limit \in Nat /\ page \in Nat
        BY <1>1, AdminListsAssumption
      <3> QED
        BY <3>1
    <2> QED
      BY <1>1, <1>2, <2>1 DEF Passed, Offset
  <1>5. NonePassedBy'
    <2> SUFFICES ASSUME ~left, NEW z \in old
                 PROVE  z \in Matching' /\ (z \in seen \/ Cardinality(Ahead(z)') >= Passed)
      BY <1>2, <1>3, <1>4 DEF NonePassedBy
    <2>1. z \in Matching /\ (z \in seen \/ Cardinality(Ahead(z)) >= Passed)
      BY <1>1 DEF ListsInv, NonePassedBy
    <2>2. Matching' = Matching /\ Ahead(z)' = Ahead(z)
      BY <1>2 DEF Ahead, Matching, Follows
    <2> QED
      BY <2>1, <2>2
  <1>6. TotalOK' /\ LastPageOK' /\ PageFitsTotal'
    BY <1>2 DEF TotalOK, LastPageOK, PageFitsTotal
  <1> QED
    BY <1>3, <1>5, <1>6 DEF ListsInv

\* A step that changes neither rows nor marks keeps what the walk owes, unless
\* it moves on past a page.
LEMMA SameRows ==
    ASSUME NonePassedBy, stage # "idle", UNCHANGED <<list, row, seen, old, left>>,
           Passed' = Passed
    PROVE  NonePassedBy' /\ Matching' = Matching
  <1>1. Matching' = Matching /\ \A z \in Row : Ahead(z)' = Ahead(z)
    BY DEF Ahead, Matching, Follows
  <1> SUFFICES ASSUME ~left, NEW z \in old
               PROVE  z \in Matching /\ (z \in seen \/ Cardinality(Ahead(z)') >= Passed)
    BY <1>1 DEF NonePassedBy
  <1>2. z \in Matching /\ z \in Row /\ (z \in seen \/ Cardinality(Ahead(z)) >= Passed)
    BY DEF NonePassedBy, Matching
  <1> QED
    BY <1>1, <1>2

LEMMA StopStep == ASSUME ListsInv, StopAsking PROVE ListsInv'
  <1>1. /\ stage = "shown" /\ stage' = "done" /\ Offset + Limit >= total
        /\ UNCHANGED <<list, row, page, total, seen, old, left, entered, lost>>
    BY DEF StopAsking, marks
  <1>2. Offset' = Offset /\ Passed' = Passed
    BY <1>1 DEF Offset, Passed
  <1>3. Types' /\ TotalOK' /\ LastPageOK' /\ PageFitsTotal'
    BY <1>1, <1>2 DEF ListsInv, Types, TotalOK, LastPageOK, PageFitsTotal
  <1>4. NonePassedBy'
    BY <1>1, <1>2, SameRows DEF ListsInv
  <1> QED
    BY <1>3, <1>4 DEF ListsInv

LEMMA CountStep == ASSUME ListsInv, Count PROVE ListsInv'
  <1>1. /\ stage = "count" /\ stage' = "page" /\ total' = Cardinality(Matching)
        /\ entered' = FALSE /\ lost' = FALSE
        /\ UNCHANGED <<list, row, page, seen, old, left>>
    BY DEF Count, Counted
  <1>2. Passed' = Passed
    BY <1>1 DEF Offset, Passed
  <1>3. NonePassedBy' /\ Matching' = Matching
    BY <1>1, <1>2, SameRows DEF ListsInv
  <1>4. Types'
    BY <1>1, FiniteRows DEF ListsInv, Types
  <1>5. TotalOK' /\ LastPageOK' /\ PageFitsTotal'
    BY <1>1, <1>3, FiniteRows DEF TotalOK, LastPageOK, PageFitsTotal
  <1> QED
    BY <1>3, <1>4, <1>5 DEF ListsInv

LEMMA FailStep == ASSUME ListsInv, Fail PROVE ListsInv'
  <1>1. /\ stage = "page" /\ stage' = "count"
        /\ UNCHANGED <<list, row, page, total, seen, old, left, entered, lost>>
    BY DEF Fail, marks
  <1>2. Passed' = Passed
    BY <1>1 DEF Offset, Passed
  <1>3. Types' /\ TotalOK' /\ LastPageOK' /\ PageFitsTotal'
    BY <1>1 DEF ListsInv, Types, TotalOK, LastPageOK, PageFitsTotal
  <1>4. NonePassedBy'
    BY <1>1, <1>2, SameRows DEF ListsInv
  <1> QED
    BY <1>3, <1>4 DEF ListsInv

\* A page is shown: rows it leaves out are past its end, and past the end of
\* the last page there are none.
LEMMA PageStep == ASSUME ListsInv, Page PROVE ListsInv'
  <1>1. /\ stage = "page" /\ stage' = "shown" /\ seen' = seen \cup ToSet(items')
        /\ UNCHANGED <<list, row, page, total, old, left, entered, lost>>
    BY DEF Page, marks
  <1>2. PICK s \in Orders : items' = PageOf(s)
    BY DEF Page
  <1>3. /\ Types /\ Offset \in Nat /\ Limit \in Nat /\ Offset + Limit \in Nat
        /\ Passed = Offset /\ Passed' = Offset + Limit /\ Offset' = Offset
    BY <1>1, OffsetType, AdminListsAssumption DEF ListsInv, Passed, Offset
  <1>4. Matching' = Matching /\ \A z \in Row : Ahead(z)' = Ahead(z)
    BY <1>1 DEF Ahead, Matching, Follows
  <1>5. ASSUME ~left, NEW z \in old
        PROVE  /\ z \in Matching /\ z \in Row
               /\ z \in seen' \/ Cardinality(Ahead(z)) >= Offset + Limit
    <2>1. z \in Matching /\ z \in Row /\ (z \in seen \/ Cardinality(Ahead(z)) >= Offset)
      BY <1>1, <1>3, <1>5 DEF ListsInv, NonePassedBy, Matching
    <2>2. Cardinality(Ahead(z)) \in Nat
      BY <2>1, FiniteRows
    <2>3. /\ Cardinality(Ahead(z)) >= Offset
          /\ Cardinality(Ahead(z)) < Offset + Limit
          => z \in ToSet(items')
      BY <1>2, <1>3, <2>1, PageShows
    <2> QED
      BY <1>1, <1>3, <2>1, <2>2, <2>3
  <1>6. Types'
    BY <1>1, <1>3 DEF Types
  <1>7. NonePassedBy'
    <2> SUFFICES ASSUME ~left, NEW z \in old
                 PROVE  /\ z \in Matching'
                        /\ z \in seen' \/ Cardinality(Ahead(z)') >= Offset + Limit
      BY <1>1, <1>3 DEF NonePassedBy
    <2> QED
      BY <1>4, <1>5
  <1>8. TotalOK'
    BY <1>1 DEF TotalOK
  <1>9. LastPageOK'
    <2> SUFFICES ASSUME ~left, ~entered, Offset + Limit >= total, NEW z \in old
                 PROVE  z \in seen'
      BY <1>1, <1>3 DEF LastPageOK
    <2>1. z \in Matching /\ z \in Row
      BY <1>5
    <2>2. Cardinality(Matching) <= total /\ total \in Nat
      BY <1>1 DEF ListsInv, TotalOK, Types
    <2>3. Cardinality(Ahead(z)) < Cardinality(Matching)
      BY <2>1, AheadOfMatching
    <2> QED
      BY <1>3, <1>5, <2>1, <2>2, <2>3, FiniteRows
  <1>10. PageFitsTotal'
    <2> SUFFICES /\ entered \/ items' = <<>> \/ Offset + Len(items') <= total
                 /\ lost \/ Len(items') = Limit \/ Offset + Len(items') >= total
      BY <1>1, <1>3 DEF PageFitsTotal
    <2>1. /\ entered \/ Cardinality(Matching) <= total
          /\ lost \/ Cardinality(Matching) >= total
      BY <1>1 DEF ListsInv, TotalOK
    <2>2. /\ Len(items') \in Nat
          /\ items' = <<>> \/ Offset + Len(items') <= Cardinality(Matching)
          /\ Len(items') = Limit \/ Offset + Len(items') >= Cardinality(Matching)
      BY <1>2, <1>3, PageLength
    <2>3. total \in Nat /\ Cardinality(Matching) \in Nat
      BY FiniteRows DEF ListsInv, Types
    <2> QED
      BY <1>3, <2>1, <2>2, <2>3
  <1> QED
    BY <1>6, <1>7, <1>8, <1>9, <1>10 DEF ListsInv

LEMMA ListsStutter == ASSUME ListsInv, UNCHANGED vars PROVE ListsInv'
  <1>1. UNCHANGED <<list, row, stage, page, total, items, seen, old, left, entered, lost>>
    BY DEF vars, screen, marks
  <1>2. Offset' = Offset /\ Passed' = Passed /\ Matching' = Matching
    BY <1>1 DEF Offset, Passed, Matching
  <1>3. Types' /\ TotalOK' /\ LastPageOK' /\ PageFitsTotal'
    BY <1>1, <1>2 DEF ListsInv, Types, TotalOK, LastPageOK, PageFitsTotal
  <1>4. NonePassedBy'
    <2>1. CASE stage = "idle"
      BY <1>1, <2>1 DEF NonePassedBy
    <2>2. CASE stage # "idle"
      BY <1>1, <1>2, <2>2, SameRows DEF ListsInv
    <2> QED
      BY <2>1, <2>2
  <1> QED
    BY <1>3, <1>4 DEF ListsInv

LEMMA ListsInvariant == Spec => []ListsInv
  <1>1. ListsInv /\ [Next]_vars => ListsInv'
    <2> SUFFICES ASSUME ListsInv, [Next]_vars PROVE ListsInv'
      OBVIOUS
    <2>1. CASE \E x \in Row : Begin(x) \/ Commit(x) \/ Rollback(x) \/ Update(x)
      BY <2>1, WriterStep
    <2>2. CASE AskFirst
      BY <2>2, AskFirstStep
    <2>3. CASE AskNext
      BY <2>3, AskNextStep
    <2>4. CASE StopAsking
      BY <2>4, StopStep
    <2>5. CASE Count
      BY <2>5, CountStep
    <2>6. CASE Page
      BY <2>6, PageStep
    <2>7. CASE Fail
      BY <2>7, FailStep
    <2>8. CASE UNCHANGED vars
      BY <2>8, ListsStutter
    <2> QED
      BY <2>1, <2>2, <2>3, <2>4, <2>5, <2>6, <2>7, <2>8 DEF Next
  <1> QED
    BY ListsInit, <1>1, PTL DEF Spec

-----------------------------------------------------------------------------
(* The theorems *)

\* ListBalances, ListMovements and ListReservations, read page after page to
\* the end, have shown every row that matched when the reading began: their
\* orders are strict and no path deletes a row, so nothing slides back over a
\* page that was read already.  What the walk cannot promise is named by the
\* two marks: a row that leaves the filter's result, and one that enters it
\* between the two statements of the last request.
THEOREM WalkNeverMisses == Spec => []WalkMissesNothing
  <1>1. ListsInv => WalkMissesNothing
    BY DEF ListsInv, LastPageOK, WalkMissesNothing
  <1> QED
    BY ListsInvariant, <1>1, PTL

\* The total and the items of one answer of ListBalances, ListMovements or
\* ListReservations agree up to what was committed between the two statements
\* (listTotal, then the query of the page).
THEOREM PageAlwaysFitsTotal == Spec => []PageFitsTotal
  <1>1. ListsInv => PageFitsTotal
    BY DEF ListsInv
  <1> QED
    BY ListsInvariant, <1>1, PTL
=============================================================================
