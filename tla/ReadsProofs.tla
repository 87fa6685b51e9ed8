---------------------------- MODULE ReadsProofs ----------------------------
(***************************************************************************)
(* What the read RPCs answer is true of some moment of the call: theorems  *)
(* about Reads for every set of rows, writers and requests.                *)
(***************************************************************************)
EXTENDS Reads, InventoryProofs, WellFoundedInduction

-----------------------------------------------------------------------------
(* A sum over a set counts units *)

Pick(u) == CHOOSE x \in u : TRUE

\* f is the sum of g, subset of S by subset, as the fold computes it.
Sums(f, g, S) ==
    f = [u \in SUBSET S |-> IF u = {} THEN 0 ELSE g[Pick(u)] + f[u \ {Pick(u)}]]

\* The units of g on S, one element per unit.
UnitsIn(g, S) == {v \in S \X (1..MaxBigint) : v[2] <= g[v[1]]}

\* One element has its own units, the others keep theirs.
LEMMA CountStep ==
    ASSUME NEW S, IsFiniteSet(S), NEW g \in [S -> 0..MaxBigint],
           NEW u \in SUBSET S, NEW a \in u
    PROVE  Cardinality(UnitsIn(g, u)) = g[a] + Cardinality(UnitsIn(g, u \ {a}))
  <1> DEFINE rest == UnitsIn(g, u \ {a})
             own == {a} \X (1..g[a])
  <1>1. g[a] \in 0..MaxBigint /\ g[a] \in Nat
    BY MaxBigintType
  <1>2. IsFiniteSet(rest) /\ Cardinality(rest) \in Nat
    <2>1. IsFiniteSet(u \ {a})
      BY FS_Subset
    <2>2. IsFiniteSet(1..MaxBigint)
      BY MaxBigintType, FS_Interval
    <2>3. IsFiniteSet((u \ {a}) \X (1..MaxBigint))
      BY <2>1, <2>2, FS_Product
    <2>4. rest \in SUBSET ((u \ {a}) \X (1..MaxBigint))
      BY DEF UnitsIn
    <2>5. IsFiniteSet(rest)
      BY <2>3, <2>4, FS_Subset
    <2> QED
      BY <2>5, FS_CardinalityType
  <1>3. UnitsIn(g, u) = rest \cup own
    BY <1>1, MaxBigintType DEF UnitsIn
  <1>4. rest \cap own = {}
    BY Zenon DEF UnitsIn
  <1>5. Cardinality(rest \cup own) = Cardinality(rest) + g[a]
    <2> HIDE DEF rest
    <2> QED
      BY <1>1, <1>2, <1>4, AddUnits
  <1> QED
    BY <1>1, <1>2, <1>3, <1>5

\* There is a sum of g ...
LEMMA SumExists ==
    ASSUME NEW S, IsFiniteSet(S), NEW g \in [S -> 0..MaxBigint]
    PROVE  Sums([u \in SUBSET S |-> Cardinality(UnitsIn(g, u))], g, S)
  <1> DEFINE f == [u \in SUBSET S |-> Cardinality(UnitsIn(g, u))]
  <1> SUFFICES ASSUME NEW u \in SUBSET S
               PROVE  f[u] = IF u = {} THEN 0 ELSE g[Pick(u)] + f[u \ {Pick(u)}]
    BY DEF Sums
  <1>1. CASE u = {}
    <2>1. UnitsIn(g, u) = {}
      BY <1>1 DEF UnitsIn
    <2> QED
      BY <1>1, <2>1, FS_EmptySet
  <1>2. CASE u # {}
    <2>1. Pick(u) \in u
      BY <1>2 DEF Pick
    <2> QED
      BY <1>2, <2>1, CountStep
  <1> QED
    BY <1>1, <1>2

\* ... and every one counts its units: a smallest subset on which it did not
\* would be neither empty nor an element more than one on which it does.
LEMMA SumIsCount ==
    ASSUME NEW S, IsFiniteSet(S), NEW g \in [S -> 0..MaxBigint], NEW f, Sums(f, g, S)
    PROVE  f[S] = Cardinality(UnitsIn(g, S))
  <1> DEFINE Wrong == {u \in SUBSET S : f[u] # Cardinality(UnitsIn(g, u))}
  <1> SUFFICES ASSUME Wrong # {} PROVE FALSE
    OBVIOUS
  <1>1. Wrong \subseteq FiniteSubsetsOf(S)
    BY FS_FiniteSubsetsOfFinite
  <1> HIDE DEF Wrong
  <1>2. PICK u \in Wrong : \A v \in Wrong : <<v, u>> \notin StrictSubsetOrdering(S)
    BY <1>1, FS_StrictSubsetOrderingWellFounded, WFMin
  <1> USE DEF Wrong
  <1>3. f[u] = IF u = {} THEN 0 ELSE g[Pick(u)] + f[u \ {Pick(u)}]
    BY DEF Sums
  <1>4. u # {}
    <2> SUFFICES ASSUME u = {} PROVE FALSE
      OBVIOUS
    <2>1. UnitsIn(g, u) = {}
      BY DEF UnitsIn
    <2> QED
      BY <1>3, <2>1, FS_EmptySet
  <1>5. Pick(u) \in u
    BY <1>4 DEF Pick
  <1>6. u \ {Pick(u)} \notin Wrong
    <2>1. <<u \ {Pick(u)}, u>> \in StrictSubsetOrdering(S)
      BY <1>5 DEF StrictSubsetOrdering
    <2> HIDE DEF Wrong
    <2> QED
      BY <1>2, <2>1
  <1> QED
    BY <1>3, <1>4, <1>5, <1>6, CountStep

-----------------------------------------------------------------------------
(* What a statement returns of a table *)

\* A table of balances the service can be in.
TableOK(b) ==
    /\ b \in [Row -> Balance]
    /\ \A x \in Row : SchemaChecks(b[x]) /\ (~b[x].live => b[x] = NoBalance)

\* ActiveRows of the table b.
RowsAt(b, S) == [x \in {y \in S \X Active : b[y].live} |-> b[x]]

LEMMA ActiveRowsNow == \A S : ActiveRows(S) = RowsAt(bal, S)
  BY DEF ActiveRows, RowsAt

\* The ATP of a row counts the units above reserved and safety stock.
LEMMA ATPUnits ==
    ASSUME NEW b \in Balance, SchemaChecks(b), ~b.live => b = NoBalance
    PROVE  /\ ATP(b) \in 0..MaxBigint
           /\ ~b.live => ATP(b) = 0
           /\ \A n \in 1..MaxBigint : n <= ATP(b) <=> n + b.reserved + b.safety <= b.onHand
  <1>1. CASE b.live
    BY <1>1, MaxBigintType DEF ATP, Balance, SchemaChecks
  <1>2. CASE ~b.live
    BY <1>2, MaxBigintType DEF ATP, NoBalance
  <1> QED
    BY <1>1, <1>2

\* A warehouse without the row has none of it.
LEMMA SeenRows ==
    ASSUME NEW b, TableOK(b), NEW S \in SUBSET SKU, NEW s \in S, NEW w \in Active
    PROVE  /\ <<s, w>> \in Row
           /\ <<s, w>> \in DOMAIN RowsAt(b, S) <=> b[<<s, w>>].live
           /\ WarehouseATP(RowsAt(b, S), s, w) = ATP(b[<<s, w>>])
           /\ ATP(b[<<s, w>>]) \in 0..MaxBigint
  <1>1. <<s, w>> \in Row
    BY StockAssumption DEF Row
  <1>2. /\ ATP(b[<<s, w>>]) \in 0..MaxBigint
        /\ ~b[<<s, w>>].live => ATP(b[<<s, w>>]) = 0
    BY <1>1, ATPUnits DEF TableOK
  <1> QED
    BY <1>1, <1>2 DEF RowsAt, WarehouseATP

\* The sum a batch read returns for s is the number of units of s that are
\* promisable on the rows it read.
LEMMA QuoteIsPromisable ==
    ASSUME NEW b, TableOK(b), NEW S \in SUBSET SKU, NEW s \in S
    PROVE  Quote(RowsAt(b, S), s) = Promisable(b, s)
  <1> DEFINE rows == RowsAt(b, S)
             R == RowsOf(rows, s)
             g == [x \in R |-> ATP(rows[x])]
             F == CHOOSE f : f = [u \in SUBSET R |->
                      IF u = {} THEN 0
                      ELSE ATP(rows[CHOOSE x \in u : TRUE]) + f[u \ {CHOOSE x \in u : TRUE}]]
  <1>1. Quote(rows, s) = F[R]
    BY DEF Quote, MapThenSumSet, MapThenFoldSet
  <1>2. \A x : x \in R <=> \E w \in Active : x = <<s, w>> /\ b[<<s, w>>].live
    <2>1. DOMAIN rows = {y \in S \X Active : b[y].live}
      BY DEF RowsAt
    <2>2. \A x : x \in R <=> x \in S \X Active /\ b[x].live /\ x[1] = s
      BY <2>1 DEF RowsOf
    <2> HIDE DEF R
    <2>3. ASSUME NEW x \in R PROVE x[2] \in Active /\ x = <<s, x[2]>> /\ b[<<s, x[2]>>].live
      <3>1. x \in S \X Active /\ x[1] = s /\ b[x].live
        BY <2>2
      <3>2. x = <<s, x[2]>> /\ x[2] \in Active
        BY <3>1
      <3> QED
        BY <3>1, <3>2
    <2>4. ASSUME NEW w \in Active, b[<<s, w>>].live PROVE <<s, w>> \in R
      BY <2>2, <2>4
    <2> QED
      BY <2>3, <2>4
  <1>3. \A x \in R : rows[x] = b[x] /\ x \in Row /\ x[1] = s /\ x[2] \in Active
    BY <1>2, StockAssumption DEF RowsAt, RowsOf, Row
  <1>4. g \in [R -> 0..MaxBigint]
    BY <1>3, ATPUnits DEF TableOK
  <1>5. IsFiniteSet(R)
    <2>1. IsFiniteSet(SKU \X Warehouse)
      BY StockAssumption, FS_Product
    <2>2. R \in SUBSET (SKU \X Warehouse)
      BY <1>3 DEF Row
    <2> QED
      BY <2>1, <2>2, FS_Subset
  <1>6. F[R] = Cardinality(UnitsIn(g, R))
    <2> DEFINE Fold(f) == f = [u \in SUBSET R |->
                      IF u = {} THEN 0
                      ELSE ATP(rows[CHOOSE x \in u : TRUE]) + f[u \ {CHOOSE x \in u : TRUE}]]
    <2>1. ASSUME NEW f PROVE Fold(f) <=> Sums(f, g, R)
      <3>1. \A u \in SUBSET R : u # {} => Pick(u) \in R /\ g[Pick(u)] = ATP(rows[Pick(u)])
        BY DEF Pick
      <3> QED
        BY <3>1 DEF Sums, Pick
    <2>2. \E f : Fold(f)
      <3>1. \E f : Sums(f, g, R)
        BY <1>4, <1>5, SumExists
      <3> HIDE DEF Fold
      <3> QED
        BY <2>1, <3>1
    <2>3. Fold(F)
      BY <2>2
    <2> QED
      BY <1>4, <1>5, <2>1, <2>3, SumIsCount
  <1>7. Cardinality(UnitsIn(g, R)) = Promisable(b, s)
    <2> DEFINE P == {u \in Active \X (1..MaxBigint) :
                       u[2] + b[<<s, u[1]>>].reserved + b[<<s, u[1]>>].safety
                           <= b[<<s, u[1]>>].onHand}
               U == UnitsIn(g, R)
               h == [v \in U |-> <<v[1][2], v[2]>>]
    <2>1. \A w \in Active, n \in 1..MaxBigint :
              <<w, n>> \in P <=> <<s, w>> \in R /\ n <= g[<<s, w>>]
      <3> SUFFICES ASSUME NEW w \in Active, NEW n \in 1..MaxBigint
                   PROVE  <<w, n>> \in P <=> <<s, w>> \in R /\ n <= g[<<s, w>>]
        OBVIOUS
      <3>1. <<s, w>> \in Row
        BY StockAssumption DEF Row
      <3>2. /\ n <= ATP(b[<<s, w>>]) <=> <<w, n>> \in P
            /\ ~b[<<s, w>>].live => ATP(b[<<s, w>>]) = 0
        BY <3>1, ATPUnits DEF TableOK
      <3>3. <<s, w>> \in R <=> b[<<s, w>>].live
        BY <1>2
      <3>4. <<s, w>> \in R => g[<<s, w>>] = ATP(b[<<s, w>>])
        BY <1>3
      <3> QED
        BY <3>2, <3>3, <3>4
    <2>2. \A v \in U : v = <<<<s, v[1][2]>>, v[2]>> /\ v[1][2] \in Active /\ v[2] \in 1..MaxBigint
      <3> SUFFICES ASSUME NEW v \in U
                   PROVE  v = <<<<s, v[1][2]>>, v[2]>> /\ v[1][2] \in Active /\ v[2] \in 1..MaxBigint
        OBVIOUS
      <3>1. v = <<v[1], v[2]>> /\ v[1] \in R /\ v[2] \in 1..MaxBigint
        BY DEF UnitsIn
      <3>2. v[1] = <<s, v[1][2]>> /\ v[1][2] \in Active
        <4> HIDE DEF R
        <4>1. PICK w \in Active : v[1] = <<s, w>>
          BY <1>2, <3>1
        <4> QED
          BY <4>1
      <3> QED
        BY <3>1, <3>2
    <2>3. h \in [U -> P]
      BY <2>1, <2>2 DEF UnitsIn
    <2>4. \A v, z \in U : h[v] = h[z] => v = z
      BY <2>2
    <2>5. \A y \in P : \E v \in U : h[v] = y
      <3> SUFFICES ASSUME NEW y \in P PROVE \E v \in U : h[v] = y
        OBVIOUS
      <3>1. y = <<y[1], y[2]>> /\ y[1] \in Active /\ y[2] \in 1..MaxBigint
        OBVIOUS
      <3>2. <<<<s, y[1]>>, y[2]>> \in U
        BY <2>1, <3>1 DEF UnitsIn
      <3> QED
        BY <3>1, <3>2
    <2>d. DOMAIN h = U
      OBVIOUS
    <2>6. h \in Bijection(U, P)
      <3> HIDE DEF U, P, h
      <3> QED
        BY <2>3, <2>4, <2>5, <2>d DEF Bijection, Injection, Surjection, IsInjective
    <2>7. IsFiniteSet(U)
      <3>1. IsFiniteSet(1..MaxBigint)
        BY MaxBigintType, FS_Interval
      <3>2. IsFiniteSet(R \X (1..MaxBigint))
        BY <1>5, <3>1, FS_Product
      <3> QED
        BY <3>2, FS_Subset DEF UnitsIn
    <2>8. Cardinality(U) = Cardinality(P)
      <3> HIDE DEF U, P, h
      <3> QED
        BY <2>6, <2>7, FS_Bijection DEF ExistsBijection
    <2> QED
      BY <2>8 DEF Promisable
  <1> QED
    BY <1>1, <1>6, <1>7

\* Where there are active warehouses one of them is the baseline.
LEMMA BaseExists ==
    /\ Active # {} => Base # {}
    /\ \A v, w \in Base : v = w
  <1>1. ASSUME Active # {} PROVE Base # {}
    <2>1. Active \subseteq Nat
      BY StockAssumption
    <2>2. PICK w \in Active : \A v \in Active : <<v, w>> \notin OpToRel(<, Nat)
      BY <1>1, <2>1, NatLessThanWellFounded, WFMin
    <2>3. \A v \in Active : w <= v
      <3>1. \A v \in Active : ~(v < w)
        BY <2>1, <2>2 DEF OpToRel
      <3> QED
        BY <2>1, <3>1
    <2> QED
      BY <2>3 DEF Base
  <1>2. ASSUME NEW v \in Base, NEW w \in Base PROVE v = w
    BY StockAssumption DEF Base
  <1> QED
    BY <1>1, <1>2

\* The shortage baseline is the stock of that warehouse, or nothing.
LEMMA BaseIsOneWarehouse ==
    ASSUME NEW rows, NEW s, \A w \in Active : WarehouseATP(rows, s, w) \in 0..MaxBigint
    PROVE  /\ Base = {} => BaseATP(rows, s) = 0
           /\ \A w \in Base : BaseATP(rows, s) = WarehouseATP(rows, s, w)
  <1> DEFINE g == [w \in Base |-> WarehouseATP(rows, s, w)]
             Fold(f) == f = [u \in SUBSET Base |->
                            IF u = {} THEN 0
                            ELSE WarehouseATP(rows, s, CHOOSE x \in u : TRUE)
                                 + f[u \ {CHOOSE x \in u : TRUE}]]
             F == CHOOSE f : Fold(f)
  <1>1. BaseATP(rows, s) = F[Base]
    BY DEF BaseATP, MapThenSumSet, MapThenFoldSet
  <1>2. Base \subseteq Active /\ IsFiniteSet(Base)
    <2>1. IsFiniteSet(Active)
      BY StockAssumption, FS_Subset
    <2> QED
      BY <2>1, FS_Subset DEF Base
  <1>3. g \in [Base -> 0..MaxBigint]
    BY <1>2
  <1>4. ASSUME NEW f PROVE Fold(f) <=> Sums(f, g, Base)
    <2>1. \A u \in SUBSET Base : u # {} =>
              Pick(u) \in Base /\ g[Pick(u)] = WarehouseATP(rows, s, Pick(u))
      BY DEF Pick
    <2> QED
      BY <2>1 DEF Sums, Pick
  <1>5. Fold(F)
    <2>1. \E f : Sums(f, g, Base)
      BY <1>2, <1>3, SumExists
    <2> HIDE DEF Fold
    <2> QED
      BY <1>4, <2>1
  <1>6. F[Base] = Cardinality(UnitsIn(g, Base))
    BY <1>2, <1>3, <1>4, <1>5, SumIsCount
  <1>7. CASE Base = {}
    <2>1. UnitsIn(g, Base) = {}
      BY <1>7 DEF UnitsIn
    <2> QED
      BY <1>1, <1>6, <1>7, <2>1, FS_EmptySet
  <1>8. ASSUME NEW w \in Base PROVE F[Base] = WarehouseATP(rows, s, w)
    <2> DEFINE q == WarehouseATP(rows, s, w)
    <2>1. Base = {w}
      BY BaseExists
    <2>2. q \in 0..MaxBigint /\ q \in Nat
      BY <1>2, MaxBigintType
    <2>3. UnitsIn(g, Base) = {w} \X (1..q)
      BY <2>1, <2>2, MaxBigintType DEF UnitsIn
    <2> QED
      BY <1>6, <2>2, <2>3, UnitsOfOne
  <1> QED
    BY <1>1, <1>7, <1>8

-----------------------------------------------------------------------------
(* What the answers say of the table they were read from *)

\* A batch reply quotes what its rows had to promise, and calls unknown only
\* SKUs its rows do not show and the lookup did not find.
LEMMA BatchIsTrue ==
    ASSUME NEW b, TableOK(b), ask.rpc = "batch", ask.skus \in SUBSET SKU, NEW tr,
           NEW s \in ask.skus
    PROVE  LET rows == RowsAt(b, ask.skus)
               a == BatchReply(rows, tr)
           IN  /\ a[s].atp > 0 => a[s].atp = Promisable(b, s)
               /\ a[s].status = "unknown" => s \in Missing(rows) \ tr
  <1> DEFINE rows == RowsAt(b, ask.skus)
  <1>1. StatusFor(Quote(rows, s)) # "unknown"
    BY DEF StatusFor
  <1>2. Quote(rows, s) = Promisable(b, s)
    BY QuoteIsPromisable
  <1> HIDE DEF rows
  <1>3. BatchReply(rows, tr)[s] =
            IF s \notin Missing(rows)
            THEN [status |-> StatusFor(Quote(rows, s)), atp |-> Quote(rows, s)]
            ELSE [status |-> IF s \in tr THEN "out_of_stock" ELSE "unknown", atp |-> 0]
    BY DEF BatchReply
  <1>4. /\ BatchReply(rows, tr)[s].atp > 0 => BatchReply(rows, tr)[s].atp = Promisable(b, s)
        /\ BatchReply(rows, tr)[s].status = "unknown" => s \in Missing(rows) \ tr
    BY <1>1, <1>2, <1>3
  <1> QED
    BY <1>4 DEF rows

\* The rows a check reads decide as Reserve would decide on the table.
LEMMA FulfillsSeen ==
    ASSUME NEW b, TableOK(b), NEW pl \in Payload, NEW w \in Active
    PROVE  Fulfills(RowsAt(b, Requested(pl)), w, pl) <=> FulfillsLines(b, w, pl)
  <1>1. Requested(pl) \in SUBSET SKU
    BY DEF Requested
  <1> QED
    BY <1>1, SeenRows DEF Fulfills, FulfillsLines

\* A "no" names a line, and the units its baseline had.
LEMMA CheckIsTrue ==
    ASSUME NEW b, TableOK(b), ask.rpc = "check", ask.payload \in Payload,
           Requested(ask.payload) # {}, NEW tr,
           \A w \in Active : ~FulfillsLines(b, w, ask.payload)
    PROVE  LET rows == RowsAt(b, Requested(ask.payload))
               a == Unfulfilled(rows, tr)
           IN  /\ ~a.can
               /\ DOMAIN a.shortages \cup a.unknown # {}
               /\ \A s \in DOMAIN a.shortages, w \in Base : a.shortages[s] = ATP(b[<<s, w>>])
               /\ a.unknown \subseteq Missing(rows) \ tr
  <1> DEFINE pl == ask.payload
             rows == RowsAt(b, Requested(pl))
             short == {s \in Requested(pl) : BaseATP(rows, s) < Items[pl][s]}
             open == Missing(rows) \ tr
  <1>1. Requested(pl) \in SUBSET SKU /\ Base \subseteq Active
    BY DEF Requested, Base
  <1>2. \A s \in Requested(pl), w \in Active :
            /\ WarehouseATP(rows, s, w) = ATP(b[<<s, w>>])
            /\ ATP(b[<<s, w>>]) \in 0..MaxBigint
    BY <1>1, SeenRows
  <1>3. \A s \in Requested(pl) :
            /\ Base = {} => BaseATP(rows, s) = 0
            /\ \A w \in Base : BaseATP(rows, s) = ATP(b[<<s, w>>])
    <2> SUFFICES ASSUME NEW s \in Requested(pl)
                 PROVE  /\ Base = {} => BaseATP(rows, s) = 0
                        /\ \A w \in Base : BaseATP(rows, s) = ATP(b[<<s, w>>])
      OBVIOUS
    <2> HIDE DEF rows
    <2>1. /\ Base = {} => BaseATP(rows, s) = 0
          /\ \A w \in Base : BaseATP(rows, s) = WarehouseATP(rows, s, w)
      BY <1>2, BaseIsOneWarehouse
    <2> QED
      BY <1>1, <1>2, <2>1
  <1>4. \A s \in Requested(pl) : Items[pl][s] \in Nat /\ Items[pl][s] > 0
    BY MaxBigintType, StockAssumption DEF Requested
  <1>5. short # {}
    <2>1. CASE Base = {}
      BY <1>3, <1>4, <2>1
    <2>2. CASE Base # {}
      <3>1. PICK w \in Base : TRUE
        BY <2>2
      <3>2. PICK s \in Requested(pl) : ~(ATP(b[<<s, w>>]) >= Items[pl][s])
        BY <1>1, <3>1 DEF FulfillsLines
      <3>3. BaseATP(rows, s) < Items[pl][s]
        BY <1>1, <1>2, <1>3, <1>4, <3>1, <3>2, MaxBigintType
      <3> QED
        BY <3>3
    <2> QED
      BY <2>1, <2>2
  <1>6. Unfulfilled(rows, tr) =
            [can |-> FALSE, shortages |-> [s \in short \ open |-> BaseATP(rows, s)],
             unknown |-> short \cap open]
    BY DEF Unfulfilled
  <1> HIDE DEF rows, short, open
  <1>7. \A s \in short : s \in Requested(pl)
    BY DEF short
  <1>8. /\ ~Unfulfilled(rows, tr).can
        /\ DOMAIN Unfulfilled(rows, tr).shortages = short \ open
        /\ \A s \in short \ open : Unfulfilled(rows, tr).shortages[s] = BaseATP(rows, s)
        /\ Unfulfilled(rows, tr).unknown = short \cap open
    BY <1>6
  <1>9. \A s \in short \ open, w \in Base : Unfulfilled(rows, tr).shortages[s] = ATP(b[<<s, w>>])
    BY <1>3, <1>7, <1>8
  <1> QED
    BY <1>5, <1>8, <1>9 DEF rows, open

-----------------------------------------------------------------------------
(* The inductive invariant *)

\* The tables as they are now.
Now == [bal |-> bal, header |-> header, lines |-> lines]

\* The moments of a call that runs: the present is one of them, and no row
\* that one of them had is gone.
MomentsOK ==
    /\ Now \in past
    /\ \A t \in past : /\ TableOK(t.bal)
                       /\ \A x \in Row : t.bal[x].live => bal[x].live

AskedSKUs == IF ask.rpc = "batch" THEN ask.skus ELSE Requested(ask.payload)

\* What the first statement of an availability read returned was the stock of
\* a moment of the call, at which no warehouse fulfilled the basket.
SeenStock ==
    /\ ask.rpc \in {"batch", "check"}
    /\ \E t \in past :
          /\ got = RowsAt(t.bal, AskedSKUs)
          /\ ask.rpc = "check" => \A w \in Active : ~FulfillsLines(t.bal, w, ask.payload)

\* The header a reservation read returned was there at a moment of the call,
\* with the lines the reservation still has.
SeenHeader ==
    /\ ask.rpc = "get"
    /\ header[ask.id].status # "none"
    /\ \E t \in past : /\ got = t.header[ask.id] /\ got # NoHeader
                       /\ t.lines[ask.id] = lines[ask.id]

ReaderOK ==
    /\ stage \in {"idle", "stock", "tracked", "header", "lines", "done", "failed"}
    /\ Running => ask \in ReadRequest /\ MomentsOK
    /\ stage = "stock" => ask.rpc \in {"batch", "check"}
    /\ stage = "tracked" => SeenStock
    /\ stage = "header" => ask.rpc = "get"
    /\ stage = "lines" => SeenHeader

\* A header that is not there is empty.
EmptyHeaders ==
    \A r \in ReservationId : header[r].status = "none" => header[r] = NoHeader

AnswersOK == QuotesWereTrue /\ UnknownHadNoRow /\ CheckMatchedReserve /\ ReservationWasReal

ReadsInv == Core /\ EmptyHeaders /\ ReaderOK /\ AnswersOK

\* A request has the fields of its RPC.
LEMMA AskShape ==
    ASSUME ask \in ReadRequest
    PROVE  /\ ask.rpc \in {"batch", "check", "get"}
           /\ ask.rpc = "batch" => ask.skus \in SUBSET SKU
           /\ ask.rpc = "check" => ask.payload \in Payload /\ Requested(ask.payload) # {}
           /\ ask.rpc = "get" => ask.id \in ReservationId
  BY DEF ReadRequest

\* Nothing is said while the call is not answered.
LEMMA NotDone == stage # "done" => AnswersOK
  BY DEF AnswersOK, QuotesWereTrue, UnknownHadNoRow, CheckMatchedReserve,
         ReservationWasReal, Told

LEMMA ReadsInvInit == ReadsInit => ReadsInv
  <1> SUFFICES ASSUME ReadsInit PROVE ReadsInv
    OBVIOUS
  <1>1. Core
    BY CoreInit DEF ReadsInit
  <1>2. EmptyHeaders
    BY DEF ReadsInit, Init, EmptyHeaders
  <1>3. ReaderOK /\ AnswersOK
    BY NotDone DEF ReadsInit, ReaderOK, Running
  <1> QED
    BY <1>1, <1>2, <1>3 DEF ReadsInv

\* The tables are in a state the service can be in.
LEMMA TableNow == Core => TableOK(bal)
  BY DEF Core, TypeOK, BalancesOK, TableOK

-----------------------------------------------------------------------------
(* Steps *)

\* A writer adds a moment to the call and takes nothing back.
LEMMA WriteStep ==
    ASSUME ReadsInv, Write
    PROVE  ReadsInv'
  <1>1. [Next]_vars
    BY DEF Write
  <1>2. Core /\ Core'
    BY <1>1, CoreStep DEF ReadsInv
  <1>3. EmptyHeaders'
    BY <1>1, <1>2, NothingDeleted DEF ReadsInv, EmptyHeaders
  <1>4. UNCHANGED <<ask, stage, got, reply>> /\ Running' = Running
    BY DEF Write, readVars, Running
  <1>5. CASE Running
    <2>1. past' = past \cup {Now'}
      BY <1>5 DEF Write, Now
    <2>2. ask \in ReadRequest /\ MomentsOK
      BY <1>5 DEF ReadsInv, ReaderOK
    <2>3. MomentsOK'
      <3>1. Now'.bal = bal' /\ TableOK(bal')
        BY <1>2, TableNow DEF Now, Core, TypeOK, BalancesOK, TableOK
      <3>2. \A x \in Row : bal[x].live => bal'[x].live
        BY <1>1, <1>2, NothingDeleted
      <3> QED
        BY <2>1, <2>2, <3>1, <3>2 DEF MomentsOK
    <2>4. SeenStock => SeenStock'
      BY <1>4, <2>1 DEF SeenStock, AskedSKUs
    <2>5. SeenHeader => SeenHeader'
      <3> SUFFICES ASSUME SeenHeader PROVE SeenHeader'
        OBVIOUS
      <3>1. ask.id \in ReservationId
        BY <2>2, AskShape DEF SeenHeader
      <3>2. lines'[ask.id] = lines[ask.id] /\ header'[ask.id].status # "none"
        BY <1>1, <1>2, <3>1, RecordsStep, NothingDeleted DEF SeenHeader, RecordsKept
      <3> QED
        BY <1>4, <2>1, <3>2 DEF SeenHeader
    <2>6. ReaderOK'
      BY <1>4, <2>2, <2>3, <2>4, <2>5 DEF ReadsInv, ReaderOK
    <2>7. AnswersOK'
      BY <1>4, <1>5, NotDone DEF AnswersOK, QuotesWereTrue, UnknownHadNoRow,
         CheckMatchedReserve, ReservationWasReal, Told, Running
    <2> QED
      BY <1>2, <1>3, <2>6, <2>7 DEF ReadsInv
  <1>6. CASE ~Running
    <2>1. past' = past
      BY <1>6 DEF Write
    <2>2. AnswersOK'
      BY <1>4, <2>1 DEF ReadsInv, AnswersOK, QuotesWereTrue, UnknownHadNoRow,
         CheckMatchedReserve, ReservationWasReal, Told
    <2>3. ReaderOK'
      BY <1>4, <1>6 DEF ReadsInv, ReaderOK, Running
    <2> QED
      BY <1>2, <1>3, <2>2, <2>3 DEF ReadsInv
  <1> QED
    BY <1>5, <1>6

\* A reader leaves the tables alone.
LEMMA TablesStay ==
    ASSUME ReadsInv, UNCHANGED vars
    PROVE  Core' /\ EmptyHeaders'
  BY DEF ReadsInv, vars, Core, TypeOK, BalancesOK, EmptyHeaders

\* An answer to an availability read made of rows of one moment of the call,
\* where unknown is only what no row shows now.
LEMMA AnswerStep ==
    ASSUME ReadsInv, UNCHANGED vars, Running, ask.rpc \in {"batch", "check"},
           NEW t \in past, NEW tr,
           LET rows == RowsAt(t.bal, AskedSKUs)
           IN  /\ Answer(Reply(rows, tr))
               /\ \A s \in Missing(rows) \ tr : s \notin Tracked(bal),
           ask.rpc = "check" => \A w \in Active : ~FulfillsLines(t.bal, w, ask.payload)
    PROVE  ReadsInv'
  <1> DEFINE rows == RowsAt(t.bal, AskedSKUs)
  <1>1. /\ stage' = "done" /\ reply' = Reply(rows, tr) /\ ask' = ask /\ past' = past
        /\ \A s \in Missing(rows) \ tr : s \notin Tracked(bal)
    BY DEF Answer
  <1>2. ask \in ReadRequest /\ MomentsOK
    BY DEF ReadsInv, ReaderOK
  <1>3. TableOK(t.bal)
    BY <1>2 DEF MomentsOK
  <1>4. \A s \in SKU, z \in past : s \notin Tracked(bal) => s \notin Tracked(z.bal)
    BY <1>2 DEF MomentsOK, Tracked, Row
  <1>5. CASE ask.rpc = "batch"
    <2>1. ask.skus \in SUBSET SKU /\ rows = RowsAt(t.bal, ask.skus)
      BY <1>2, <1>5, AskShape DEF AskedSKUs
    <2>2. reply' = BatchReply(rows, tr)
      BY <1>1, <1>5 DEF Reply
    <2>3. \A s \in ask.skus :
              /\ reply'[s].atp > 0 => reply'[s].atp = Promisable(t.bal, s)
              /\ reply'[s].status = "unknown" => s \in Missing(rows) \ tr
      BY <1>3, <1>5, <2>1, <2>2, BatchIsTrue
    <2> HIDE DEF rows
    <2>4. QuotesWereTrue'
      BY <1>1, <2>3 DEF QuotesWereTrue
    <2>5. UnknownHadNoRow'
      BY <1>1, <1>4, <1>5, <2>1, <2>3 DEF UnknownHadNoRow, Told
    <2> QED
      BY <1>1, <1>5, <2>4, <2>5, TablesStay
      DEF ReadsInv, AnswersOK, CheckMatchedReserve, ReservationWasReal, Told, ReaderOK, Running
  <1>6. CASE ask.rpc = "check"
    <2>1. /\ ask.payload \in Payload /\ Requested(ask.payload) # {}
          /\ rows = RowsAt(t.bal, Requested(ask.payload))
      BY <1>2, <1>6, AskShape DEF AskedSKUs
    <2>2. reply' = Unfulfilled(rows, tr)
      BY <1>1, <1>6 DEF Reply
    <2>3. /\ ~reply'.can
          /\ DOMAIN reply'.shortages \cup reply'.unknown # {}
          /\ \A s \in DOMAIN reply'.shortages, w \in Base : reply'.shortages[s] = ATP(t.bal[<<s, w>>])
          /\ reply'.unknown \subseteq Missing(rows) \ tr
      BY <1>3, <1>6, <2>1, <2>2, CheckIsTrue
    <2> HIDE DEF rows
    <2>4. CheckMatchedReserve'
      BY <1>1, <1>6, <2>3 DEF CheckMatchedReserve
    <2>5. UnknownHadNoRow'
      <3>1. Missing(rows) \subseteq SKU
        BY <1>6 DEF Missing, Requested
      <3> QED
        BY <1>1, <1>4, <1>6, <2>3, <3>1 DEF UnknownHadNoRow, Told
    <2> QED
      BY <1>1, <1>6, <2>4, <2>5, TablesStay
      DEF ReadsInv, AnswersOK, QuotesWereTrue, ReservationWasReal, Told, ReaderOK, Running
  <1> QED
    BY <1>5, <1>6

\* A call begins: the present is its first moment.
LEMMA BeginStep ==
    ASSUME ReadsInv, UNCHANGED vars, Begin
    PROVE  ReadsInv'
  <1>1. /\ ask' \in ReadRequest /\ past' = {Now}
        /\ stage' = IF ask'.rpc = "get" THEN "header" ELSE "stock"
    BY ReadsAssumption DEF Begin, Now
  <1>2. Now' = Now /\ bal' = bal
    BY DEF vars, Now
  <1>3. MomentsOK'
    BY <1>1, <1>2, TableNow DEF MomentsOK, ReadsInv, Now, TableOK
  <1>4. ask'.rpc \in {"batch", "check", "get"}
    BY <1>1 DEF ReadRequest
  <1>5. ReaderOK' /\ stage' # "done"
    BY <1>1, <1>3, <1>4 DEF ReaderOK
  <1>6. AnswersOK'
    BY <1>5 DEF AnswersOK, QuotesWereTrue, UnknownHadNoRow, CheckMatchedReserve,
       ReservationWasReal, Told
  <1> QED
    BY <1>5, <1>6, TablesStay DEF ReadsInv

\* A call that goes on, or ends, without an answer.
LEMMA NoAnswerStep ==
    ASSUME ReadsInv, UNCHANGED vars, stage' # "done", ReaderOK'
    PROVE  ReadsInv'
  <1>1. AnswersOK'
    BY DEF AnswersOK, QuotesWereTrue, UnknownHadNoRow, CheckMatchedReserve,
       ReservationWasReal, Told
  <1> QED
    BY <1>1, TablesStay DEF ReadsInv

\* The first statement of an availability read.
LEMMA StockStep ==
    ASSUME ReadsInv, UNCHANGED vars, BatchATP \/ ActiveWarehouseBalances
    PROVE  ReadsInv'
  <1> DEFINE rows == RowsAt(bal, AskedSKUs)
  <1>1. /\ Running /\ ask.rpc \in {"batch", "check"}
        /\ ask \in ReadRequest /\ MomentsOK /\ TableOK(bal)
    BY TableNow DEF BatchATP, ActiveWarehouseBalances, Running, ReadsInv, ReaderOK
  <1>2. Now \in past /\ Now.bal = bal
    BY <1>1 DEF MomentsOK, Now
  <1>3. CASE ask.rpc = "check" /\ \E w \in Active : Fulfills(rows, w, ask.payload)
    <2>1. Answer(Fulfilled)
      BY <1>3, ActiveRowsNow DEF BatchATP, ActiveWarehouseBalances, AskedSKUs
    <2>2. ask.payload \in Payload
      BY <1>1, <1>3, AskShape
    <2>3. \E w \in Active : FulfillsLines(bal, w, ask.payload)
      BY <1>1, <1>3, <2>2, FulfillsSeen DEF AskedSKUs
    <2>4. /\ stage' = "done" /\ ask' = ask /\ past' = past
          /\ reply'.can /\ DOMAIN reply'.shortages = {} /\ reply'.unknown = {}
      BY <2>1 DEF Answer, Fulfilled
    <2>5. CheckMatchedReserve' /\ UnknownHadNoRow'
      BY <1>2, <1>3, <2>3, <2>4 DEF CheckMatchedReserve, UnknownHadNoRow, Told
    <2> QED
      BY <1>3, <2>4, <2>5, TablesStay
      DEF ReadsInv, AnswersOK, QuotesWereTrue, ReservationWasReal, Told, ReaderOK, Running
  <1>4. CASE ~(ask.rpc = "check" /\ \E w \in Active : Fulfills(rows, w, ask.payload))
    <2>1. AnswerOrLookUp(rows)
      BY <1>1, <1>4, ActiveRowsNow DEF BatchATP, ActiveWarehouseBalances, AskedSKUs
    <2>2. ask.rpc = "check" => \A w \in Active : ~FulfillsLines(bal, w, ask.payload)
      BY <1>1, <1>4, AskShape, FulfillsSeen DEF AskedSKUs
    <2>3. CASE Missing(rows) = {} /\ Answer(Reply(rows, {}))
      BY <1>1, <1>2, <2>2, <2>3, AnswerStep
    <2>4. CASE Keep(rows, "tracked")
      <3>1. /\ stage' = "tracked" /\ got' = rows /\ ask' = ask /\ past' = past
            /\ bal' = bal /\ Now' = Now
        BY <2>4 DEF Keep, vars, Now
      <3>2. SeenStock'
        BY <1>1, <1>2, <2>2, <3>1 DEF SeenStock, AskedSKUs
      <3>3. MomentsOK'
        BY <1>1, <3>1 DEF MomentsOK
      <3> QED
        BY <1>1, <3>1, <3>2, <3>3, NoAnswerStep DEF ReaderOK
    <2> QED
      BY <2>1, <2>3, <2>4 DEF AnswerOrLookUp
  <1> QED
    BY <1>3, <1>4

\* The second one, for the SKUs the first did not return.
LEMMA TrackedStep ==
    ASSUME ReadsInv, UNCHANGED vars, TrackedSKUs
    PROVE  ReadsInv'
  <1>1. Running /\ SeenStock
    BY DEF TrackedSKUs, ReadsInv, ReaderOK, Running
  <1>2. PICK t \in past :
            /\ got = RowsAt(t.bal, AskedSKUs)
            /\ ask.rpc = "check" => \A w \in Active : ~FulfillsLines(t.bal, w, ask.payload)
    BY <1>1 DEF SeenStock
  <1>3. Answer(Reply(got, Missing(got) \cap Tracked(bal)))
    BY DEF TrackedSKUs
  <1> QED
    BY <1>1, <1>2, <1>3, AnswerStep DEF SeenStock

\* GetReservation: the header, then the lines, or no row.
LEMMA HeaderStep ==
    ASSUME ReadsInv, UNCHANGED vars, LoadHeader
    PROVE  ReadsInv'
  <1>1. /\ Running /\ ask.rpc = "get" /\ ask.id \in ReservationId /\ ask \in ReadRequest
        /\ MomentsOK
    BY AskShape DEF LoadHeader, Running, ReadsInv, ReaderOK
  <1>2. /\ Now \in past /\ Now.header = header /\ Now.lines = lines
    BY <1>1 DEF MomentsOK, Now
  <1>3. CASE header[ask.id] = NoHeader /\ Answer(NotFound)
    <2>1. /\ stage' = "done" /\ ask' = ask /\ past' = past /\ ~reply'.found
      BY <1>3 DEF Answer, NotFound
    <2>2. ReservationWasReal'
      BY <1>2, <1>3, <2>1 DEF ReservationWasReal
    <2> QED
      BY <1>1, <2>1, <2>2, TablesStay
      DEF ReadsInv, AnswersOK, QuotesWereTrue, UnknownHadNoRow, CheckMatchedReserve, Told,
          ReaderOK, Running
  <1>4. CASE header[ask.id] # NoHeader /\ Keep(header[ask.id], "lines")
    <2>1. /\ stage' = "lines" /\ got' = header[ask.id] /\ ask' = ask /\ past' = past
          /\ bal' = bal /\ header' = header /\ lines' = lines /\ Now' = Now
      BY <1>4 DEF Keep, vars, Now
    <2>2. header[ask.id].status # "none"
      BY <1>1, <1>4 DEF ReadsInv, EmptyHeaders
    <2>3. SeenHeader'
      BY <1>1, <1>2, <1>4, <2>1, <2>2 DEF SeenHeader
    <2>4. MomentsOK'
      BY <1>1, <2>1 DEF MomentsOK
    <2> QED
      BY <1>1, <2>1, <2>3, <2>4, NoAnswerStep DEF ReaderOK
  <1> QED
    BY <1>3, <1>4 DEF LoadHeader

LEMMA LinesStep ==
    ASSUME ReadsInv, UNCHANGED vars, LoadReservationLines
    PROVE  ReadsInv'
  <1>1. SeenHeader
    BY DEF LoadReservationLines, ReadsInv, ReaderOK
  <1>2. /\ stage' = "done" /\ ask' = ask /\ past' = past
        /\ reply' = [found |-> TRUE, status |-> got.status, order |-> got.order,
                     lines |-> lines[ask.id]]
    BY DEF LoadReservationLines, Answer
  <1>3. ReservationWasReal'
    BY <1>1, <1>2 DEF ReservationWasReal, SeenHeader
  <1> QED
    BY <1>1, <1>2, <1>3, TablesStay
    DEF ReadsInv, AnswersOK, QuotesWereTrue, UnknownHadNoRow, CheckMatchedReserve, Told,
        ReaderOK, Running, SeenHeader

\* No step breaks the invariant.
LEMMA ReadsStep == ReadsInv /\ [ReadsNext]_<<vars, readVars, past>> => ReadsInv'
  <1> SUFFICES ASSUME ReadsInv, [ReadsNext]_<<vars, readVars, past>> PROVE ReadsInv'
    OBVIOUS
  <1>1. CASE UNCHANGED <<vars, readVars, past>>
    <2>1. /\ UNCHANGED vars /\ UNCHANGED <<ask, stage, got, reply, past>>
          /\ UNCHANGED <<bal, header, lines>>
      BY <1>1 DEF vars, readVars
    <2>2. AnswersOK'
      BY <2>1 DEF ReadsInv, AnswersOK, QuotesWereTrue, UnknownHadNoRow,
         CheckMatchedReserve, ReservationWasReal, Told
    <2>3. ReaderOK'
      BY <2>1 DEF ReadsInv, ReaderOK, Running, MomentsOK, Now, SeenStock, SeenHeader, AskedSKUs
    <2> QED
      BY <2>1, <2>2, <2>3, TablesStay DEF ReadsInv
  <1>2. CASE Write
    BY <1>2, WriteStep
  <1>3. CASE UNCHANGED vars /\ ReadFails
    BY <1>3, NoAnswerStep DEF ReadFails, ReaderOK, Running
  <1>4. CASE UNCHANGED vars /\ Collect
    BY <1>4, NoAnswerStep DEF Collect, ReaderOK, Running
  <1> QED
    BY <1>1, <1>2, <1>3, <1>4, BeginStep, StockStep, TrackedStep, HeaderStep, LinesStep
    DEF ReadsNext, Read

-----------------------------------------------------------------------------
(* Theorems *)

\* The units BatchGetAvailability quotes for its SKUs were all promisable at
\* one moment of the call.
THEOREM QuotesWereAlwaysTrue == ReadsSpec => []QuotesWereTrue
  <1>1. ReadsInv => QuotesWereTrue
    BY DEF ReadsInv, AnswersOK
  <1> QED
    BY ReadsInvInit, ReadsStep, <1>1, PTL DEF ReadsSpec

\* Unknown is said only of a SKU no warehouse had a row of during the call.
THEOREM UnknownNeverHadRow == ReadsSpec => []UnknownHadNoRow
  <1>1. ReadsInv => UnknownHadNoRow
    BY DEF ReadsInv, AnswersOK
  <1> QED
    BY ReadsInvInit, ReadsStep, <1>1, PTL DEF ReadsSpec

\* CheckAvailability answers as Reserve would have decided at some moment of
\* the call, and a "no" names the units the baseline had then.
THEOREM ChecksMatchReserve == ReadsSpec => []CheckMatchedReserve
  <1>1. ReadsInv => CheckMatchedReserve
    BY DEF ReadsInv, AnswersOK
  <1> QED
    BY ReadsInvInit, ReadsStep, <1>1, PTL DEF ReadsSpec

\* GetReservation shows the reservation as it was at some moment of the call.
THEOREM ReservationsWereReal == ReadsSpec => []ReservationWasReal
  <1>1. ReadsInv => ReservationWasReal
    BY DEF ReadsInv, AnswersOK
  <1> QED
    BY ReadsInvInit, ReadsStep, <1>1, PTL DEF ReadsSpec
=============================================================================
