----------------------------- MODULE AdminLists -----------------------------
(***************************************************************************)
(* The paged lists of the protected HTTP surface: ListBalances,            *)
(* ListMovements and ListReservations of admin_reads.go, behind router.go, *)
(* read page after page by an operator's screen while writers commit.  A   *)
(* request counts the rows of its filter in one statement and reads the    *)
(* page in another, each on a snapshot of its own.                         *)
(*                                                                         *)
(* A row is its place in the list's key: <<stamp, id>>, where ListBalances *)
(* orders by (sku_id, warehouse_id), ListMovements by id and               *)
(* ListReservations by (created_at, id).  What the rows hold is abstracted *)
(* to whether they match the filter.                                       *)
(***************************************************************************)
EXTENDS Integers, Sequences, SequencesExt

CONSTANTS
    Row,      \* rows that may be written, <<stamp, id>>
    Limit,    \* page_size
    MaxPage   \* bound on the pages a screen asks for

ASSUME AdminListsAssumption ==
    /\ Row \subseteq Nat \X Nat /\ IsFiniteSet(Row)
    /\ Limit \in Nat \ {0} /\ MaxPage \in Nat \ {0}

VARIABLES
    list, filter,   \* what the screen asks for
    row,            \* state of each row
    stage,          \* the statement the request runs next
    page,           \* page number asked for
    total, items,   \* what its two statements returned
    seen,           \* rows shown since page 1
    old,            \* rows that matched when page 1 was asked for
    left,           \* a row left the result since then
    entered, lost   \* one entered or left it between the last count and page

screen == <<stage, page, total, items, seen, old>>
marks == <<entered, lost>>
vars == <<list, filter, row, screen, left, marks>>

Filters ==
    [movements |-> {"all", "sku"},
     reservations |-> {"all", "reserved", "settled"},
     balances |-> {"all", "low_stock"}]

Matching == {x \in Row : row[x] = "in"}

Before(x, y) == x[1] < y[1] \/ (x[1] = y[1] /\ x[2] < y[2])

\* Newest first for movements and reservations, key order for balances.
Follows(x, y) == IF list = "balances" THEN Before(y, x) ELSE Before(x, y)

\* Mutant of Orders: ties of the first column are not broken.
OrdersByStamp ==
    {s \in SetToSeqs(Matching) : \A i, j \in DOMAIN s :
        i < j /\ s[i][1] # s[j][1] => Follows(s[j], s[i])}

\* The orders ORDER BY admits: one, its columns end in a unique one.
Orders ==
    {s \in SetToSeqs(Matching) : \A i, j \in DOMAIN s : i < j => Follows(s[j], s[i])}

Offset == (page - 1) * Limit

Init ==
    /\ list \in DOMAIN Filters /\ filter \in Filters[list]
    /\ row \in [Row -> {"none", "in"}]
    /\ stage = "idle" /\ page = 0 /\ total = 0 /\ items = <<>>
    /\ seen = {} /\ old = {} /\ left = FALSE /\ entered = FALSE /\ lost = FALSE

-----------------------------------------------------------------------------
(* Writers: uncommitted rows are invisible, keys are given out in order but *)
(* may commit out of order, and no path deletes a row.                      *)

SetRow(x, state) ==
    /\ row' = [row EXCEPT ![x] = state]
    /\ left' = (left \/ (row[x] = "in" /\ state # "in"))
    /\ entered' = (entered \/ (stage = "page" /\ state = "in"))
    /\ lost' = (lost \/ (stage = "page" /\ row[x] = "in" /\ state # "in"))
    /\ UNCHANGED <<list, filter, screen>>

\* BIGSERIAL ids and created_at = now() grow; a balance key is any.
Begin(x) ==
    /\ row[x] = "none"
    /\ list = "balances" \/ \A y \in Row : y[1] < x[1] => row[y] # "none"
    /\ SetRow(x, "open")

\* A fresh row has the first status; a filter on columns may match it or not.
Fresh ==
    CASE filter \in {"all", "reserved"} -> {"in"}
      [] filter = "settled" -> {"out"}
      [] OTHER -> {"in", "out"}

Commit(x) == row[x] = "open" /\ \E state \in Fresh : SetRow(x, state)
Rollback(x) == row[x] = "open" /\ SetRow(x, "gone")

\* A reservation is settled once; a balance gets low and is restocked.
Update(x) ==
    \/ filter \in {"reserved", "low_stock"} /\ row[x] = "in" /\ SetRow(x, "out")
    \/ filter \in {"settled", "low_stock"} /\ row[x] = "out" /\ SetRow(x, "in")

-----------------------------------------------------------------------------
(* The screen *)

Ask(n) ==
    /\ n <= MaxPage
    /\ stage' = "count" /\ page' = n
    /\ seen' = IF n = 1 THEN {} ELSE seen
    /\ old' = IF n = 1 THEN Matching ELSE old
    /\ left' = (left /\ n > 1)
    /\ UNCHANGED <<list, filter, row, total, items, marks>>

\* It asks for the next page while the total says that there is one.
AskFirst == stage \in {"idle", "done"} /\ Ask(1)
AskNext == stage = "shown" /\ Offset + Limit < total /\ Ask(page + 1)
StopAsking ==
    /\ stage = "shown" /\ Offset + Limit >= total
    /\ stage' = "done"
    /\ UNCHANGED <<list, filter, row, page, total, items, seen, old, left, marks>>

\* Mutant of Counted: the count is not filtered.
CountedAll == {x \in Row : row[x] \in {"in", "out"}}

Counted == Matching

\* listTotal: SELECT count( * ).
Count ==
    /\ stage = "count"
    /\ stage' = "page" /\ total' = Cardinality(Counted)
    /\ entered' = FALSE /\ lost' = FALSE
    /\ UNCHANGED <<list, filter, row, page, items, seen, old, left>>

PageOf(s) == SubSeq(s, Offset + 1, Min({Offset + Limit, Len(s)}))

\* SELECT .. ORDER BY .. LIMIT .. OFFSET.
Page ==
    /\ stage = "page"
    /\ \E s \in Orders : items' = PageOf(s)
    /\ seen' = seen \cup ToSet(items')
    /\ stage' = "shown"
    /\ UNCHANGED <<list, filter, row, page, total, old, left, marks>>

\* A statement fails: 500, and the screen asks for the page again.
Fail ==
    /\ stage = "page"
    /\ stage' = "count"
    /\ UNCHANGED <<list, filter, row, page, total, items, seen, old, left, marks>>

Next ==
    \/ \E x \in Row : Begin(x) \/ Commit(x) \/ Rollback(x) \/ Update(x)
    \/ AskFirst \/ AskNext \/ StopAsking \/ Count \/ Page \/ Fail

Spec == Init /\ [][Next]_vars

-----------------------------------------------------------------------------
(* Properties *)

\* Every variable has a value of its type.
TypeOK ==
    /\ list \in DOMAIN Filters /\ filter \in Filters[list]
    /\ row \in [Row -> {"none", "open", "in", "out", "gone"}]
    /\ stage \in {"idle", "count", "page", "shown", "done"}
    /\ page \in 0..MaxPage /\ total \in 0..Cardinality(Row)
    /\ ToSet(items) \subseteq Row /\ Len(items) <= Limit
    /\ seen \subseteq Row /\ old \subseteq Row
    /\ left \in BOOLEAN /\ entered \in BOOLEAN /\ lost \in BOOLEAN

\* A screen read to its end has shown every row that matched when it began,
\* whatever was inserted meanwhile and whatever committed out of key order,
\* unless a row left the filter's result or one entered it between the count
\* and the page of the last request.
WalkMissesNothing ==
    stage = "done" /\ ~left /\ ~entered => old \subseteq seen

\* The total and the page of one answer are of two snapshots.  They agree up
\* to what was committed in between: the page has no more rows than the total
\* leaves for it unless one entered, and is no short page before the last one
\* unless one left.
PageFitsTotal ==
    stage = "shown" =>
        /\ entered \/ items = <<>> \/ Offset + Len(items) <= total
        /\ lost \/ Len(items) = Limit \/ Offset + Len(items) >= total
=============================================================================
