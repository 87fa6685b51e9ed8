------------------------------- MODULE Reads -------------------------------
(***************************************************************************)
(* The read RPCs beside committing writers.  BatchGetAvailability,         *)
(* CheckAvailability and GetReservation are each several statements on the *)
(* pool, without a transaction, so every statement sees another snapshot.  *)
(* Writers are the atomic steps of Inventory, which the transactions       *)
(* implement.  Readers change nothing and share nothing: one stands for    *)
(* all.  past is a history variable no step reads.                         *)
(***************************************************************************)
EXTENDS Inventory, FiniteSetsExt

CONSTANT Asks    \* the reads clients make

VARIABLES
    ask,     \* the request being served
    stage,   \* the statement it runs next
    got,     \* what its first statement returned
    reply,   \* what the client is told
    past     \* the states of the tables since the request began

readVars == <<ask, stage, got, reply>>

\* The handlers refuse a request without SKUs or items.
ReadRequest ==
    [rpc: {"batch"}, skus: (SUBSET SKU) \ {{}}]
    \cup [rpc: {"check"}, payload: {pl \in Payload : Requested(pl) # {}}]
    \cup [rpc: {"get"}, id: ReservationId]

ASSUME ReadsAssumption == Asks \subseteq ReadRequest

Running == stage \notin {"idle", "done", "failed"}

-----------------------------------------------------------------------------
(* Arithmetic on the rows a statement returned *)

\* The rows of S in active warehouses: JOIN warehouses .. status = 'active'.
\* The active ids, read by a statement of their own, are always Active.
ActiveRows(S) == [x \in {y \in S \X Active : bal[y].live} |-> bal[x]]

RowsOf(rows, s) == {x \in DOMAIN rows : x[1] = s}

\* Mutant of Quote: the floor at 0 is taken after the sum.
QuoteFlooredLate(rows, s) ==
    Max({0, MapThenSumSet(LAMBDA x : rows[x].onHand - rows[x].reserved - rows[x].safety,
                          RowsOf(rows, s))})

\* SUM(GREATEST(0, ..)) over the active warehouses.
Quote(rows, s) == MapThenSumSet(LAMBDA x : ATP(rows[x]), RowsOf(rows, s))

StatusFor(atp) ==
    CASE atp <= 0 -> "out_of_stock"
      [] atp \in 1..4 -> "low_stock"
      [] OTHER -> "in_stock"

WarehouseATP(rows, s, w) == IF <<s, w>> \in DOMAIN rows THEN ATP(rows[<<s, w>>]) ELSE 0

\* Mutant of Fulfills: the stock of all warehouses counts.
FulfillsSummed(rows, w, pl) == \A s \in Requested(pl) : Quote(rows, s) >= Items[pl][s]

Fulfills(rows, w, pl) ==
    \A s \in Requested(pl) : WarehouseATP(rows, s, w) >= Items[pl][s]

\* The shortage baseline is the lowest active id, if there is one.
Base == {w \in Active : \A v \in Active : w <= v}

BaseATP(rows, s) == MapThenSumSet(LAMBDA w : WarehouseATP(rows, s, w), Base)

\* The SKUs the first statement leaves open, to be looked up by TrackedSKUs.
Missing(rows) ==
    IF ask.rpc = "batch" THEN {s \in ask.skus : RowsOf(rows, s) = {}}
    ELSE {s \in Requested(ask.payload) : \A w \in Base : <<s, w>> \notin DOMAIN rows}

-----------------------------------------------------------------------------
(* Replies *)

BatchReply(rows, tracked) ==
    [s \in ask.skus |->
        IF s \notin Missing(rows)
        THEN [status |-> StatusFor(Quote(rows, s)), atp |-> Quote(rows, s)]
        ELSE [status |-> IF s \in tracked THEN "out_of_stock" ELSE "unknown", atp |-> 0]]

Fulfilled == [can |-> TRUE, shortages |-> [s \in {} |-> 0], unknown |-> {}]

\* A line without a row in the baseline is a shortage if the SKU is tracked.
Unfulfilled(rows, tracked) ==
    LET short == {s \in Requested(ask.payload) : BaseATP(rows, s) < Items[ask.payload][s]}
        open == Missing(rows) \ tracked
    IN  [can |-> FALSE, shortages |-> [s \in short \ open |-> BaseATP(rows, s)],
         unknown |-> short \cap open]

NotFound == [found |-> FALSE]

Reply(rows, tracked) ==
    IF ask.rpc = "batch" THEN BatchReply(rows, tracked) ELSE Unfulfilled(rows, tracked)

-----------------------------------------------------------------------------
(* Steps of a reader *)

Begin ==
    /\ stage = "idle"
    /\ ask' \in Asks
    /\ stage' = IF ask'.rpc = "get" THEN "header" ELSE "stock"
    /\ past' = {[bal |-> bal, header |-> header, lines |-> lines]}
    /\ UNCHANGED <<got, reply>>

Answer(a) ==
    /\ stage' = "done" /\ reply' = a /\ got' = None
    /\ UNCHANGED <<ask, past>>

Keep(rows, next) ==
    /\ stage' = next /\ got' = rows
    /\ UNCHANGED <<ask, reply, past>>

\* One statement, then a second one only for SKUs it did not return.
AnswerOrLookUp(rows) ==
    \/ Missing(rows) = {} /\ Answer(Reply(rows, {}))
    \/ Missing(rows) # {} /\ Keep(rows, "tracked")

\* The cast to bigint fails for the whole batch if one sum is out of range.
BatchATP ==
    /\ stage = "stock" /\ ask.rpc = "batch"
    /\ LET rows == ActiveRows(ask.skus)
       IN  /\ \A s \in ask.skus : Quote(rows, s) <= MaxBigint
           /\ AnswerOrLookUp(rows)

ActiveWarehouseBalances ==
    /\ stage = "stock" /\ ask.rpc = "check"
    /\ LET rows == ActiveRows(Requested(ask.payload))
           some == \E w \in Active : Fulfills(rows, w, ask.payload)
       IN  \/ some /\ Answer(Fulfilled)
           \/ ~some /\ AnswerOrLookUp(rows)

\* Mutant of TrackedSKUs: only active warehouses are looked at.
TrackedInActive ==
    /\ stage = "tracked"
    /\ Answer(Reply(got, {s \in Missing(got) : \E w \in Active : bal[<<s, w>>].live}))

TrackedSKUs == stage = "tracked" /\ Answer(Reply(got, Missing(got) \cap Tracked(bal)))

\* Mutant of LoadHeader: ErrNoRows is not told from a row.
LoadHeaderUnchecked == stage = "header" /\ Keep(header[ask.id], "lines")

LoadHeader ==
    /\ stage = "header"
    /\ \/ header[ask.id] = NoHeader /\ Answer(NotFound)
       \/ header[ask.id] # NoHeader /\ Keep(header[ask.id], "lines")

LoadReservationLines ==
    /\ stage = "lines"
    /\ Answer([found |-> TRUE, status |-> got.status, order |-> got.order,
               lines |-> lines[ask.id]])

\* failClosed: a failed statement is Unavailable, never a business answer.
ReadFails ==
    /\ Running
    /\ stage' = "failed" /\ got' = None
    /\ UNCHANGED <<ask, reply, past>>

Collect ==
    /\ stage \in {"done", "failed"}
    /\ stage' = "idle" /\ ask' = None /\ reply' = None /\ past' = {}
    /\ UNCHANGED got

-----------------------------------------------------------------------------
ReadsInit == Init /\ ask = None /\ stage = "idle" /\ got = None /\ reply = None /\ past = {}

Write ==
    /\ Next
    /\ past' = IF Running THEN past \cup {[bal |-> bal', header |-> header', lines |-> lines']}
                          ELSE past
    /\ UNCHANGED readVars

Read ==
    /\ \/ Begin \/ BatchATP \/ ActiveWarehouseBalances \/ TrackedSKUs
       \/ LoadHeader \/ LoadReservationLines \/ ReadFails \/ Collect
    /\ UNCHANGED vars

ReadsNext == Write \/ Read

ReadsSpec == ReadsInit /\ [][ReadsNext]_<<vars, readVars, past>>

-----------------------------------------------------------------------------
(* Properties *)

Told(rpc) == stage = "done" /\ ask.rpc = rpc

\* The units of s a table lets Reserve promise, counted one by one.
Promisable(b, s) ==
    Cardinality({u \in Active \X (1..MaxBigint) :
                    u[2] + b[<<s, u[1]>>].reserved + b[<<s, u[1]>>].safety <= b[<<s, u[1]>>].onHand})

\* "Available-to-promise is always derived": the units quoted for a whole batch
\* were all promisable at one and the same moment of the call.
QuotesWereTrue ==
    Told("batch") =>
        \E t \in past : \A s \in ask.skus :
            reply[s].atp > 0 => reply[s].atp = Promisable(t.bal, s)

\* "A SKU tracked NOWHERE goes to UnknownSKUIDs": unknown is said, by either
\* RPC, only of a SKU without a row in any warehouse at every moment of the call.
UnknownHadNoRow ==
    /\ Told("batch") => \A s \in ask.skus : reply[s].status = "unknown" =>
                            \A t \in past : s \notin Tracked(t.bal)
    /\ Told("check") => \A s \in reply.unknown : \A t \in past : s \notin Tracked(t.bal)

\* The checkout gate agrees with what Reserve would have decided at some moment
\* of the call, and a "no" names a line and the units its baseline had then.
CheckMatchedReserve ==
    Told("check") =>
        \E t \in past :
            /\ reply.can <=> \E w \in Active : FulfillsLines(t.bal, w, ask.payload)
            /\ ~reply.can => DOMAIN reply.shortages \cup reply.unknown # {}
            /\ \A s \in DOMAIN reply.shortages, w \in Base :
                  reply.shortages[s] = ATP(t.bal[<<s, w>>])

\* "Lines are immutable after Reserve commits, so the two reads need no
\* transaction": status and lines belong to one moment of the call.
ReservationWasReal ==
    Told("get") =>
        \E t \in past :
            IF ~reply.found THEN t.header[ask.id] = NoHeader
            ELSE /\ t.header[ask.id] # NoHeader
                 /\ reply.status = t.header[ask.id].status
                 /\ reply.order = t.header[ask.id].order
                 /\ reply.lines = t.lines[ask.id]

\* StatusUnknown: "Per contract it is never fabricated into OUT_OF_STOCK", which
\* means "inventory knows it, and nothing is promisable": so at some moment of
\* the call the SKU had a row and no unit to promise.
OutOfStockWasReal ==
    Told("batch") =>
        \A s \in ask.skus : reply[s].status = "out_of_stock" =>
            \E t \in past : s \in Tracked(t.bal) /\ Promisable(t.bal, s) = 0
=============================================================================
