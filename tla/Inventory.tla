----------------------------- MODULE Inventory -----------------------------
(***************************************************************************)
(* What the inventory service promises, stated without transactions: each  *)
(* call that changes stock takes effect in one atomic step on the four     *)
(* tables.  Calls that change nothing (replays, refusals, reads) are       *)
(* stuttering steps.  InventoryTx shows that the SQL transactions of       *)
(* internal/core/repository implement this specification.                  *)
(***************************************************************************)
EXTENDS Stock

VARIABLES
    bal,      \* inventory_balances, one row per (sku, warehouse)
    header,   \* inventory_reservations
    lines,    \* inventory_reservation_lines: lines[r][x], 0 for no line
    ledger    \* inventory_movements

vars == <<bal, header, lines, ledger>>

NoLines == [x \in Row |-> 0]

\* A whole payload is held in one warehouse (v1 policy).
Alloc(pl, w) == [x \in Row |-> IF x[2] = w THEN Items[pl][x[1]] ELSE 0]

Init ==
    /\ bal = Seeded
    /\ header = [r \in ReservationId |-> NoHeader]
    /\ lines = [r \in ReservationId |-> NoLines]
    /\ ledger = {}

-----------------------------------------------------------------------------
\* Apply op to the balance rows and the ledger for the lines ls of reservation r.
MoveStock(op, r, ls) ==
    /\ bal' = [x \in Row |-> IF ls[x] > 0 THEN LineEffect(op, bal[x], ls[x])
                                          ELSE bal[x]]
    /\ ledger' = ledger \cup LineMoves(op, r, ls)

\* Mutant of Reserve: the header is not inserted with ON CONFLICT DO NOTHING
\* but overwritten.
ReserveOverwriting(c) ==
    /\ \A r \in ReservationId \ {c.id} : header[r].order # c.order
    /\ \E w \in Active :
          /\ FulfillsLines(bal, w, c.payload)
          /\ lines' = [lines EXCEPT ![c.id] = Alloc(c.payload, w)]
          /\ MoveStock("reserve", c.id, Alloc(c.payload, w))
    /\ header' = [header EXCEPT ![c.id] = [status |-> "reserved",
                                           order |-> c.order,
                                           payload |-> c.payload]]

\* A fresh Reserve: id and order are unused and one active warehouse covers
\* every line.
Reserve(c) ==
    /\ header[c.id].status = "none"
    /\ \A r \in ReservationId : header[r].order # c.order
    /\ \E w \in Active :
          /\ FulfillsLines(bal, w, c.payload)
          /\ lines' = [lines EXCEPT ![c.id] = Alloc(c.payload, w)]
          /\ MoveStock("reserve", c.id, Alloc(c.payload, w))
    /\ header' = [header EXCEPT ![c.id] = [status |-> "reserved",
                                           order |-> c.order,
                                           payload |-> c.payload]]

\* Every line of reservation r can be moved without tripping a CHECK.
CanSettle(op, r) ==
    \A x \in Row : lines[r][x] > 0 =>
        bal[x].live /\ SchemaChecks(LineEffect(op, bal[x], lines[r][x]))

Target(op) == IF op = "commit" THEN "committed" ELSE "released"

\* Mutant of Transition: decide lets a committed sale be released.
TransitionFromAnyHold(c) ==
    /\ header[c.id].status \in {"reserved", "committed"}
    /\ header[c.id].status # Target(c.op)
    /\ CanSettle(c.op, c.id)
    /\ MoveStock(c.op, c.id, lines[c.id])
    /\ header' = [header EXCEPT ![c.id].status = Target(c.op)]
    /\ UNCHANGED lines

\* Release and Commit of a reserved reservation.
Transition(c) ==
    /\ header[c.id].status = "reserved"
    /\ CanSettle(c.op, c.id)
    /\ MoveStock(c.op, c.id, lines[c.id])
    /\ header' = [header EXCEPT ![c.id].status = Target(c.op)]
    /\ UNCHANGED lines

\* Mutant of StockCommand: the schema's CHECKs are gone.
StockCommandUnchecked(c) ==
    LET x == <<c.sku, c.wh>> IN
    /\ \A m \in ledger : m.key # CommandMove(c).key
    /\ c.op = "receive" \/ bal[x].live
    /\ bal' = [bal EXCEPT ![x] = CommandEffect(c, bal[x])]
    /\ ledger' = ledger \cup {CommandMove(c)}
    /\ UNCHANGED <<header, lines>>

\* ReceiveStock, AdjustOnHand and SetSafetyStock under an unused command id.
StockCommand(c) ==
    LET x == <<c.sku, c.wh>> IN
    /\ \A m \in ledger : m.key # CommandMove(c).key
    /\ c.op = "receive" \/ bal[x].live
    /\ SchemaChecks(CommandEffect(c, bal[x]))
    /\ bal' = [bal EXCEPT ![x] = CommandEffect(c, bal[x])]
    /\ ledger' = ledger \cup {CommandMove(c)}
    /\ UNCHANGED <<header, lines>>

Next ==
    \E c \in Calls :
        \/ c.op = "reserve" /\ Reserve(c)
        \/ c.op \in {"release", "commit"} /\ Transition(c)
        \/ c.op \in CommandOp /\ StockCommand(c)

Spec == Init /\ [][Next]_vars

-----------------------------------------------------------------------------
(* Properties *)

\* The tables hold values of their column types.
TypeOK ==
    /\ bal \in [Row -> Balance]
    /\ header \in [ReservationId -> Header]
    /\ lines \in [ReservationId -> [Row -> 0..MaxBigint]]
    /\ ledger \subseteq Movement

\* The units of row x held by open reservations, one element per unit.
HeldUnits(x) ==
    {u \in ReservationId \X (1..MaxBigint) :
        header[u[1]].status = "reserved" /\ u[2] <= lines[u[1]][x]}

\* inventory_balances.reserved is exactly the sum of the lines of the
\* reservations whose status is reserved: Reserve, Release and Commit change
\* the counter and the status together, and no stock command touches it.
ReservedIsHeld == \A x \in Row : bal[x].reserved = Cardinality(HeldUnits(x))

\* A ledger column and its negation, and the units a column adds to row x, one
\* element per unit.
OnHandUp == [m \in ledger |-> m.onHand]
OnHandDown == [m \in ledger |-> -m.onHand]
ReservedUp == [m \in ledger |-> m.reserved]
ReservedDown == [m \in ledger |-> -m.reserved]

Units(delta, x) ==
    {u \in (DOMAIN delta) \X (1..MaxBigint) : u[1].row = x /\ u[2] <= delta[u[1]]}

\* Replaying the append-only ledger on the seeded rows gives the balances: no
\* path changes on_hand or reserved without its movement, or twice for one.
LedgerReplays ==
    \A x \in Row :
        /\ bal[x].onHand + Cardinality(Units(OnHandDown, x))
              = Seeded[x].onHand + Cardinality(Units(OnHandUp, x))
        /\ bal[x].reserved + Cardinality(Units(ReservedDown, x))
              = Seeded[x].reserved + Cardinality(Units(ReservedUp, x))

\* Whatever receives, adjustments and safety stock changes came after it, a
\* hold can always be released or committed: the transition's UPDATEs never
\* meet a missing row or a CHECK (release balance / commit balance errors).
HoldsCanSettle ==
    \A r \in ReservationId : header[r].status = "reserved" =>
        CanSettle("release", r) /\ CanSettle("commit", r)

MovesOf(r) == {m \in ledger : m.key[1] # "command" /\ m.key[2] = r}

\* The ledger rows of a reservation are those of its status, no more, no
\* fewer: a sale is never also a release, no line is moved twice.
OnceEffect ==
    \A r \in ReservationId : MovesOf(r) =
        CASE header[r].status = "reserved" -> LineMoves("reserve", r, lines[r])
          [] header[r].status \in {"committed", "released"} ->
                LineMoves("reserve", r, lines[r])
                \cup LineMoves(IF header[r].status = "committed" THEN "commit"
                               ELSE "release", r, lines[r])
          [] OTHER -> {}

\* What a client was told stays so: a header keeps its order and payload, a
\* settled one its status, lines are immutable ("Lines are immutable after
\* Reserve commits"), and the ledger only grows.
HistoryIsKept ==
    [][/\ ledger \subseteq ledger'
       /\ \A r \in ReservationId : header[r].status # "none" =>
             /\ lines'[r] = lines[r]
             /\ header'[r].order = header[r].order
             /\ header'[r].payload = header[r].payload
             /\ header[r].status # "reserved" => header'[r] = header[r]]_vars

\* "The locked read is the correctness gate": a hold is only ever taken from
\* stock that is on hand, not held by another and above the safety stock.
HoldsLeaveSafetyStock ==
    [][\A x \in Row : bal'[x].reserved > bal[x].reserved =>
          /\ bal[x].live
          /\ bal'[x].reserved + bal[x].safety <= bal[x].onHand]_vars
=============================================================================
