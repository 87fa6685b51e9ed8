------------------------------- MODULE Stock -------------------------------
(***************************************************************************)
(* The data of the inventory service: the schema of db/migrations, the     *)
(* calls a client can make, and the arithmetic the Go code and its SQL     *)
(* statements perform on one balance row.  No state and no steps: the      *)
(* modules that do have state extend this one.                             *)
(*                                                                         *)
(* SKUs and warehouses are naturals because the code orders them           *)
(* (ORDER BY warehouse_id, sku_id).  A payload stands for what the         *)
(* canonical request hash identifies: aggregated lines and a destination.  *)
(***************************************************************************)
EXTENDS Integers, FiniteSets

CONSTANTS
    SKU,            \* sku ids, by rank in the collation order
    Warehouse,      \* warehouse ids (BIGSERIAL)
    Active,         \* the warehouses whose status is 'active'
    ReservationId,  \* reservation ids the callers use
    OrderId,        \* order ids the callers use
    Payload,        \* request bodies with pairwise different canonical hashes
    Items,          \* Items[pl][s]: units of s in payload pl, 0 when not a line
    CommandId,      \* admin command ids
    Actor,          \* who issues a command and why (actor and reason columns)
    Calls,          \* the calls clients make
    Seeded,         \* the balance rows before the first call
    MaxBigint,      \* the largest BIGINT
    None            \* an absent value (SQL NULL)

Row == SKU \X Warehouse

Balance == [live: BOOLEAN, onHand: Nat, reserved: Nat, safety: Nat]

NoBalance == [live |-> FALSE, onHand |-> 0, reserved |-> 0, safety |-> 0]

Status == {"none", "reserved", "committed", "released", "expired"}

Header == [status: Status, order: OrderId \cup {None},
           payload: Payload \cup {None}]

NoHeader == [status |-> "none", order |-> None, payload |-> None]

\* The CHECK constraints of inventory_balances, with the range of a BIGINT.
SchemaChecks(b) ==
    /\ b.onHand \in 0..MaxBigint
    /\ b.reserved >= 0
    /\ b.safety >= 0
    /\ b.reserved <= b.onHand

-----------------------------------------------------------------------------
(* Calls *)

CommandOp == {"receive", "adjust", "safety"}

ReserveCall == [op: {"reserve"}, id: ReservationId, order: OrderId,
                payload: Payload]

TransitionCall == [op: {"release", "commit"}, id: ReservationId]

\* A StockCommand that passes Validate and the quantity test of its method.
CommandCall ==
    {c \in [op: CommandOp, cmd: CommandId, sku: SKU, wh: Warehouse,
            qty: Int, by: Actor] :
        /\ c.op = "receive" => c.qty > 0
        /\ c.op = "adjust" => c.qty # 0
        /\ c.op = "safety" => c.qty >= 0}

Call == ReserveCall \cup TransitionCall \cup CommandCall

\* Lines asked for by a payload, and whether stock in one warehouse covers them.
Requested(pl) == {s \in SKU : Items[pl][s] > 0}

-----------------------------------------------------------------------------
(* Arithmetic on one balance row *)

\* Mutant of ATP: forgets the safety stock.
ATPIgnoringSafety(b) == IF b.live THEN b.onHand - b.reserved ELSE 0

\* GREATEST(0, on_hand - reserved - safety_stock); 0 when there is no row.
ATP(b) ==
    IF b.live /\ b.onHand > b.reserved + b.safety
    THEN b.onHand - b.reserved - b.safety
    ELSE 0

\* fulfillsLines on the rows of warehouse w.
FulfillsLines(bs, w, pl) ==
    \A s \in Requested(pl) : ATP(bs[<<s, w>>]) >= Items[pl][s]

\* TrackedSKUs: the SKUs with a balance row in any warehouse, active or not.
Tracked(bs) == {s \in SKU : \E w \in Warehouse : bs[<<s, w>>].live}

\* What Reserve, Release and Commit do to the balance row of a line of q units.
LineEffect(op, b, q) ==
    CASE op = "reserve" -> [b EXCEPT !.reserved = @ + q]
      [] op = "release" -> [b EXCEPT !.reserved = @ - q]
      [] op = "commit"  -> [b EXCEPT !.onHand = @ - q, !.reserved = @ - q]

\* What a stock command does to its balance row.
CommandEffect(c, b) ==
    CASE c.op = "receive" /\ ~b.live ->
            [live |-> TRUE, onHand |-> c.qty, reserved |-> 0, safety |-> 0]
      [] c.op = "receive" /\ b.live -> [b EXCEPT !.onHand = @ + c.qty]
      [] c.op = "adjust" -> [b EXCEPT !.onHand = @ + c.qty]
      [] c.op = "safety" -> [b EXCEPT !.safety = c.qty]

-----------------------------------------------------------------------------
(* Ledger rows.  key is command_id: `res:<id>:<sku>` and its two siblings  *)
(* for a reservation line, the caller's command_id for a stock command.    *)

\* Mutant of LineMove: a sale recorded without its reserved delta.
LineMoveSaleOnHandOnly(op, r, x, q) ==
    [key |-> <<op, r, x[1]>>, row |-> x, type |-> op, by |-> None,
     onHand |-> IF op = "commit" THEN -q ELSE 0,
     reserved |-> CASE op = "reserve" -> q [] op = "release" -> -q [] OTHER -> 0]

LineMove(op, r, x, q) ==
    [key |-> <<op, r, x[1]>>, row |-> x, type |-> op, by |-> None,
     onHand |-> IF op = "commit" THEN -q ELSE 0,
     reserved |-> IF op = "reserve" THEN q ELSE -q]

\* One ledger row per line; ls[x] is the quantity of the line at row x, 0 for none.
LineMoves(op, r, ls) == {LineMove(op, r, x, ls[x]) : x \in {y \in Row : ls[y] > 0}}

\* SET_SAFETY_STOCK writes zero deltas: its quantity is not in the ledger.
CommandMove(c) ==
    [key |-> <<"command", c.cmd, None>>, row |-> <<c.sku, c.wh>>,
     type |-> c.op, by |-> c.by,
     onHand |-> IF c.op = "safety" THEN 0 ELSE c.qty, reserved |-> 0]

Movement == [key: {"reserve", "release", "commit"} \X ReservationId \X SKU
                  \cup {"command"} \X CommandId \X {None},
             row: Row, type: {"reserve", "release", "commit"} \cup CommandOp,
             by: Actor \cup {None}, onHand: Int, reserved: Int]

-----------------------------------------------------------------------------
\* What the constants must be for the definitions above to make sense.
ASSUME StockAssumption ==
    /\ SKU \subseteq Nat /\ IsFiniteSet(SKU)
    /\ Warehouse \subseteq Nat /\ IsFiniteSet(Warehouse)
    /\ Active \subseteq Warehouse
    /\ IsFiniteSet(ReservationId)
    /\ MaxBigint \in Nat
    /\ Items \in [Payload -> [SKU -> 0..MaxBigint]]
    /\ Calls \subseteq Call
    /\ None \notin OrderId \cup Payload \cup Warehouse \cup Actor
    /\ \A c \in Calls : c.op \in CommandOp => c.qty \in (-MaxBigint)..MaxBigint
    /\ Seeded \in [Row -> Balance]
    /\ \A x \in Row : SchemaChecks(Seeded[x]) /\ Seeded[x].reserved = 0
    /\ \A x \in Row : ~Seeded[x].live => Seeded[x] = NoBalance
=============================================================================
