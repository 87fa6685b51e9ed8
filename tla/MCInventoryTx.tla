--------------------------- MODULE MCInventoryTx ---------------------------
(***************************************************************************)
(* Values of the constants of InventoryTx for TLC: stock enough for one of *)
(* two competing orders, and calls that race, repeat and contradict each   *)
(* other.                                                                  *)
(***************************************************************************)
EXTENDS InventoryTx, TLC

CONSTANTS p1, p2, p3, r1, r2, o1, o2, pair, single, k1, k2, alice

Symmetry == Permutations(Proc)

\* pair is one unit of each SKU, single one unit of SKU 1.
MCItems == [pl \in Payload |-> [s \in SKU |-> IF pl = pair \/ s = 1 THEN 1 ELSE 0]]

InStock(n, safe) == [live |-> TRUE, onHand |-> n, reserved |-> 0, safety |-> safe]

\* One unit of each SKU in every warehouse.
OneEach == [x \in Row |-> InStock(1, 0)]

\* SKU 1 in warehouse 1 only, SKU 2 nowhere: rows a receive has to create.
Sparse == [x \in Row |-> IF x = <<1, 1>> THEN InStock(1, 0) ELSE NoBalance]

Reserve(r, o, pl) == [op |-> "reserve", id |-> r, order |-> o, payload |-> pl]
Release(r) == [op |-> "release", id |-> r]
Commit(r) == [op |-> "commit", id |-> r]
Command(op, k, s, w, q) ==
    [op |-> op, cmd |-> k, sku |-> s, wh |-> w, qty |-> q, by |-> alice]

\* Two orders compete for one pair: a divergent retry of the first, an order
\* reused under another id, both ways to settle, and a receipt and a write-off
\* under one command id.
RaceCalls ==
    {Reserve(r1, o1, pair), Reserve(r1, o1, single), Reserve(r2, o2, pair),
     Reserve(r2, o1, pair), Release(r1), Commit(r1), Command("receive", k1, 1, 1, 1),
     Command("adjust", k1, 1, 1, -1)}

\* Commands that create rows, empty them, overflow them, set stock aside and
\* reuse a command id, beside reservations of what they change.
StockCalls ==
    {Command("receive", k1, 2, 1, 1), Command("adjust", k1, 2, 1, 1),
     Command("receive", k2, 2, 1, 2), Command("adjust", k2, 1, 1, -2),
     Command("adjust", k2, 1, 1, 2), Command("safety", k2, 1, 1, 1),
     Command("receive", k1, 1, 2, 1),
     Reserve(r1, o1, pair), Reserve(r2, o2, single), Commit(r2)}
=============================================================================
