------------------------------ MODULE MCReads ------------------------------
(***************************************************************************)
(* Values of the constants of Reads for TLC: SKU 1 in both active          *)
(* warehouses, SKU 2 at first in the inactive one only, SKU 3 nowhere, and *)
(* writers that create rows, hold and return stock and fence it off.       *)
(***************************************************************************)
EXTENDS Reads

CONSTANTS o1, o2, pair, most, k1, k2, k3, alice, r1, r2

\* pair is a unit of SKU 1 and of SKU 2, most is three units of SKU 1.
MCItems == [pl \in Payload |->
    [s \in SKU |-> IF pl = pair THEN (IF s < 3 THEN 1 ELSE 0)
                                ELSE (IF s = 1 THEN 3 ELSE 0)]]

InStock(n, safe) == [live |-> TRUE, onHand |-> n, reserved |-> 0, safety |-> safe]

MCSeeded == [x \in Row |->
    CASE x = <<1, 1>> -> InStock(4, 0)
      [] x = <<1, 2>> -> InStock(2, 0)
      [] x = <<2, 3>> -> InStock(2, 0)
      [] OTHER -> NoBalance]

Command(op, k, s, w, q) ==
    [op |-> op, cmd |-> k, sku |-> s, wh |-> w, qty |-> q, by |-> alice]

MCCalls ==
    {[op |-> "reserve", id |-> r1, order |-> o1, payload |-> pair],
     [op |-> "reserve", id |-> r2, order |-> o2, payload |-> pair],
     [op |-> "reserve", id |-> r2, order |-> o2, payload |-> most],
     [op |-> "release", id |-> r1],
     [op |-> "commit", id |-> r1], [op |-> "commit", id |-> r2],
     Command("receive", k1, 2, 1, 2), Command("receive", k1, 1, 1, 1),
     Command("receive", k2, 3, 2, 1), Command("safety", k3, 1, 1, 5),
     Command("adjust", k3, 1, 1, -2)}

MCAsks ==
    [rpc : {"batch"}, skus : {SKU}] \cup [rpc : {"check"}, payload : Payload]
    \cup [rpc : {"get"}, id : {r1, r2}]

\* Enough for a SKU that is received while it is asked about.
ReceiveCalls == {Command("receive", k1, 2, 1, 1), Command("receive", k2, 3, 2, 1)}
=============================================================================
