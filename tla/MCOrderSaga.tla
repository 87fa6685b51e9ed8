---------------------------- MODULE MCOrderSaga ----------------------------
(* Values of the constants of OrderSaga: one SKU, stock for one order. *)
EXTENDS OrderSaga

CONSTANTS r1, r2, o1, basket, alice, c1, c2

MCItems == [pl \in Payload |-> [s \in SKU |-> 2]]
MCSeeded == [x \in Row |-> [live |-> TRUE, onHand |-> 3, reserved |-> 0, safety |-> 0]]

\* Two workflows that use one order.
MCSagaCall == [r \in ReservationId |->
    [op |-> "reserve", id |-> r, order |-> o1, payload |-> basket]]

Command(op, c, q) == [op |-> op, cmd |-> c, sku |-> 1, wh |-> 1, qty |-> q, by |-> alice]

\* Stock that is short for a while.
MCCalls == {Command("adjust", c1, -2), Command("receive", c2, 2)}
=============================================================================
