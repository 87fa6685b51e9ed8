-------------------------- MODULE MCAdminCommands --------------------------
(* One row that two receipts may create and that overflows by both, a
   write-off by another operator under the id of one, an order that holds a
   unit, a reason that ends in blanks beyond its column, and bodies that no
   attempt can book: an unknown warehouse, a reason that is too long, no
   quantity. *)
EXTENDS AdminCommands

CONSTANTS c1, c2, c3, ann, bob, essay, padded, cut

OneItem == [pl \in Payload |-> [s \in SKU |-> 1]]
NoRows == [x \in Row |-> NoBalance]

MCColumn == [a \in Actor |-> CASE a = padded -> cut [] a = essay -> None [] OTHER -> a]

Body(op, cmd, wh, qty, by) ==
    [op |-> op, cmd |-> cmd, sku |-> 1, wh |-> wh, qty |-> qty, by |-> by]

MCPosts == {Body("receive", c1, 1, 1, ann), Body("receive", c2, 1, 2, padded),
            Body("adjust", c2, 1, -1, ann), Body("adjust", c2, 2, 1, bob),
            Body("receive", c3, 1, 1, essay), Body("adjust", c3, 1, 0, bob)}

\* The order is there to hold a unit when a write-off comes.
OtherCalls ==
    [op: {"reserve"}, id: ReservationId, order: OrderId, payload: Payload]
=============================================================================
