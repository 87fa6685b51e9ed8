--------------------------- MODULE MCCallHistory ---------------------------
(***************************************************************************)
(* Calls for CallHistory, on the constants of MCInventoryTx.               *)
(***************************************************************************)
EXTENDS MCInventoryTx, CallHistory

\* One command id, two safety quantities.
SafetyCalls == {Command("safety", k1, 1, 1, 0), Command("safety", k1, 1, 1, 1)}

RivalCalls == {Reserve(r1, o1, single), Reserve(r2, o2, single)}
=============================================================================
