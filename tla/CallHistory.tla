---------------------------- MODULE CallHistory ----------------------------
(***************************************************************************)
(* InventoryTx with two history variables, for promises about what was     *)
(* true during a call and not only when it ends.                           *)
(***************************************************************************)
EXTENDS InventoryTx

VARIABLES
    took,    \* the stock commands that took effect
    could    \* active warehouses able to fulfil p's basket ever since p's call began

histVars == <<vars, took, could>>

Able(bs, pl) == {w \in Active : FulfillsLines(bs, w, pl)}

HistInit == Init /\ took = {} /\ could = [p \in Proc |-> {}]

\* The commands whose COMMIT is this step.
Taking == {call[p] : p \in {q \in Proc : /\ pc[q] = "write" /\ pc'[q] = "done"
                                         /\ call[q].op \in CommandOp
                                         /\ ledger' # ledger}}

HistNext ==
    /\ Next
    /\ took' = took \cup Taking
    /\ could' = [p \in Proc |->
          IF pc'[p] = "idle" THEN {}
          ELSE IF call'[p].op # "reserve" \/ pc[p] = "done" THEN could[p]
          ELSE IF pc[p] = "idle" THEN Able(bal', call'[p].payload)
          ELSE could[p] \cap Able(bal', call'[p].payload)]

HistSpec == HistInit /\ [][HistNext]_histVars

-----------------------------------------------------------------------------
(* Properties *)

\* claimCommand: "A different command reusing the key returns
\* domain.ErrCommandConflict", so an idempotent replay (applied = false, no
\* error) is reported only to a command that did take effect.
ReplayIsTheSameCommand ==
    \A p \in Proc : pc[p] = "done" /\ answer[p] = "replayed" => call[p] \in took

\* Reserve: "A basket no single active warehouse can fulfill returns
\* domain.ErrInsufficientStock": no warehouse was able to all along.
InsufficientIsReal ==
    \A p \in Proc : pc[p] = "done" /\ answer[p] = "insufficient" => could[p] = {}
=============================================================================
