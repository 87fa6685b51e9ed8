----------------------------- MODULE OrderSaga -----------------------------
(***************************************************************************)
(* The service as an order workflow sees it over gRPC: Reserve, then       *)
(* Commit after payment or Release as compensation, with requests that are *)
(* lost, delayed, retried and executed twice, and answers that get lost.   *)
(* The handlers of internal/grpc/v1 are the atomic steps of Inventory with *)
(* the status or code they answer.  The workflow and the reconciler live   *)
(* in another repository: they are modelled from what the comments of this *)
(* one require of them.                                                    *)
(***************************************************************************)
EXTENDS Inventory

CONSTANT SagaCall    \* the Reserve of the workflow that uses reservation id r

ASSUME SagaAssumption ==
    /\ SagaCall \in [ReservationId -> ReserveCall]
    /\ \A r \in ReservationId : SagaCall[r].id = r

VARIABLES
    step,    \* where the workflow of reservation r is
    net,     \* requests that may still reach the server
    final    \* the row Release was last answered on (history)

sagaVars == <<vars, step, net, final>>

Request == [op: {"reserve", "commit", "release"}, id: ReservationId]
Req(op, r) == [op |-> op, id |-> r]

\* The call a workflow is waiting for, if any.
Pending(r) ==
    CASE step[r] = "reserving" -> {Req("reserve", r)}
      [] step[r] = "committing" -> {Req("commit", r)}
      [] step[r] = "releasing" -> {Req("release", r)}
      [] OTHER -> {}

SagaInit ==
    /\ Init
    /\ step = [r \in ReservationId |-> "new"]
    /\ net = {} /\ final = [r \in ReservationId |-> "none"]

-----------------------------------------------------------------------------
(* The server: each handler changes the tables and gives the answer a *)

ReserveAnswers(r, a) ==
    \/ Reserve(SagaCall[r]) /\ a = "reserved"
    \/ /\ UNCHANGED vars
       /\ \/ header[r] # NoHeader /\ a = header[r].status
          \/ /\ header[r] = NoHeader
             /\ \E q \in ReservationId : header[q].order = SagaCall[r].order
             /\ a = "already_exists"
          \/ /\ header[r] = NoHeader
             /\ \A w \in Active : ~FulfillsLines(bal, w, SagaCall[r].payload)
             /\ a = "failed_precondition"

\* Mutants of NoOp: a repeated Commit is an error; so is a Release that finds
\* nothing.
NoOpNotRepeated(op, status) ==
    IF status = "none" THEN (IF op = "release" THEN "released" ELSE "not_found")
    ELSE "failed_precondition"
NoOpNeedsRow(op, status) ==
    CASE status = "none" -> "not_found"
      [] status = Target(op) -> status
      [] OTHER -> "failed_precondition"

\* Release and Commit on any status but reserved.
NoOp(op, status) ==
    CASE status = "none" -> IF op = "release" THEN "released" ELSE "not_found"
      [] status = Target(op) -> status
      [] OTHER -> "failed_precondition"

\* Mutant of TransitionAnswers: a Release is answered without looking.
TransitionAnswersBlindly(op, r, a) ==
    \/ op = "commit" /\ Transition(Req(op, r)) /\ a = Target(op)
    \/ op = "commit" /\ header[r].status # "reserved" /\ a = NoOp(op, header[r].status)
       /\ UNCHANGED vars
    \/ op = "release" /\ a = "released" /\ UNCHANGED vars

TransitionAnswers(op, r, a) ==
    \/ Transition(Req(op, r)) /\ a = Target(op)
    \/ header[r].status # "reserved" /\ a = NoOp(op, header[r].status) /\ UNCHANGED vars

\* What the workflow does with the answer to the call it is waiting for.
Conclude(op, a) ==
    CASE op = "reserve" /\ a = "reserved" -> "reserved"
      [] op = "reserve" /\ a \in {"already_exists", "failed_precondition"} -> "declined"
      [] op = "commit" /\ a = "committed" -> "confirmed"
      [] op = "release" /\ a = "released" -> "cancelled"
      [] OTHER -> "alarm"

\* The server runs request m; the caller gets the answer if told and waiting
\* for it, and m may be run again if kept.
Serve(m, told, kept) ==
    \E a \in Status \cup {"already_exists", "failed_precondition", "not_found"} :
        /\ IF m.op = "reserve" THEN ReserveAnswers(m.id, a)
           ELSE TransitionAnswers(m.op, m.id, a)
        /\ step' = IF told /\ m \in Pending(m.id)
                   THEN [step EXCEPT ![m.id] = Conclude(m.op, a)] ELSE step
        /\ final' = IF told /\ m \in Pending(m.id) /\ m.op = "release"
                    THEN [final EXCEPT ![m.id] = header'[m.id].status] ELSE final
        /\ net' = IF kept THEN net ELSE net \ {m}

\* Lost on the way, or failed with a retryable code and no effect.
Lose(m) == net' = net \ {m} /\ UNCHANGED <<vars, step, final>>

-----------------------------------------------------------------------------
(* The workflow *)

\* Move on and send the call that the new step waits for.
Go(r, from, to, op) ==
    /\ step[r] = from
    /\ step' = [step EXCEPT ![r] = to]
    /\ net' = net \cup {Req(op, r)}
    /\ UNCHANGED <<vars, final>>

Start(r) == Go(r, "new", "reserving", "reserve")
GiveUp(r) == Go(r, "reserving", "releasing", "release")
Settle(r) ==
    \/ Go(r, "reserved", "committing", "commit")
    \/ Go(r, "reserved", "releasing", "release")

\* A timeout: the pending call is sent again.
Retry(r) ==
    /\ Pending(r) # {} /\ ~(Pending(r) \subseteq net)
    /\ net' = net \cup Pending(r)
    /\ UNCHANGED <<vars, step, final>>

\* "the order-domain reconciler owns that seam": an order that is over is
\* released again when GetReservation still shows a hold.
Reconcile(r) ==
    /\ step[r] \in {"cancelled", "declined"} /\ header[r].status = "reserved"
    /\ step' = [step EXCEPT ![r] = "releasing"]
    /\ net' = net \cup {Req("release", r)}
    /\ UNCHANGED <<vars, final>>

\* Operators receive and adjust stock meanwhile.
Operate == \E c \in Calls : c.op \in CommandOp /\ StockCommand(c)
                            /\ UNCHANGED <<step, net, final>>

Work(r) == Start(r) \/ GiveUp(r) \/ Settle(r) \/ Retry(r) \/ Reconcile(r)

SagaNext ==
    \/ \E m \in net : Lose(m) \/ \E told, kept \in BOOLEAN : Serve(m, told, kept)
    \/ \E r \in ReservationId : Work(r)
    \/ Operate

SagaSpec == SagaInit /\ [][SagaNext]_sagaVars

\* The workflow engine retries until it is answered and the network lets an
\* answered call through once it is sent often enough; a workflow need not
\* start, and nothing says that a Reserve ever arrives.
SagaFairness ==
    \A r \in ReservationId :
        /\ WF_sagaVars(Settle(r)) /\ WF_sagaVars(Retry(r)) /\ WF_sagaVars(Reconcile(r))
        /\ \A op \in {"commit", "release"} :
              SF_sagaVars(Req(op, r) \in net /\ Serve(Req(op, r), TRUE, FALSE))

FairSagaSpec == SagaSpec /\ SagaFairness

-----------------------------------------------------------------------------
(* Properties *)

\* Every variable has a value of its type.
SagaTypeOK ==
    /\ TypeOK
    /\ step \in [ReservationId -> {"new", "reserving", "reserved", "declined",
                                   "committing", "confirmed", "releasing",
                                   "cancelled", "alarm"}]
    /\ net \subseteq Request
    /\ final \in [ReservationId -> Status]

\* A call the workflow may have to repeat is never refused because it took
\* effect before, or because the Reserve it undoes never did.
NeverRefused == \A r \in ReservationId : step[r] # "alarm"

\* What the workflow concluded is so: a confirmed order is sold, an order that
\* was never confirmed is not, whatever late or repeated requests arrive.
SoldIffConfirmed ==
    \A r \in ReservationId :
        /\ step[r] = "confirmed" => header[r].status = "committed"
        /\ header[r].status = "committed" => step[r] \in {"committing", "confirmed"}

\* Release answered on a row is final: a hold without an order comes only from
\* a Reserve that was declined, or that Release overtook ("if that Reserve
\* lands later it creates an orphaned hold this call never saw").
ReleaseIsFinal ==
    \A r \in ReservationId : final[r] # "none" => header[r].status = "released"

\* "a confirmed order must converge to COMMITTED", and a compensation ends.
SagasSettle ==
    \A r \in ReservationId :
        /\ step[r] = "committing" ~> step[r] = "confirmed"
        /\ step[r] = "releasing" ~> step[r] = "cancelled"

\* No hold lasts for ever, orphaned ones included.
HoldsEnd ==
    \A r \in ReservationId :
        header[r].status = "reserved" /\ step[r] # "reserving"
            ~> header[r].status # "reserved"
=============================================================================
