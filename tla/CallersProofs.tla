---------------------------- MODULE CallersProofs ----------------------------
(***************************************************************************)
(* Theorems about the two callers that change stock over an unreliable     *)
(* network: order workflows (OrderSaga) and operators (AdminCommands), for *)
(* every number of orders, commands, retries, losses and duplicates.       *)
(***************************************************************************)
EXTENDS OrderSaga, AdminCommands, InventoryProofs

-----------------------------------------------------------------------------
(* Order workflows: the inductive invariant *)

StepName == {"new", "reserving", "reserved", "declined", "committing",
             "confirmed", "releasing", "cancelled"}

\* A status other than none goes with a row, and the other way round.
HeaderOK(r) == header[r].status = "none" <=> header[r] = NoHeader

\* Which status the reservation can have while the workflow is where it is: a
\* Reserve may land late, a Commit and a Release may not have landed yet.
WorkflowOK(r) ==
    /\ step[r] = "new" => header[r].status = "none"
    /\ step[r] \in {"reserving", "declined"} => header[r].status \in {"none", "reserved"}
    /\ step[r] = "reserved" => header[r].status = "reserved"
    /\ step[r] = "committing" => header[r].status \in {"reserved", "committed"}
    /\ step[r] = "confirmed" => header[r].status = "committed"
    /\ step[r] \in {"releasing", "cancelled"} =>
          header[r].status \in {"none", "reserved", "released"}

\* A workflow that decided to commit never sent a release, nor the other way
\* round, so no copy of the wrong one is on its way.
NetOK ==
    \A m \in net :
        /\ step[m.id] # "new"
        /\ m.op = "commit" => step[m.id] \in {"committing", "confirmed"}
        /\ m.op = "release" => step[m.id] \in {"releasing", "cancelled"}

\* Tables, workflows and network agree.
SagaInv ==
    /\ Held
    /\ SagaTypeOK
    /\ \A r \in ReservationId : step[r] # "alarm" /\ HeaderOK(r) /\ WorkflowOK(r)
    /\ NetOK
    /\ ReleaseIsFinal

-----------------------------------------------------------------------------
(* Order workflows: what the server does *)

\* A Reserve answered a: the row of r before and after.
ReserveSeen(r, a) ==
    \/ header[r].status = "none" /\ header'[r].status = "reserved" /\ a = "reserved"
    \/ header'[r] = header[r] /\ header[r].status # "none" /\ a = header[r].status
    \/ /\ header'[r] = header[r] /\ header[r].status = "none"
       /\ a \in {"already_exists", "failed_precondition"}

\* A Release or Commit answered a.
TransitionSeen(op, r, a) ==
    \/ header[r].status = "reserved" /\ header'[r].status = Target(op) /\ a = Target(op)
    \/ header'[r] = header[r] /\ header[r].status # "reserved" /\ a = NoOp(op, header[r].status)

\* The handlers are steps of the service: they keep its invariant and touch no
\* row but the one they are asked about.
LEMMA ReserveAnswersEffect ==
    ASSUME Held, NEW r \in ReservationId, HeaderOK(r), NEW a, ReserveAnswers(r, a)
    PROVE  /\ Held' /\ HeaderOK(r)'
           /\ ReserveSeen(r, a)
           /\ \A q \in ReservationId \ {r} : header'[q] = header[q]
  <1>1. SagaCall[r] \in ReserveCall /\ SagaCall[r].id = r
    BY SagaAssumption
  <1>2. CASE Reserve(SagaCall[r]) /\ a = "reserved"
    <2>1. Held'
      BY <1>1, <1>2, ReserveCore, ReserveHeld DEF Held
    <2>2. /\ header[r].status = "none"
          /\ header' = [header EXCEPT ![r] = [status |-> "reserved",
                                             order |-> SagaCall[r].order,
                                             payload |-> SagaCall[r].payload]]
      BY <1>1, <1>2 DEF Reserve
    <2>3. header \in [ReservationId -> Header]
      BY DEF Held, Core, TypeOK
    <2> QED
      BY <1>2, <2>1, <2>2, <2>3 DEF ReserveSeen, HeaderOK, NoHeader
  <1>3. CASE ~(Reserve(SagaCall[r]) /\ a = "reserved")
    <2>1. UNCHANGED vars
      BY <1>3 DEF ReserveAnswers
    <2>2. ReserveSeen(r, a)
      BY <1>3, <2>1 DEF vars, ReserveAnswers, ReserveSeen, HeaderOK
    <2> QED
      BY <2>1, <2>2, HeldStep DEF vars, HeaderOK
  <1> QED
    BY <1>2, <1>3

\* The same for Release and Commit.
LEMMA TransitionAnswersEffect ==
    ASSUME Held, NEW r \in ReservationId, HeaderOK(r), NEW op \in {"release", "commit"},
           NEW a, TransitionAnswers(op, r, a)
    PROVE  /\ Held' /\ HeaderOK(r)'
           /\ TransitionSeen(op, r, a)
           /\ \A q \in ReservationId \ {r} : header'[q] = header[q]
  <1>1. Req(op, r) \in TransitionCall /\ Req(op, r).id = r /\ Req(op, r).op = op
    BY DEF Req, TransitionCall
  <1>2. CASE Transition(Req(op, r)) /\ a = Target(op)
    <2>1. Held'
      BY <1>1, <1>2, TransitionCore, TransitionHeld DEF Held
    <2>2. /\ header[r].status = "reserved"
          /\ header' = [header EXCEPT ![r].status = Target(op)]
      BY <1>1, <1>2 DEF Transition
    <2>3. header \in [ReservationId -> Header]
      BY DEF Held, Core, TypeOK
    <2>4. header'[r].status = Target(op) /\ Target(op) # "none"
      BY <2>2, <2>3 DEF Header, Target
    <2> QED
      BY <1>2, <2>1, <2>2, <2>3, <2>4 DEF TransitionSeen, HeaderOK, NoHeader
  <1>3. CASE /\ header[r].status # "reserved" /\ a = NoOp(op, header[r].status)
             /\ UNCHANGED vars
    BY <1>3, HeldStep DEF vars, TransitionSeen, HeaderOK
  <1> QED
    BY <1>2, <1>3 DEF TransitionAnswers

\* The workflow of r hears an answer it is waiting for, and what it concludes
\* agrees with its row.
LEMMA ServeInv ==
    ASSUME SagaInv, NEW m \in net, NEW told \in BOOLEAN, NEW kept \in BOOLEAN,
           Serve(m, told, kept)
    PROVE  SagaInv'
  <1> DEFINE r == m.id
             heard == told /\ m \in Pending(m.id)
  <1>1. m \in Request /\ r \in ReservationId /\ HeaderOK(r) /\ WorkflowOK(r)
    BY DEF SagaInv, SagaTypeOK, Request
  <1>2. PICK a \in Status \cup {"already_exists", "failed_precondition", "not_found"} :
           /\ IF m.op = "reserve" THEN ReserveAnswers(m.id, a)
              ELSE TransitionAnswers(m.op, m.id, a)
           /\ step' = IF heard THEN [step EXCEPT ![r] = Conclude(m.op, a)] ELSE step
           /\ final' = IF heard /\ m.op = "release"
                       THEN [final EXCEPT ![r] = header'[r].status] ELSE final
           /\ net' = IF kept THEN net ELSE net \ {m}
    BY DEF Serve
  <1>3. /\ Held' /\ HeaderOK(r)'
        /\ IF m.op = "reserve" THEN ReserveSeen(r, a) ELSE TransitionSeen(m.op, r, a)
        /\ \A q \in ReservationId \ {r} : header'[q] = header[q]
    BY <1>1, <1>2, ReserveAnswersEffect, TransitionAnswersEffect DEF SagaInv, Request
  <1>4. header \in [ReservationId -> Header] /\ header' \in [ReservationId -> Header]
    BY <1>3 DEF SagaInv, Held, Core, TypeOK
  <1>5. heard => \/ m.op = "reserve" /\ step[r] = "reserving"
                 \/ m.op = "commit" /\ step[r] = "committing"
                 \/ m.op = "release" /\ step[r] = "releasing"
    BY DEF Pending, Req
  <1>6. heard => /\ Conclude(m.op, a) \in StepName \ {"new"}
                 /\ m.op = "reserve" =>
                      \/ Conclude(m.op, a) = "reserved" /\ header'[r].status = "reserved"
                      \/ Conclude(m.op, a) = "declined" /\ header'[r].status = "none"
                 /\ m.op = "commit" =>
                      Conclude(m.op, a) = "confirmed" /\ header'[r].status = "committed"
                 /\ m.op = "release" =>
                      /\ Conclude(m.op, a) = "cancelled"
                      /\ header'[r].status \in {"none", "released"}
    BY <1>1, <1>3, <1>5
    DEF WorkflowOK, Conclude, ReserveSeen, TransitionSeen, NoOp, Target, StepName, Request
  <1>7. ~heard /\ header'[r].status # header[r].status =>
           \/ m.op = "reserve" /\ header[r].status = "none" /\ header'[r].status = "reserved"
           \/ m.op = "commit" /\ header[r].status = "reserved" /\ header'[r].status = "committed"
           \/ m.op = "release" /\ header[r].status = "reserved" /\ header'[r].status = "released"
    BY <1>1, <1>3 DEF ReserveSeen, TransitionSeen, Target, Request
  <1>8. SagaTypeOK'
    <2>1. TypeOK'
      BY <1>3 DEF Held, Core
    <2>2. header'[r].status \in Status
      BY <1>1, <1>4 DEF Header
    <2> QED
      BY <1>2, <1>6, <2>1, <2>2 DEF SagaInv, SagaTypeOK, StepName
  <1>9. ASSUME NEW q \in ReservationId
        PROVE  step'[q] # "alarm" /\ HeaderOK(q)' /\ WorkflowOK(q)'
    <2>1. step[q] # "alarm" /\ HeaderOK(q) /\ WorkflowOK(q)
      BY DEF SagaInv
    <2>2. CASE q # r
      BY <1>2, <1>3, <2>1, <2>2 DEF SagaInv, SagaTypeOK, HeaderOK, WorkflowOK
    <2>3. CASE q = r /\ heard
      BY <1>2, <1>3, <1>5, <1>6, <2>3 DEF SagaInv, SagaTypeOK, WorkflowOK, StepName, Request
    <2>4. CASE q = r /\ ~heard
      <3>1. step' = step
        BY <1>2, <2>4
      <3>2. /\ step[r] # "new"
            /\ m.op = "commit" => step[r] \in {"committing", "confirmed"}
            /\ m.op = "release" => step[r] \in {"releasing", "cancelled"}
        BY DEF SagaInv, NetOK
      <3> QED
        BY <1>3, <1>7, <2>1, <2>4, <3>1, <3>2 DEF WorkflowOK
    <2> QED
      BY <2>2, <2>3, <2>4
  <1>10. NetOK'
    <2> SUFFICES ASSUME NEW n \in net'
                 PROVE  /\ step'[n.id] # "new"
                        /\ n.op = "commit" => step'[n.id] \in {"committing", "confirmed"}
                        /\ n.op = "release" => step'[n.id] \in {"releasing", "cancelled"}
      BY DEF NetOK
    <2>1. /\ n \in net /\ n \in Request /\ step[n.id] # "new"
          /\ n.op = "commit" => step[n.id] \in {"committing", "confirmed"}
          /\ n.op = "release" => step[n.id] \in {"releasing", "cancelled"}
      BY <1>2 DEF SagaInv, SagaTypeOK, NetOK
    <2>2. CASE n.id = r /\ heard
      BY <1>2, <1>5, <1>6, <2>1, <2>2 DEF SagaInv, SagaTypeOK, StepName, Request
    <2>3. CASE ~(n.id = r /\ heard)
      BY <1>2, <2>1, <2>3 DEF SagaInv, SagaTypeOK, Request
    <2> QED
      BY <2>2, <2>3
  <1>11. ReleaseIsFinal'
    <2> SUFFICES ASSUME NEW q \in ReservationId, final'[q] # "none"
                 PROVE  header'[q].status = "released"
      BY DEF ReleaseIsFinal
    <2>1. final[q] # "none" => header[q].status = "released"
      BY DEF SagaInv, ReleaseIsFinal
    <2>2. header[q].status = "released" => header'[q] = header[q]
      BY <1>1, <1>3 DEF ReserveSeen, TransitionSeen
    <2>3. CASE q = r /\ heard /\ m.op = "release"
      BY <1>2, <1>6, <2>3 DEF SagaInv, SagaTypeOK
    <2>4. CASE ~(q = r /\ heard /\ m.op = "release")
      BY <1>2, <2>1, <2>2, <2>4 DEF SagaInv, SagaTypeOK
    <2> QED
      BY <2>3, <2>4
  <1> QED
    BY <1>3, <1>8, <1>9, <1>10, <1>11 DEF SagaInv

-----------------------------------------------------------------------------
(* Order workflows: what the workflow and the other callers do *)

\* The workflow moves on from a step it is in and sends the call of the next.
LEMMA GoInv ==
    ASSUME SagaInv, NEW r \in ReservationId, NEW from, NEW to, NEW op, Go(r, from, to, op),
           \/ from = "new" /\ to = "reserving" /\ op = "reserve"
           \/ from = "reserving" /\ to = "releasing" /\ op = "release"
           \/ from = "reserved" /\ to = "committing" /\ op = "commit"
           \/ from = "reserved" /\ to = "releasing" /\ op = "release"
           \/ from \in {"cancelled", "declined"} /\ to = "releasing" /\ op = "release"
    PROVE  SagaInv'
  <1>1. /\ UNCHANGED vars /\ UNCHANGED final
        /\ step[r] = from /\ step' = [step EXCEPT ![r] = to] /\ net' = net \cup {Req(op, r)}
    BY DEF Go
  <1>2. Held' /\ TypeOK'
    BY <1>1, HeldStep DEF SagaInv, Held, Core
  <1>3. SagaTypeOK'
    BY <1>1, <1>2 DEF SagaInv, SagaTypeOK, Request, Req
  <1>4. ASSUME NEW q \in ReservationId
        PROVE  step'[q] # "alarm" /\ HeaderOK(q)' /\ WorkflowOK(q)'
    BY <1>1 DEF SagaInv, SagaTypeOK, HeaderOK, WorkflowOK, vars
  <1>5. NetOK'
    BY <1>1 DEF SagaInv, SagaTypeOK, NetOK, Request, Req
  <1>6. ReleaseIsFinal'
    BY <1>1 DEF SagaInv, ReleaseIsFinal, vars
  <1> QED
    BY <1>2, <1>3, <1>4, <1>5, <1>6 DEF SagaInv

\* The reconciler releases again what an order that is over still holds.
LEMMA ReconcileInv ==
    ASSUME SagaInv, NEW r \in ReservationId, Reconcile(r) PROVE SagaInv'
  <1>1. step[r] \in {"cancelled", "declined"} /\ Go(r, step[r], "releasing", "release")
    BY DEF Reconcile, Go
  <1> QED
    BY <1>1, GoInv

\* A lost or repeated request changes nothing but the network.
LEMMA NetInv ==
    ASSUME SagaInv, UNCHANGED <<vars, step, final>>,
           \/ net' \subseteq net
           \/ \E r \in ReservationId : Pending(r) # {} /\ net' = net \cup Pending(r)
    PROVE  SagaInv'
  <1>1. Held' /\ TypeOK'
    BY HeldStep DEF SagaInv, Held, Core
  <1>2. ASSUME NEW m \in net'
        PROVE  /\ m \in Request /\ step[m.id] # "new"
               /\ m.op = "commit" => step[m.id] \in {"committing", "confirmed"}
               /\ m.op = "release" => step[m.id] \in {"releasing", "cancelled"}
    <2>1. CASE m \in net
      BY <2>1 DEF SagaInv, SagaTypeOK, NetOK
    <2>2. ASSUME NEW r \in ReservationId, m \in Pending(r)
          PROVE  /\ m \in Request /\ step[m.id] # "new"
                 /\ m.op = "commit" => step[m.id] \in {"committing", "confirmed"}
                 /\ m.op = "release" => step[m.id] \in {"releasing", "cancelled"}
      BY <2>2 DEF Pending, Req, Request
    <2> QED
      BY <2>1, <2>2
  <1>3. SagaTypeOK' /\ NetOK'
    BY <1>1, <1>2 DEF SagaInv, SagaTypeOK, NetOK
  <1>4. ReleaseIsFinal' /\ \A r \in ReservationId : step'[r] # "alarm" /\ HeaderOK(r)' /\ WorkflowOK(r)'
    BY DEF SagaInv, ReleaseIsFinal, HeaderOK, WorkflowOK, vars
  <1> QED
    BY <1>1, <1>3, <1>4 DEF SagaInv

\* A stock command touches no reservation.
LEMMA OperateInv == ASSUME SagaInv, Operate PROVE SagaInv'
  <1>1. PICK c \in Calls : c.op \in CommandOp /\ StockCommand(c)
    BY DEF Operate
  <1>2. UNCHANGED <<step, net, final, header>>
    BY <1>1 DEF Operate, StockCommand
  <1>3. Held' /\ TypeOK'
    BY <1>1, CallShape, StockCommandCore, StockCommandHeld DEF SagaInv, Held, Core
  <1> QED
    BY <1>2, <1>3
    DEF SagaInv, SagaTypeOK, NetOK, ReleaseIsFinal, HeaderOK, WorkflowOK

\* Before anything is sent nothing is known.
LEMMA SagaInvInit == SagaInit => SagaInv
  <1> SUFFICES ASSUME SagaInit PROVE SagaInv
    OBVIOUS
  <1>1. Held /\ TypeOK
    BY HeldInit DEF SagaInit, Held, Core
  <1> QED
    BY <1>1 DEF SagaInit, Init, NoHeader, SagaInv, SagaTypeOK, NetOK, ReleaseIsFinal, HeaderOK,
                WorkflowOK, Status

\* SagaInv is inductive.
LEMMA SagaInvStep == SagaInv /\ [SagaNext]_sagaVars => SagaInv'
  <1> SUFFICES ASSUME SagaInv, [SagaNext]_sagaVars PROVE SagaInv'
    OBVIOUS
  <1>1. CASE UNCHANGED sagaVars
    BY <1>1, NetInv DEF sagaVars
  <1>2. ASSUME NEW m \in net, Lose(m) PROVE SagaInv'
    BY <1>2, NetInv DEF Lose
  <1>3. ASSUME NEW r \in ReservationId, Work(r) PROVE SagaInv'
    <2>1. CASE Start(r) \/ GiveUp(r) \/ Settle(r)
      BY <2>1, GoInv DEF Start, GiveUp, Settle
    <2>2. CASE Retry(r)
      BY <2>2, NetInv DEF Retry
    <2> QED
      BY <1>3, <2>1, <2>2, ReconcileInv DEF Work
  <1> QED
    BY <1>1, <1>2, <1>3, ServeInv, OperateInv DEF SagaNext

-----------------------------------------------------------------------------
(* Order workflows: what follows *)

\* No call a workflow has to repeat is ever refused for having taken effect.
THEOREM RetriesNeverRefused == SagaSpec => []NeverRefused
  <1>1. SagaInv => NeverRefused
    BY DEF SagaInv, NeverRefused
  <1> QED
    BY SagaInvInit, SagaInvStep, <1>1, PTL DEF SagaSpec

\* A confirmed order is sold, and only a confirmed one.
THEOREM ConfirmedIsSold == SagaSpec => []SoldIffConfirmed
  <1>1. SagaInv => SoldIffConfirmed
    BY DEF SagaInv, SagaTypeOK, WorkflowOK, SoldIffConfirmed
  <1> QED
    BY SagaInvInit, SagaInvStep, <1>1, PTL DEF SagaSpec

\* A row on which Release was answered stays released.
THEOREM ReleaseStaysFinal == SagaSpec => []ReleaseIsFinal
  <1>1. SagaInv => ReleaseIsFinal
    BY DEF SagaInv
  <1> QED
    BY SagaInvInit, SagaInvStep, <1>1, PTL DEF SagaSpec

\* Whatever the network repeats, a hold can be settled: the server is never the
\* reason why a Commit or a Release goes on being retried.
THEOREM RetriesCanSucceed == SagaSpec => []HoldsCanSettle
  <1>1. SagaInv => HoldsCanSettle
    BY HeldImpliesSettle DEF SagaInv
  <1> QED
    BY SagaInvInit, SagaInvStep, <1>1, PTL DEF SagaSpec

-----------------------------------------------------------------------------
(* Operators: the inductive invariant *)

\* command_id is a unique key of inventory_movements.
CommandIdsUnique ==
    \A m, n \in ledger : m.key = n.key /\ m.key[1] = "command" => m = n

AdminInv == Held /\ AdminTypeOK /\ CommandIdsUnique

\* What the ledger keeps of a body.
LEMMA WrittenFields ==
    ASSUME NEW p \in Posts
    PROVE  /\ Written(p) \in [op: {"receive", "adjust"}, cmd: CommandId, sku: SKU,
                               wh: Int, qty: Int, by: Actor \cup {None}]
           /\ Written(p).op = p.op /\ Written(p).cmd = p.cmd /\ Written(p).wh = p.wh
           /\ Written(p).qty = p.qty /\ Written(p).by = Column[p.by]
           /\ Column[p.by] = p.by => Written(p) = p
  BY PostsAssumption DEF Written

\* A body that is not malformed, names a warehouse and fits its columns is a
\* command the repository accepts.
LEMMA PostShape ==
    ASSUME NEW p \in Posts, ~Malformed(p), p.wh \in Warehouse, Column[p.by] # None
    PROVE  Written(p) \in CommandCall
  <1>1. Written(p).by \in Actor
    BY WrittenFields
  <1>2. Written(p) \in [op: CommandOp, cmd: CommandId, sku: SKU, wh: Warehouse,
                         qty: Int, by: Actor]
    BY <1>1, WrittenFields DEF CommandOp
  <1>3. /\ Written(p).op = "receive" => Written(p).qty > 0
        /\ Written(p).op = "adjust" => Written(p).qty # 0
        /\ Written(p).op # "safety"
    BY WrittenFields, PostsAssumption DEF Malformed
  <1> QED
    BY <1>2, <1>3 DEF CommandCall

-----------------------------------------------------------------------------
(* Operators: the steps *)

\* A stock command adds the one ledger row of a key that was free.
LEMMA StockCommandIds ==
    ASSUME CommandIdsUnique, NEW c, StockCommand(c) PROVE CommandIdsUnique'
  <1>1. /\ ledger' = ledger \cup {CommandMove(c)}
        /\ \A m \in ledger : m.key # CommandMove(c).key
    BY DEF StockCommand
  <1> QED
    BY <1>1 DEF CommandIdsUnique

\* The rows of a reservation have keys of their own.
LEMMA MoveStockIds ==
    ASSUME CommandIdsUnique, NEW op \in LineOp, NEW r, NEW ls, MoveStock(op, r, ls)
    PROVE  CommandIdsUnique'
  <1>1. ledger' = ledger \cup LineMoves(op, r, ls)
    BY DEF MoveStock
  <1>2. \A m \in LineMoves(op, r, ls) : m.key[1] # "command"
    BY DEF LineMoves, LineMove, LineOp
  <1> QED
    BY <1>1, <1>2 DEF CommandIdsUnique

\* The same for every call of the service.
LEMMA CallIds == ASSUME CommandIdsUnique, Next PROVE CommandIdsUnique'
  <1>1. ASSUME NEW c \in Calls, Reserve(c) PROVE CommandIdsUnique'
    BY <1>1, MoveStockIds DEF Reserve, LineOp
  <1>2. ASSUME NEW c \in Calls, c.op \in {"release", "commit"}, Transition(c)
        PROVE  CommandIdsUnique'
    BY <1>2, MoveStockIds DEF Transition, LineOp
  <1> QED
    BY <1>1, <1>2, StockCommandIds DEF Next

\* The answers of the server, and when it books a command.
LEMMA AnswerKinds ==
    ASSUME NEW p \in Posts, NEW a \in Answers(p)
    PROVE  /\ a \in {200, 201, 400, 404, 409, 422, 500}
           /\ a = 201 => ~Malformed(p) /\ p.wh \in Warehouse /\ Column[p.by] # None
           /\ a \in {404, 409, 422} => a \in Refusals(p)
  <1>1. \A e \in Refusals(p) : e \in {200, 404, 409, 422, 500}
    BY DEF Refusals, Taken, KeyRefuses, RowRefuses
  <1>2. Refusals(p) = {} => p.wh \in Warehouse /\ Column[p.by] # None
    BY DEF Refusals, KeyRefuses
  <1> QED
    BY <1>1, <1>2 DEF Answers

\* The server's step on the tables.
LEMMA AnswersInv ==
    ASSUME AdminInv, NEW p \in Posts, NEW a \in Answers(p),
           IF a = 201 THEN StockCommand(Written(p)) ELSE UNCHANGED vars
    PROVE  Held' /\ CommandIdsUnique'
  <1>1. CASE a = 201
    BY <1>1, AnswerKinds, PostShape, StockCommandCore, StockCommandHeld, StockCommandIds
       DEF AdminInv, Held
  <1>2. CASE UNCHANGED vars
    BY <1>2, HeldStep DEF AdminInv, CommandIdsUnique, vars
  <1> QED
    BY <1>1, <1>2

\* A request reaches the server, is lost or is sent again.
LEMMA AdminStep == AdminInv /\ [AdminNext]_adminVars => AdminInv'
  <1> SUFFICES ASSUME AdminInv, [AdminNext]_adminVars PROVE AdminInv'
    OBVIOUS
  <1>1. Held' => TypeOK'
    BY DEF Held, Core
  <1>2. CASE UNCHANGED vars /\ screen' \in [Posts -> Told \cup {"new", "sent"}] /\ wire' \subseteq Posts
    BY <1>1, <1>2, HeldStep DEF AdminInv, AdminTypeOK, CommandIdsUnique, vars
  <1>3. ASSUME NEW p \in Posts, Submit(p) \/ Repeat(p) PROVE AdminInv'
    BY <1>2, <1>3 DEF Submit, Repeat, AdminInv, AdminTypeOK
  <1>4. ASSUME NEW p \in wire, Drop(p) PROVE AdminInv'
    BY <1>2, <1>4 DEF Drop, AdminInv, AdminTypeOK
  <1>5. ASSUME NEW p \in wire, NEW told \in BOOLEAN, NEW kept \in BOOLEAN, ServePost(p, told, kept)
        PROVE  AdminInv'
    <2>1. PICK a \in Answers(p) :
             /\ IF a = 201 THEN StockCommand(Written(p)) ELSE UNCHANGED vars
             /\ screen' = IF told /\ screen[p] = "sent"
                          THEN [screen EXCEPT ![p] = Shown(a)] ELSE screen
      BY <1>5 DEF ServePost
    <2>2. p \in Posts
      BY DEF AdminInv, AdminTypeOK
    <2>3. Shown(a) \in Told \cup {"sent"}
      BY DEF Shown, Told
    <2>4. screen' \in [Posts -> Told \cup {"new", "sent"}] /\ wire' \subseteq Posts
      BY <1>5, <2>1, <2>3 DEF ServePost, AdminInv, AdminTypeOK
    <2> QED
      BY <1>1, <2>1, <2>2, <2>4, AnswersInv DEF AdminInv, AdminTypeOK
  <1>6. CASE Others
    BY <1>1, <1>6, HeldStep, CallIds DEF Others, AdminInv, AdminTypeOK
  <1>7. CASE UNCHANGED adminVars
    BY <1>2, <1>7 DEF adminVars, AdminInv, AdminTypeOK
  <1> QED
    BY <1>3, <1>4, <1>5, <1>6, <1>7 DEF AdminNext

\* Before the first call there is no movement.
LEMMA AdminStart == AdminInit => AdminInv
  BY HeldInit DEF AdminInit, Init, AdminInv, AdminTypeOK, CommandIdsUnique, Held, Core

-----------------------------------------------------------------------------
(* Operators: what follows *)

\* When the server says conflict, not found or no stock to a body whose texts are
\* kept, the row of the command is not in the ledger: the key was looked at first,
\* and it is unique.
LEMMA RefusedIsNotBooked ==
    ASSUME AdminInv, NEW p \in Posts, Column[p.by] = p.by, NEW a \in Answers(p),
           Shown(a) \in {"conflict", "refused"}, UNCHANGED vars
    PROVE  CommandMove(Written(p)) \notin ledger'
  <1>1. a \in {409, 404, 422} /\ a \in Refusals(p) /\ ledger' = ledger
    BY AnswerKinds DEF Shown, vars
  <1>2. Written(p) = p /\ Column[p.by] # None
    BY WrittenFields, PostsAssumption, StockAssumption
  <1>3. CASE Taken(p) = {}
    BY <1>1, <1>2, <1>3 DEF Taken
  <1>4. CASE Taken(p) # {}
    <2>1. PICK m \in ledger : m.key = CommandMove(p).key /\ m # CommandMove(p)
      BY <1>1, <1>2, <1>4 DEF Refusals, Taken
    <2>2. CommandMove(p).key[1] = "command"
      BY DEF CommandMove
    <2> QED
      BY <1>1, <1>2, <2>1, <2>2 DEF AdminInv, CommandIdsUnique
  <1> QED
    BY <1>3, <1>4

\* An operator is never told that a command was refused or taken by another
\* when an attempt whose answer was lost had booked it, as long as the columns keep
\* its texts.
THEOREM RefusalsAreAlwaysTrue == AdminSpec => RefusalsAreTrue
  <1>1. AdminInv /\ [AdminNext]_adminVars =>
          [\A p \in Posts : Column[p.by] = p.by => ~RefusedOwn(p)]_adminVars
    <2> SUFFICES ASSUME AdminInv, AdminNext, NEW p \in Posts, Column[p.by] = p.by,
                        screen[p] = "sent", screen'[p] \in {"conflict", "refused"}
                 PROVE  CommandMove(Written(p)) \notin ledger'
      BY DEF RefusedOwn
    <2>1. ASSUME NEW q \in wire, NEW told \in BOOLEAN, NEW kept \in BOOLEAN,
                 ServePost(q, told, kept)
          PROVE  CommandMove(Written(p)) \notin ledger'
      <3>1. PICK a \in Answers(q) :
               /\ IF a = 201 THEN StockCommand(Written(q)) ELSE UNCHANGED vars
               /\ screen' = IF told /\ screen[q] = "sent"
                            THEN [screen EXCEPT ![q] = Shown(a)] ELSE screen
        BY <2>1 DEF ServePost
      <3>2. p = q /\ Shown(a) \in {"conflict", "refused"}
        BY <3>1 DEF AdminInv, AdminTypeOK
      <3>3. UNCHANGED vars
        BY <3>1, <3>2 DEF Shown
      <3> QED
        BY <3>2, <3>3, RefusedIsNotBooked
    <2>2. \/ screen'[p] = screen[p]
          \/ \E q \in Posts : Submit(q)
          \/ \E q \in wire : \E told, kept \in BOOLEAN : ServePost(q, told, kept)
      BY DEF AdminNext, Repeat, Drop, Others
    <2> QED
      BY <2>1, <2>2 DEF Submit, AdminInv, AdminTypeOK
  <1> QED
    BY AdminStart, AdminStep, <1>1, PTL DEF AdminSpec, RefusalsAreTrue

\* No receipt or adjustment an operator may post strands a hold of an order.
THEOREM PostsKeepHolds == AdminSpec => []HoldsCanSettle
  <1>1. AdminInv => HoldsCanSettle
    BY HeldImpliesSettle DEF AdminInv
  <1> QED
    BY AdminStart, AdminStep, <1>1, PTL DEF AdminSpec
=============================================================================
