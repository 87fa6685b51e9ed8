-------------------------- MODULE InventoryProofs --------------------------
(***************************************************************************)
(* Theorems about the atomic service, for every set of SKUs, warehouses,   *)
(* reservations and calls.                                                 *)
(***************************************************************************)
EXTENDS Inventory, TLAPS, FiniteSetTheorems

-----------------------------------------------------------------------------
(* Types *)

\* The facts about constants the arithmetic below needs.
LEMMA MaxBigintType == MaxBigint \in Nat
  BY StockAssumption

\* What Reserve, Release and Commit write is a balance row again.
LEMMA LineEffectType ==
    ASSUME NEW op \in {"reserve", "release", "commit"}, NEW b \in Balance,
           NEW q \in Nat, op = "reserve" \/ SchemaChecks(LineEffect(op, b, q))
    PROVE  LineEffect(op, b, q) \in Balance
  <1>1. CASE op = "reserve"
    <2>1. LineEffect(op, b, q) = [b EXCEPT !.reserved = @ + q]
      BY <1>1 DEF LineEffect
    <2> QED
      BY <2>1 DEF Balance
  <1>2. CASE op = "release"
    <2>1. LineEffect(op, b, q) = [b EXCEPT !.reserved = @ - q]
      BY <1>2 DEF LineEffect
    <2> QED
      BY <1>2, <2>1 DEF Balance, SchemaChecks
  <1>3. CASE op = "commit"
    <2>1. LineEffect(op, b, q) = [b EXCEPT !.onHand = @ - q, !.reserved = @ - q]
      BY <1>3 DEF LineEffect
    <2>2. b.onHand - q \in Nat /\ b.reserved - q \in Nat
      <3>1. /\ LineEffect(op, b, q).onHand = b.onHand - q
            /\ LineEffect(op, b, q).reserved = b.reserved - q
        BY <2>1 DEF Balance
      <3> QED
        BY <1>3, <3>1, MaxBigintType DEF Balance, SchemaChecks
    <2> QED
      BY <2>1, <2>2 DEF Balance
  <1> QED
    BY <1>1, <1>2, <1>3

\* What a stock command that meets the CHECKs writes is a balance row again.
LEMMA CommandEffectType ==
    ASSUME NEW c \in CommandCall, NEW b \in Balance,
           SchemaChecks(CommandEffect(c, b)), c.op = "receive" \/ b.live,
           ~b.live => b.reserved = 0
    PROVE  /\ CommandEffect(c, b) \in Balance
           /\ CommandEffect(c, b).reserved = b.reserved
           /\ CommandEffect(c, b).live
  <1> c.op \in CommandOp /\ c.qty \in Int
    BY DEF CommandCall
  <1>1. CASE c.op = "receive" /\ ~b.live
    <2>1. CommandEffect(c, b) = [live |-> TRUE, onHand |-> c.qty, reserved |-> 0, safety |-> 0]
      BY <1>1 DEF CommandEffect
    <2> QED
      BY <1>1, <2>1 DEF Balance, CommandCall
  <1>2. CASE c.op = "receive" /\ b.live
    BY <1>2 DEF CommandEffect, Balance, SchemaChecks, CommandCall
  <1>3. CASE c.op = "adjust"
    BY <1>3 DEF CommandEffect, Balance, SchemaChecks, CommandCall
  <1>4. CASE c.op = "safety"
    BY <1>4 DEF CommandEffect, Balance, SchemaChecks, CommandCall
  <1> QED
    BY <1>1, <1>2, <1>3, <1>4 DEF CommandOp

\* A payload held in one warehouse is a table of lines.
LEMMA AllocType ==
    ASSUME NEW pl \in Payload, NEW w \in Active
    PROVE  Alloc(pl, w) \in [Row -> 0..MaxBigint]
  <1> SUFFICES ASSUME NEW x \in Row
               PROVE  (IF x[2] = w THEN Items[pl][x[1]] ELSE 0) \in 0..MaxBigint
    BY DEF Alloc
  <1>1. x[1] \in SKU
    BY DEF Row
  <1>2. Items[pl][x[1]] \in 0..MaxBigint
    BY <1>1, StockAssumption
  <1> QED
    BY <1>2, MaxBigintType

\* The ledger rows of one reservation's lines.
LEMMA LineMovesType ==
    ASSUME NEW op \in {"reserve", "release", "commit"}, NEW r \in ReservationId,
           NEW ls \in [Row -> 0..MaxBigint]
    PROVE  LineMoves(op, r, ls) \subseteq Movement
  <1> SUFFICES ASSUME NEW x \in Row
               PROVE  LineMove(op, r, x, ls[x]) \in Movement
    BY DEF LineMoves
  <1>1. x[1] \in SKU
    BY DEF Row
  <1>2. ls[x] \in Int
    BY StockAssumption
  <1> QED
    BY <1>1, <1>2 DEF LineMove, Movement

\* The ledger row of a stock command.
LEMMA CommandMoveType ==
    ASSUME NEW c \in CommandCall
    PROVE  CommandMove(c) \in Movement
  BY DEF CommandMove, Movement, CommandCall, Row

-----------------------------------------------------------------------------
(* What one step does to a balance row *)

LineOp == {"reserve", "release", "commit"}

\* The deltas a line of q units applies: the same numbers go to the ledger.
OnHandDelta(op, q) == IF op = "commit" THEN -q ELSE 0
ReservedDelta(op, q) == IF op = "reserve" THEN q ELSE -q

\* LineEffect field by field.
LEMMA LineEffectFields ==
    ASSUME NEW op \in LineOp, NEW b \in Balance, NEW q \in Nat
    PROVE  LET e == LineEffect(op, b, q) IN
           /\ e.live = b.live /\ e.safety = b.safety
           /\ e.onHand = b.onHand + OnHandDelta(op, q)
           /\ e.reserved = b.reserved + ReservedDelta(op, q)
  <1>1. CASE op = "reserve"
    <2>1. LineEffect(op, b, q) = [b EXCEPT !.reserved = @ + q]
      BY <1>1 DEF LineEffect
    <2> QED
      BY <1>1, <2>1 DEF Balance, OnHandDelta, ReservedDelta
  <1>2. CASE op = "release"
    <2>1. LineEffect(op, b, q) = [b EXCEPT !.reserved = @ - q]
      BY <1>2 DEF LineEffect
    <2> QED
      BY <1>2, <2>1 DEF Balance, OnHandDelta, ReservedDelta
  <1>3. CASE op = "commit"
    <2>1. LineEffect(op, b, q) = [b EXCEPT !.onHand = @ - q, !.reserved = @ - q]
      BY <1>3 DEF LineEffect
    <2> QED
      BY <1>3, <2>1 DEF Balance, OnHandDelta, ReservedDelta
  <1> QED
    BY <1>1, <1>2, <1>3 DEF LineOp

\* A stock command adds the quantity its ledger row records.
LEMMA CommandEffectFields ==
    ASSUME NEW c \in CommandCall, NEW b \in Balance, ~b.live => b = NoBalance,
           c.op = "receive" \/ b.live
    PROVE  /\ CommandEffect(c, b).onHand = b.onHand + (IF c.op = "safety" THEN 0 ELSE c.qty)
           /\ CommandEffect(c, b).reserved = b.reserved + 0
  <1>1. CASE c.op = "receive" /\ ~b.live
    BY <1>1 DEF CommandEffect, CommandCall, NoBalance
  <1>2. CASE c.op = "receive" /\ b.live
    BY <1>2 DEF CommandEffect, CommandCall, Balance
  <1>3. CASE c.op = "adjust"
    BY <1>3 DEF CommandEffect, CommandCall, Balance
  <1>4. CASE c.op = "safety"
    BY <1>4 DEF CommandEffect, CommandCall, Balance
  <1> QED
    BY <1>1, <1>2, <1>3, <1>4 DEF CommandCall, CommandOp

\* MoveStock row by row, and that the tables it changes keep their types.
LEMMA MoveStockEffect ==
    ASSUME TypeOK, NEW op \in LineOp, NEW r \in ReservationId,
           NEW ls \in [Row -> 0..MaxBigint], MoveStock(op, r, ls),
           \A x \in Row : ls[x] > 0 =>
              op = "reserve" \/ SchemaChecks(LineEffect(op, bal[x], ls[x]))
    PROVE  /\ bal' \in [Row -> Balance]
           /\ ledger' \subseteq Movement
           /\ \A x \in Row :
                /\ bal'[x].live = bal[x].live
                /\ bal'[x].safety = bal[x].safety
                /\ bal'[x].onHand = bal[x].onHand + OnHandDelta(op, ls[x])
                /\ bal'[x].reserved = bal[x].reserved + ReservedDelta(op, ls[x])
                /\ ls[x] = 0 => bal'[x] = bal[x]
                /\ ls[x] > 0 => bal'[x] = LineEffect(op, bal[x], ls[x])
  <1>1. ledger' \subseteq Movement
    BY LineMovesType DEF MoveStock, TypeOK, LineOp
  <1>2. ASSUME NEW x \in Row
        PROVE  /\ ls[x] \in Nat
               /\ bal[x] \in Balance
               /\ ls[x] = 0 => bal'[x] = bal[x]
               /\ ls[x] > 0 => bal'[x] = LineEffect(op, bal[x], ls[x])
    BY MaxBigintType DEF MoveStock, TypeOK
  <1>3. ASSUME NEW x \in Row
        PROVE  /\ bal'[x] \in Balance
               /\ bal'[x].live = bal[x].live
               /\ bal'[x].safety = bal[x].safety
               /\ bal'[x].onHand = bal[x].onHand + OnHandDelta(op, ls[x])
               /\ bal'[x].reserved = bal[x].reserved + ReservedDelta(op, ls[x])
    <2>1. CASE ls[x] = 0
      BY <1>2, <2>1 DEF OnHandDelta, ReservedDelta, Balance
    <2>2. CASE ls[x] > 0
      BY <1>2, <2>2, LineEffectType, LineEffectFields DEF LineOp
    <2> QED
      BY <1>2, <2>1, <2>2
  <1>4. bal' \in [Row -> Balance]
    BY <1>3 DEF MoveStock
  <1> QED
    BY <1>1, <1>2, <1>3, <1>4

-----------------------------------------------------------------------------
(* Type correctness and the CHECK constraints *)

\* The shape of a call follows from its operation.
LEMMA CallShape ==
    ASSUME NEW c \in Calls
    PROVE  /\ c.op = "reserve" => c \in ReserveCall
           /\ c.op \in {"release", "commit"} => c \in TransitionCall
           /\ c.op \in CommandOp => c \in CommandCall /\ c.qty \in (-MaxBigint)..MaxBigint
  <1>1. c \in Call
    BY StockAssumption
  <1>2. CASE c \in ReserveCall
    BY <1>2 DEF ReserveCall, CommandOp
  <1>3. CASE c \in TransitionCall
    BY <1>3 DEF TransitionCall, CommandOp
  <1>4. CASE c \in CommandCall
    BY <1>4, StockAssumption DEF CommandCall, CommandOp
  <1> QED
    BY <1>1, <1>2, <1>3, <1>4 DEF Call

\* A warehouse that fulfills a payload has a live row with room above the
\* safety stock for each of its lines.
LEMMA CoveredRow ==
    ASSUME TypeOK, NEW pl \in Payload, NEW w \in Active, FulfillsLines(bal, w, pl),
           NEW x \in Row, Alloc(pl, w)[x] > 0
    PROVE  /\ bal[x].live
           /\ bal[x].reserved + bal[x].safety + Alloc(pl, w)[x] <= bal[x].onHand
  <1>1. x = <<x[1], x[2]>> /\ x[1] \in SKU
    BY DEF Row
  <1>2. x[2] = w /\ Alloc(pl, w)[x] = Items[pl][x[1]]
    BY DEF Alloc
  <1>3. ATP(bal[x]) >= Items[pl][x[1]]
    BY <1>1, <1>2 DEF FulfillsLines, Requested
  <1>4. bal[x] \in Balance /\ Items[pl][x[1]] \in Nat
    BY <1>1, StockAssumption DEF TypeOK
  <1> QED
    BY <1>2, <1>3, <1>4 DEF ATP, Balance

\* Every row satisfies the schema, and a row that does not exist is empty.
BalancesOK ==
    \A x \in Row : /\ SchemaChecks(bal[x])
                   /\ ~bal[x].live => bal[x] = NoBalance

Core == TypeOK /\ BalancesOK

\* The seeded tables have their types and meet the CHECKs.
LEMMA CoreInit == Init => Core
  <1> SUFFICES ASSUME Init PROVE Core
    OBVIOUS
  <1>1. NoLines \in [Row -> 0..MaxBigint]
    BY MaxBigintType DEF NoLines
  <1>2. NoHeader \in Header
    BY DEF NoHeader, Header, Status
  <1> QED
    BY <1>1, <1>2, StockAssumption DEF Init, Core, TypeOK, BalancesOK

\* A step of Reserve.
LEMMA ReserveCore ==
    ASSUME Core, NEW c \in ReserveCall, Reserve(c)
    PROVE  Core'
  <1>1. PICK w \in Active : /\ FulfillsLines(bal, w, c.payload)
                            /\ lines' = [lines EXCEPT ![c.id] = Alloc(c.payload, w)]
                            /\ MoveStock("reserve", c.id, Alloc(c.payload, w))
    BY DEF Reserve
  <1> DEFINE ls == Alloc(c.payload, w)
  <1>2. c.id \in ReservationId /\ c.order \in OrderId /\ c.payload \in Payload
    BY DEF ReserveCall
  <1>3. ls \in [Row -> 0..MaxBigint]
    BY <1>2, AllocType
  <1>4. /\ bal' \in [Row -> Balance]
        /\ ledger' \subseteq Movement
        /\ \A x \in Row :
             /\ ls[x] = 0 => bal'[x] = bal[x]
             /\ bal'[x].live = bal[x].live
             /\ bal'[x].onHand = bal[x].onHand + OnHandDelta("reserve", ls[x])
             /\ bal'[x].reserved = bal[x].reserved + ReservedDelta("reserve", ls[x])
    BY <1>1, <1>2, <1>3, MoveStockEffect DEF Core, LineOp
  <1>5. TypeOK'
    <2>1. lines' \in [ReservationId -> [Row -> 0..MaxBigint]]
      BY <1>1, <1>2, <1>3 DEF Core, TypeOK
    <2>2. header' \in [ReservationId -> Header]
      BY <1>2 DEF Reserve, Core, TypeOK, Header, Status
    <2> QED
      BY <1>4, <2>1, <2>2 DEF TypeOK
  <1>6. ASSUME NEW x \in Row
        PROVE  SchemaChecks(bal'[x]) /\ (~bal'[x].live => bal'[x] = NoBalance)
    <2>1. CASE ls[x] = 0
      BY <1>4, <2>1 DEF Core, BalancesOK
    <2>2. CASE ls[x] > 0
      <3>1. bal[x].live /\ bal[x].reserved + bal[x].safety + ls[x] <= bal[x].onHand
        BY <1>1, <1>2, <2>2, CoveredRow DEF Core
      <3>2. bal[x] \in Balance /\ bal'[x] \in Balance /\ ls[x] \in Nat
        BY <1>3, <1>4, MaxBigintType DEF Core, TypeOK
      <3> QED
        BY <1>4, <3>1, <3>2, MaxBigintType
        DEF Core, BalancesOK, SchemaChecks, Balance, OnHandDelta, ReservedDelta
    <2> QED
      BY <1>3, <2>1, <2>2, MaxBigintType
  <1> QED
    BY <1>5, <1>6 DEF Core, BalancesOK

\* A step of Release or Commit.
LEMMA TransitionCore ==
    ASSUME Core, NEW c \in TransitionCall, Transition(c)
    PROVE  Core'
  <1> DEFINE ls == lines[c.id]
  <1>1. c.id \in ReservationId /\ c.op \in LineOp /\ c.op # "reserve"
    BY DEF TransitionCall, LineOp
  <1>2. ls \in [Row -> 0..MaxBigint]
    BY <1>1 DEF Core, TypeOK
  <1>3. \A x \in Row : ls[x] > 0 =>
           bal[x].live /\ SchemaChecks(LineEffect(c.op, bal[x], ls[x]))
    BY DEF Transition, CanSettle
  <1>4. /\ bal' \in [Row -> Balance]
        /\ ledger' \subseteq Movement
        /\ \A x \in Row :
             /\ bal'[x].live = bal[x].live
             /\ ls[x] = 0 => bal'[x] = bal[x]
             /\ ls[x] > 0 => bal'[x] = LineEffect(c.op, bal[x], ls[x])
    BY <1>1, <1>2, <1>3, MoveStockEffect DEF Core, Transition
  <1>5. TypeOK'
    <2>1. header' \in [ReservationId -> Header]
      BY <1>1, ZenonT(60) DEF Transition, Target, Core, TypeOK, Header, Status
    <2> QED
      BY <1>4, <2>1 DEF Transition, Core, TypeOK
  <1>6. ASSUME NEW x \in Row
        PROVE  SchemaChecks(bal'[x]) /\ (~bal'[x].live => bal'[x] = NoBalance)
    <2>1. CASE ls[x] = 0
      BY <1>4, <2>1 DEF Core, BalancesOK
    <2>2. CASE ls[x] > 0
      BY <1>3, <1>4, <2>2
    <2> QED
      BY <1>2, <2>1, <2>2, MaxBigintType
  <1> QED
    BY <1>5, <1>6 DEF Core, BalancesOK

\* A step of ReceiveStock, AdjustOnHand or SetSafetyStock.
LEMMA StockCommandCore ==
    ASSUME Core, NEW c \in CommandCall, StockCommand(c)
    PROVE  Core'
  <1> DEFINE x == <<c.sku, c.wh>>
  <1>1. x \in Row
    BY DEF CommandCall, Row
  <1>2. bal[x] \in Balance
    BY <1>1 DEF Core, TypeOK
  <1>3. /\ CommandEffect(c, bal[x]) \in Balance
        /\ CommandEffect(c, bal[x]).live
        /\ SchemaChecks(CommandEffect(c, bal[x]))
    BY <1>1, <1>2, CommandEffectType DEF StockCommand, Core, BalancesOK, NoBalance
  <1>4. bal' = [bal EXCEPT ![x] = CommandEffect(c, bal[x])]
    BY DEF StockCommand
  <1>5. TypeOK'
    <2>1. ledger' \subseteq Movement
      BY CommandMoveType DEF StockCommand, Core, TypeOK
    <2>2. bal' \in [Row -> Balance]
      BY <1>3, <1>4 DEF Core, TypeOK
    <2> QED
      BY <2>1, <2>2 DEF StockCommand, Core, TypeOK
  <1>6. BalancesOK'
    BY <1>1, <1>3, <1>4 DEF Core, TypeOK, BalancesOK
  <1> QED
    BY <1>5, <1>6 DEF Core

\* No call breaks the types or the CHECKs: Core is inductive.
LEMMA CoreStep == Core /\ [Next]_vars => Core'
  <1> SUFFICES ASSUME Core, [Next]_vars PROVE Core'
    OBVIOUS
  <1>1. CASE UNCHANGED vars
    BY <1>1 DEF vars, Core, TypeOK, BalancesOK
  <1>2. ASSUME NEW c \in Calls, c.op = "reserve", Reserve(c) PROVE Core'
    BY <1>2, CallShape, ReserveCore
  <1>3. ASSUME NEW c \in Calls, c.op \in {"release", "commit"}, Transition(c) PROVE Core'
    BY <1>3, CallShape, TransitionCore
  <1>4. ASSUME NEW c \in Calls, c.op \in CommandOp, StockCommand(c) PROVE Core'
    BY <1>4, CallShape, StockCommandCore
  <1> QED
    BY <1>1, <1>2, <1>3, <1>4 DEF Next

\* The tables always hold values of their column types.
THEOREM TypeCorrect == Spec => []TypeOK
  <1>1. Core => TypeOK
    BY DEF Core
  <1> QED
    BY CoreInit, CoreStep, <1>1, PTL DEF Spec

-----------------------------------------------------------------------------
(* The reserved counter *)

\* q numbered units of one thing are q units.
LEMMA UnitsOfOne ==
    ASSUME NEW a, NEW q \in Nat
    PROVE  IsFiniteSet({a} \X (1..q)) /\ Cardinality({a} \X (1..q)) = q
  <1>1. IsFiniteSet(1..q) /\ Cardinality(1..q) = q
    BY FS_Interval
  <1>2. IsFiniteSet({a}) /\ Cardinality({a}) = 1
    BY FS_Singleton
  <1>3. /\ IsFiniteSet({a} \X (1..q))
        /\ Cardinality({a} \X (1..q)) = Cardinality({a}) * Cardinality(1..q)
    BY <1>1, <1>2, FS_Product
  <1> QED
    BY <1>1, <1>2, <1>3

\* Adding q units of something S has none of.
LEMMA AddUnits ==
    ASSUME NEW S, IsFiniteSet(S), NEW a, NEW q \in Nat, S \cap ({a} \X (1..q)) = {}
    PROVE  /\ IsFiniteSet(S \cup ({a} \X (1..q)))
           /\ Cardinality(S \cup ({a} \X (1..q))) = Cardinality(S) + q
  <1> DEFINE T == {a} \X (1..q)
  <1>1. IsFiniteSet(T) /\ Cardinality(T) = q
    BY UnitsOfOne
  <1>2. /\ IsFiniteSet(S \cup T)
        /\ Cardinality(S \cup T) = Cardinality(S) + Cardinality(T) - Cardinality(S \cap T)
    BY <1>1, FS_Union
  <1>3. Cardinality(S \cap T) = 0
    BY FS_EmptySet
  <1>4. Cardinality(S) \in Nat
    BY FS_CardinalityType
  <1> QED
    BY <1>1, <1>2, <1>3, <1>4

\* Finitely many reservations hold finitely many units of a row.
LEMMA HeldUnitsFinite ==
    ASSUME NEW x \in Row
    PROVE  IsFiniteSet(HeldUnits(x)) /\ Cardinality(HeldUnits(x)) \in Nat
  <1>1. IsFiniteSet(1..MaxBigint)
    BY MaxBigintType, FS_Interval
  <1>2. IsFiniteSet(ReservationId \X (1..MaxBigint))
    BY <1>1, StockAssumption, FS_Product
  <1>3. HeldUnits(x) \in SUBSET (ReservationId \X (1..MaxBigint))
    BY DEF HeldUnits
  <1> QED
    BY <1>2, <1>3, FS_Subset, FS_CardinalityType

\* A reserve adds its lines to the held units.
LEMMA ReserveHeld ==
    ASSUME Core, ReservedIsHeld, NEW c \in ReserveCall, Reserve(c)
    PROVE  ReservedIsHeld'
  <1>1. PICK w \in Active : /\ lines' = [lines EXCEPT ![c.id] = Alloc(c.payload, w)]
                            /\ MoveStock("reserve", c.id, Alloc(c.payload, w))
    BY DEF Reserve
  <1> DEFINE ls == Alloc(c.payload, w)
  <1>2. c.id \in ReservationId /\ ls \in [Row -> 0..MaxBigint]
    BY AllocType DEF ReserveCall
  <1> SUFFICES ASSUME NEW x \in Row
               PROVE  bal'[x].reserved = Cardinality(HeldUnits(x)')
    BY DEF ReservedIsHeld
  <1>3. ls[x] \in 0..MaxBigint /\ ls[x] \in Nat
    BY <1>2, MaxBigintType
  <1>4. bal'[x].reserved = bal[x].reserved + ls[x]
    BY <1>1, <1>2, MoveStockEffect DEF Core, LineOp, ReservedDelta
  <1>5. /\ header' \in [ReservationId -> Header] /\ header'[c.id].status = "reserved"
        /\ header[c.id].status = "none"
        /\ lines'[c.id] = ls
        /\ \A r \in ReservationId \ {c.id} : header'[r] = header[r] /\ lines'[r] = lines[r]
    BY <1>1, <1>2, ReserveCore DEF Reserve, Core, TypeOK
  <1>6. HeldUnits(x)' = HeldUnits(x) \cup ({c.id} \X (1..ls[x]))
    <2>1. ASSUME NEW r \in ReservationId, NEW i \in 1..MaxBigint
          PROVE  (header'[r].status = "reserved" /\ i <= lines'[r][x])
                   <=> \/ header[r].status = "reserved" /\ i <= lines[r][x]
                       \/ r = c.id /\ i \in 1..ls[x]
      BY <1>3, <1>5, MaxBigintType
    <2> QED
      BY <1>2, <1>3, <2>1, MaxBigintType DEF HeldUnits
  <1>7. HeldUnits(x) \cap ({c.id} \X (1..ls[x])) = {}
    BY <1>5 DEF HeldUnits
  <1>8. Cardinality(HeldUnits(x)') = Cardinality(HeldUnits(x)) + ls[x]
    <2>1. IsFiniteSet(HeldUnits(x))
      BY HeldUnitsFinite
    <2>2. Cardinality(HeldUnits(x) \cup ({c.id} \X (1..ls[x])))
             = Cardinality(HeldUnits(x)) + ls[x]
      BY <1>3, <1>7, <2>1, AddUnits
    <2> QED
      BY <1>6, <2>2
  <1> QED
    BY <1>4, <1>8 DEF ReservedIsHeld

\* A release or commit takes its lines out of the held units.
LEMMA TransitionHeld ==
    ASSUME Core, ReservedIsHeld, NEW c \in TransitionCall, Transition(c)
    PROVE  ReservedIsHeld'
  <1> DEFINE ls == lines[c.id]
  <1>1. c.id \in ReservationId /\ c.op \in LineOp /\ c.op # "reserve"
    BY DEF TransitionCall, LineOp
  <1>2. ls \in [Row -> 0..MaxBigint]
    BY <1>1 DEF Core, TypeOK
  <1> SUFFICES ASSUME NEW x \in Row
               PROVE  bal'[x].reserved = Cardinality(HeldUnits(x)')
    BY DEF ReservedIsHeld
  <1>3. ls[x] \in 0..MaxBigint /\ ls[x] \in Nat /\ bal[x].reserved \in Nat
    BY <1>2, MaxBigintType DEF Core, TypeOK, Balance
  <1>4. bal'[x].reserved = bal[x].reserved - ls[x]
    <2>1. \A y \in Row : ls[y] > 0 => SchemaChecks(LineEffect(c.op, bal[y], ls[y]))
      BY DEF Transition, CanSettle
    <2>2. bal'[x].reserved = bal[x].reserved + ReservedDelta(c.op, ls[x])
      BY <1>1, <1>2, <2>1, MoveStockEffect DEF Transition, Core
    <2> QED
      BY <1>1, <1>3, <2>2 DEF ReservedDelta
  <1>5. /\ header'[c.id].status # "reserved" /\ header[c.id].status = "reserved"
        /\ lines' = lines
        /\ \A r \in ReservationId \ {c.id} : header'[r] = header[r]
    BY <1>1 DEF Transition, Target, Core, TypeOK, Header
  <1>6. HeldUnits(x) = HeldUnits(x)' \cup ({c.id} \X (1..ls[x]))
    <2>1. ASSUME NEW r \in ReservationId, NEW i \in 1..MaxBigint
          PROVE  (header[r].status = "reserved" /\ i <= lines[r][x])
                   <=> \/ header'[r].status = "reserved" /\ i <= lines'[r][x]
                       \/ r = c.id /\ i \in 1..ls[x]
      BY <1>3, <1>5, MaxBigintType
    <2> QED
      BY <1>1, <1>3, <2>1, MaxBigintType DEF HeldUnits
  <1>7. HeldUnits(x)' \cap ({c.id} \X (1..ls[x])) = {}
    BY <1>5 DEF HeldUnits
  <1>8. IsFiniteSet(HeldUnits(x)') /\ Cardinality(HeldUnits(x)') \in Nat
    <2>1. HeldUnits(x)' \in SUBSET HeldUnits(x)
      BY <1>6
    <2> QED
      BY <2>1, HeldUnitsFinite, FS_Subset, FS_CardinalityType
  <1>9. Cardinality(HeldUnits(x)) = Cardinality(HeldUnits(x)') + ls[x]
    <2>1. Cardinality(HeldUnits(x)' \cup ({c.id} \X (1..ls[x])))
             = Cardinality(HeldUnits(x)') + ls[x]
      BY <1>3, <1>7, <1>8, AddUnits
    <2> QED
      BY <1>6, <2>1
  <1>10. bal[x].reserved = Cardinality(HeldUnits(x))
    BY DEF ReservedIsHeld
  <1> QED
    BY <1>3, <1>4, <1>8, <1>9, <1>10

\* A stock command leaves the reserved counter and the holds alone.
LEMMA StockCommandHeld ==
    ASSUME Core, ReservedIsHeld, NEW c \in CommandCall, StockCommand(c)
    PROVE  ReservedIsHeld'
  <1> DEFINE x == <<c.sku, c.wh>>
  <1>1. x \in Row
    BY DEF CommandCall, Row
  <1>2. CommandEffect(c, bal[x]).reserved = bal[x].reserved
    BY <1>1, CommandEffectType DEF StockCommand, Core, TypeOK, BalancesOK, NoBalance
  <1>3. \A y \in Row : bal'[y].reserved = bal[y].reserved
    BY <1>1, <1>2 DEF StockCommand, Core, TypeOK
  <1>4. \A y \in Row : HeldUnits(y)' = HeldUnits(y)
    BY DEF StockCommand, HeldUnits
  <1> QED
    BY <1>3, <1>4 DEF ReservedIsHeld

Held == Core /\ ReservedIsHeld

\* Before the first call nothing is reserved and nothing is held.
LEMMA HeldInit == Init => Held
  <1> SUFFICES ASSUME Init PROVE ReservedIsHeld
    BY CoreInit DEF Held
  <1>1. \A x \in Row : HeldUnits(x) = {}
    BY DEF Init, HeldUnits, NoHeader
  <1>2. \A x \in Row : bal[x].reserved = 0
    BY StockAssumption DEF Init
  <1> QED
    BY <1>1, <1>2, FS_EmptySet DEF ReservedIsHeld

\* Every call changes the reserved counter and the holds alike: Held is
\* inductive.
LEMMA HeldStep == Held /\ [Next]_vars => Held'
  <1> SUFFICES ASSUME Held, [Next]_vars PROVE ReservedIsHeld'
    BY CoreStep DEF Held
  <1>1. CASE UNCHANGED vars
    BY <1>1 DEF vars, Held, ReservedIsHeld, HeldUnits
  <1>2. ASSUME NEW c \in Calls, c.op = "reserve", Reserve(c) PROVE ReservedIsHeld'
    BY <1>2, CallShape, ReserveHeld DEF Held
  <1>3. ASSUME NEW c \in Calls, c.op \in {"release", "commit"}, Transition(c)
        PROVE  ReservedIsHeld'
    BY <1>3, CallShape, TransitionHeld DEF Held
  <1>4. ASSUME NEW c \in Calls, c.op \in CommandOp, StockCommand(c) PROVE ReservedIsHeld'
    BY <1>4, CallShape, StockCommandHeld DEF Held
  <1> QED
    BY <1>1, <1>2, <1>3, <1>4 DEF Next

\* inventory_balances.reserved is always the sum of the open holds.
THEOREM ReservedMatchesHolds == Spec => []ReservedIsHeld
  <1>1. Held => ReservedIsHeld
    BY DEF Held
  <1> QED
    BY HeldInit, HeldStep, <1>1, PTL DEF Spec

-----------------------------------------------------------------------------
(* Holds can be settled *)

\* A line of an open reservation is covered by its row's reserved counter.
LEMMA HoldCovered ==
    ASSUME Held, NEW r \in ReservationId, header[r].status = "reserved",
           NEW x \in Row
    PROVE  lines[r][x] <= bal[x].reserved
  <1>1. lines[r][x] \in 0..MaxBigint /\ lines[r][x] \in Nat
    BY MaxBigintType DEF Held, Core, TypeOK
  <1> DEFINE T == {r} \X (1..lines[r][x])
  <1>2. T \in SUBSET HeldUnits(x)
    BY <1>1, MaxBigintType DEF HeldUnits
  <1>3. Cardinality(T) <= Cardinality(HeldUnits(x))
    BY <1>2, HeldUnitsFinite, FS_Subset
  <1>4. Cardinality(T) = lines[r][x]
    BY <1>1, UnitsOfOne
  <1> QED
    BY <1>3, <1>4 DEF Held, ReservedIsHeld

\* A counter that is the sum of the holds is enough to settle any of them.
LEMMA HeldImpliesSettle == Held => HoldsCanSettle
  <1> SUFFICES ASSUME Held, NEW r \in ReservationId, header[r].status = "reserved",
                      NEW op \in {"release", "commit"}, NEW x \in Row, lines[r][x] > 0
               PROVE  bal[x].live /\ SchemaChecks(LineEffect(op, bal[x], lines[r][x]))
    BY DEF HoldsCanSettle, CanSettle
  <1> DEFINE q == lines[r][x]
             e == LineEffect(op, bal[x], q)
  <1>1. q \in Nat /\ bal[x] \in Balance
    BY MaxBigintType DEF Held, Core, TypeOK
  <1>2. q <= bal[x].reserved
    BY HoldCovered
  <1>3. bal[x].live
    BY <1>1, <1>2 DEF Held, Core, BalancesOK, NoBalance
  <1>4. SchemaChecks(bal[x])
    BY DEF Held, Core, BalancesOK
  <1>5. /\ e.safety = bal[x].safety
        /\ e.onHand = bal[x].onHand + OnHandDelta(op, q)
        /\ e.reserved = bal[x].reserved + ReservedDelta(op, q)
    BY <1>1, LineEffectFields DEF LineOp
  <1>6. CASE op = "release"
    BY <1>1, <1>2, <1>3, <1>4, <1>5, <1>6, MaxBigintType
    DEF SchemaChecks, Balance, OnHandDelta, ReservedDelta
  <1>7. CASE op = "commit"
    BY <1>1, <1>2, <1>3, <1>4, <1>5, <1>7, MaxBigintType
    DEF SchemaChecks, Balance, OnHandDelta, ReservedDelta
  <1> QED
    BY <1>3, <1>6, <1>7

\* No receive, adjustment or safety stock change can strand a hold: Release and
\* Commit of a reserved reservation never fail on its balance rows.
THEOREM HoldsAlwaysSettle == Spec => []HoldsCanSettle
  BY HeldInit, HeldStep, HeldImpliesSettle, PTL DEF Spec

-----------------------------------------------------------------------------
(* What a step may never do *)

\* A step that raises a reserved counter is a Reserve of covered lines.
LEMMA SafetyStockStep ==
    ASSUME Core, [Next]_vars, NEW x \in Row, bal'[x].reserved > bal[x].reserved
    PROVE  bal[x].live /\ bal'[x].reserved + bal[x].safety <= bal[x].onHand
  <1>1. bal[x] \in Balance
    BY DEF Core, TypeOK
  <1>2. CASE UNCHANGED vars
    BY <1>1, <1>2 DEF vars, Balance
  <1>3. ASSUME NEW c \in Calls, c.op = "reserve", Reserve(c)
        PROVE  bal[x].live /\ bal'[x].reserved + bal[x].safety <= bal[x].onHand
    <2>1. c.id \in ReservationId /\ c.payload \in Payload
      BY <1>3, CallShape DEF ReserveCall
    <2>2. PICK w \in Active : /\ FulfillsLines(bal, w, c.payload)
                              /\ MoveStock("reserve", c.id, Alloc(c.payload, w))
      BY <1>3 DEF Reserve
    <2> DEFINE q == Alloc(c.payload, w)[x]
    <2>3. q \in Nat /\ Alloc(c.payload, w) \in [Row -> 0..MaxBigint]
      BY <2>1, AllocType, MaxBigintType
    <2>4. bal'[x].reserved = bal[x].reserved + q
      BY <2>1, <2>2, <2>3, MoveStockEffect DEF Core, LineOp, ReservedDelta
    <2>5. q > 0
      BY <1>1, <2>3, <2>4 DEF Balance
    <2>6. bal[x].live /\ bal[x].reserved + bal[x].safety + q <= bal[x].onHand
      BY <2>1, <2>2, <2>5, CoveredRow DEF Core
    <2> QED
      BY <1>1, <2>3, <2>4, <2>6 DEF Balance
  <1>4. ASSUME NEW c \in Calls, c.op \in {"release", "commit"}, Transition(c)
        PROVE  FALSE
    <2>1. c.id \in ReservationId /\ c.op \in LineOp /\ c.op # "reserve"
      BY <1>4, CallShape DEF TransitionCall, LineOp
    <2>2. lines[c.id] \in [Row -> 0..MaxBigint] /\ lines[c.id][x] \in Nat
      BY <2>1, MaxBigintType DEF Core, TypeOK
    <2>3. bal'[x].reserved = bal[x].reserved + ReservedDelta(c.op, lines[c.id][x])
      BY <1>4, <2>1, <2>2, MoveStockEffect DEF Core, Transition, CanSettle
    <2> QED
      BY <1>1, <2>1, <2>2, <2>3 DEF ReservedDelta, Balance
  <1>5. ASSUME NEW c \in Calls, c.op \in CommandOp, StockCommand(c)
        PROVE  FALSE
    <2> DEFINE y == <<c.sku, c.wh>>
    <2>1. c \in CommandCall /\ y \in Row
      BY <1>5, CallShape DEF CommandCall, Row
    <2>2. CommandEffect(c, bal[y]).reserved = bal[y].reserved
      BY <1>5, <2>1, CommandEffectType DEF StockCommand, Core, TypeOK, BalancesOK, NoBalance
    <2>3. bal'[x].reserved = bal[x].reserved
      BY <1>5, <2>1, <2>2 DEF StockCommand, Core, TypeOK
    <2> QED
      BY <1>1, <2>3 DEF Balance
  <1> QED
    BY <1>2, <1>3, <1>4, <1>5 DEF Next

\* Stock is held only if it is on hand, free and above the safety stock.
THEOREM NeverOversold == Spec => HoldsLeaveSafetyStock
  <1>1. Core /\ [Next]_vars =>
          [\A x \in Row : bal'[x].reserved > bal[x].reserved =>
             /\ bal[x].live
             /\ bal'[x].reserved + bal[x].safety <= bal[x].onHand]_vars
    BY SafetyStockStep
  <1> QED
    BY CoreInit, CoreStep, <1>1, PTL DEF Spec, HoldsLeaveSafetyStock

\* The ledger, the lines and the settled headers are only ever added to.
RecordsKept ==
    /\ ledger \subseteq ledger'
    /\ \A r \in ReservationId : header[r].status # "none" =>
         /\ lines'[r] = lines[r]
         /\ header'[r].order = header[r].order
         /\ header'[r].payload = header[r].payload
         /\ header[r].status # "reserved" => header'[r] = header[r]

LEMMA RecordsStep == Core /\ [Next]_vars => RecordsKept
  <1>1. ASSUME Core, NEW c \in Calls, c.op = "reserve", Reserve(c) PROVE RecordsKept
    <2>1. ledger \subseteq ledger'
      BY <1>1 DEF Reserve, MoveStock
    <2>2. \A r \in ReservationId \ {c.id} : lines'[r] = lines[r] /\ header'[r] = header[r]
      BY <1>1 DEF Reserve, Core, TypeOK
    <2>3. header[c.id].status = "none"
      BY <1>1 DEF Reserve
    <2> QED
      BY <2>1, <2>2, <2>3 DEF RecordsKept
  <1>2. ASSUME Core, NEW c \in Calls, c.op \in {"release", "commit"}, Transition(c)
        PROVE  RecordsKept
    <2>1. ledger \subseteq ledger' /\ lines' = lines
      BY <1>2 DEF Transition, MoveStock
    <2>2. \A r \in ReservationId \ {c.id} : header'[r] = header[r]
      BY <1>2 DEF Transition, Core, TypeOK
    <2>3. c.id \in ReservationId
      BY <1>2, CallShape DEF TransitionCall
    <2>4. /\ header[c.id].status = "reserved"
          /\ header'[c.id].order = header[c.id].order
          /\ header'[c.id].payload = header[c.id].payload
      BY <1>2, <2>3 DEF Transition, Core, TypeOK, Header
    <2> QED
      BY <2>1, <2>2, <2>4 DEF RecordsKept
  <1>3. ASSUME NEW c \in Calls, StockCommand(c) PROVE RecordsKept
    BY <1>3 DEF StockCommand, RecordsKept
  <1>4. ASSUME UNCHANGED vars PROVE RecordsKept
    BY <1>4 DEF vars, RecordsKept
  <1> QED
    BY <1>1, <1>2, <1>3, <1>4 DEF Next

\* Acknowledged facts are never rewritten.
THEOREM HistoryNeverRewritten == Spec => HistoryIsKept
  <1>1. Core /\ [Next]_vars =>
          [/\ ledger \subseteq ledger'
           /\ \A r \in ReservationId : header[r].status # "none" =>
                /\ lines'[r] = lines[r]
                /\ header'[r].order = header[r].order
                /\ header'[r].payload = header[r].payload
                /\ header[r].status # "reserved" => header'[r] = header[r]]_vars
    BY RecordsStep DEF RecordsKept
  <1> QED
    BY CoreInit, CoreStep, <1>1, PTL DEF Spec, HistoryIsKept

\* No call deletes a balance row or a header, and a header that is not there is
\* empty.
LEMMA NothingDeleted ==
    ASSUME Core, [Next]_vars
    PROVE  /\ \A x \in Row : bal[x].live => bal'[x].live
           /\ \A r \in ReservationId : header[r].status # "none" => header'[r].status # "none"
           /\ \A r \in ReservationId : (header[r].status = "none" => header[r] = NoHeader)
                   => (header'[r].status = "none" => header'[r] = NoHeader)
  <1>0. header \in [ReservationId -> Header]
    BY DEF Core, TypeOK
  <1>1. CASE UNCHANGED vars
    BY <1>1 DEF vars
  <1>2. ASSUME NEW c \in Calls, c.op = "reserve", Reserve(c)
        PROVE  /\ \A x \in Row : bal'[x].live = bal[x].live
               /\ \A r \in ReservationId : header'[r] = header[r] \/ header'[r].status = "reserved"
    <2>1. c.id \in ReservationId /\ c.payload \in Payload
      BY <1>2, CallShape DEF ReserveCall
    <2>2. PICK w \in Active : MoveStock("reserve", c.id, Alloc(c.payload, w))
      BY <1>2 DEF Reserve
    <2>3. \A x \in Row : bal'[x].live = bal[x].live
      BY <2>1, <2>2, AllocType, MoveStockEffect DEF Core, LineOp
    <2> QED
      BY <1>2, <1>0, <2>3 DEF Reserve
  <1>3. ASSUME NEW c \in Calls, c.op \in {"release", "commit"}, Transition(c)
        PROVE  /\ \A x \in Row : bal'[x].live = bal[x].live
               /\ \A r \in ReservationId :
                     header'[r] = header[r] \/ header'[r].status \in {"committed", "released"}
    <2>1. c.id \in ReservationId /\ c.op \in LineOp
      BY <1>3, CallShape DEF TransitionCall, LineOp
    <2>2. \A x \in Row : bal'[x].live = bal[x].live
      BY <1>3, <2>1, MoveStockEffect DEF Core, TypeOK, Transition, CanSettle
    <2> QED
      BY <1>3, <1>0, <2>1, <2>2 DEF Transition, Target, Header
  <1>4. ASSUME NEW c \in Calls, c.op \in CommandOp, StockCommand(c)
        PROVE  /\ \A x \in Row : bal[x].live => bal'[x].live
               /\ header' = header
    <2>1. c \in CommandCall /\ <<c.sku, c.wh>> \in Row
      BY <1>4, CallShape DEF CommandCall, Row
    <2>2. CommandEffect(c, bal[<<c.sku, c.wh>>]).live
      BY <1>4, <2>1, CommandEffectType DEF StockCommand, Core, TypeOK, BalancesOK, NoBalance
    <2> QED
      BY <1>4, <2>1, <2>2 DEF StockCommand, Core, TypeOK
  <1> QED
    BY <1>1, <1>2, <1>3, <1>4 DEF Next

-----------------------------------------------------------------------------
(* The ledger *)

\* The ledger rows of a line name its operation and its reservation.
LEMMA LineMovesKey ==
    ASSUME NEW op \in LineOp, NEW r, NEW ls, NEW m \in LineMoves(op, r, ls)
    PROVE  m.key[1] = op /\ op # "command" /\ m.key[2] = r
  BY DEF LineMoves, LineMove, LineOp

\* MoveStock adds to the ledger rows of its own reservation only.
LEMMA MoveStockMoves ==
    ASSUME NEW op \in LineOp, NEW r0, NEW ls, MoveStock(op, r0, ls), NEW r
    PROVE  MovesOf(r)' = IF r = r0 THEN MovesOf(r) \cup LineMoves(op, r0, ls) ELSE MovesOf(r)
  <1>1. ledger' = ledger \cup LineMoves(op, r0, ls)
    BY DEF MoveStock
  <1> QED
    BY <1>1, LineMovesKey DEF MovesOf

\* A stock command adds to no reservation's ledger rows.
LEMMA StockCommandMoves ==
    ASSUME NEW c \in CommandCall, StockCommand(c), NEW r
    PROVE  MovesOf(r)' = MovesOf(r)
  <1>1. CommandMove(c).key[1] = "command"
    BY DEF CommandMove
  <1> QED
    BY <1>1 DEF StockCommand, MovesOf

\* OnceEffect for one reservation, without CASE.
OnceFor(r) ==
    LET before == LineMoves("reserve", r, lines[r]) IN
    /\ header[r].status = "reserved" => MovesOf(r) = before
    /\ header[r].status = "committed" =>
          MovesOf(r) = before \cup LineMoves("commit", r, lines[r])
    /\ header[r].status = "released" =>
          MovesOf(r) = before \cup LineMoves("release", r, lines[r])
    /\ header[r].status \notin {"reserved", "committed", "released"} => MovesOf(r) = {}

\* The CASE of OnceEffect on any status st and any line ls of a reservation.
LEMMA OnceCase ==
    ASSUME NEW st, NEW r, NEW ls, NEW S
    PROVE  S = (CASE st = "reserved" -> LineMoves("reserve", r, ls)
                  [] st \in {"committed", "released"} ->
                        LineMoves("reserve", r, ls)
                        \cup LineMoves(IF st = "committed" THEN "commit" ELSE "release", r, ls)
                  [] OTHER -> {})
           <=> /\ st = "reserved" => S = LineMoves("reserve", r, ls)
               /\ st = "committed" =>
                     S = LineMoves("reserve", r, ls) \cup LineMoves("commit", r, ls)
               /\ st = "released" =>
                     S = LineMoves("reserve", r, ls) \cup LineMoves("release", r, ls)
               /\ st \notin {"reserved", "committed", "released"} => S = {}
  OBVIOUS

\* Before the first call no reservation has ledger rows.
LEMMA OnceInit == Init => OnceEffect
  BY DEF Init, OnceEffect, MovesOf, NoHeader

\* Every call keeps the ledger rows of each reservation those of its status.
LEMMA OnceStep == Core /\ OnceEffect /\ [Next]_vars => OnceEffect'
  <1> SUFFICES ASSUME Core, OnceEffect, [Next]_vars PROVE OnceEffect'
    OBVIOUS
  <1>now. \A r \in ReservationId : OnceFor(r)
    BY OnceCase DEF OnceEffect, OnceFor
  <1>then. (\A r \in ReservationId : OnceFor(r)') => OnceEffect'
    BY OnceCase DEF OnceEffect, OnceFor
  <1>1. CASE UNCHANGED vars
    BY <1>1 DEF vars, OnceEffect, MovesOf
  <1>2. ASSUME NEW c \in Calls, c.op = "reserve", Reserve(c) PROVE OnceEffect'
    <2>1. c.id \in ReservationId
      BY <1>2, CallShape DEF ReserveCall
    <2>2. PICK w \in Active : /\ lines' = [lines EXCEPT ![c.id] = Alloc(c.payload, w)]
                              /\ MoveStock("reserve", c.id, Alloc(c.payload, w))
      BY <1>2 DEF Reserve
    <2>3. /\ header[c.id].status = "none" /\ header'[c.id].status = "reserved"
          /\ lines'[c.id] = Alloc(c.payload, w)
          /\ \A r \in ReservationId \ {c.id} : header'[r] = header[r] /\ lines'[r] = lines[r]
      BY <1>2, <2>1, <2>2 DEF Reserve, Core, TypeOK
    <2>4. MovesOf(c.id)' = LineMoves("reserve", c.id, lines'[c.id])
      <3>1. MovesOf(c.id) = {}
        BY <2>1, <2>3, <1>now DEF OnceFor
      <3>2. MovesOf(c.id)' = MovesOf(c.id)
                               \cup LineMoves("reserve", c.id, Alloc(c.payload, w))
        BY <2>1, <2>2, MoveStockMoves DEF LineOp
      <3> QED
        BY <3>1, <3>2, <2>3
    <2>5. \A r \in ReservationId \ {c.id} : MovesOf(r)' = MovesOf(r)
      BY <2>2, MoveStockMoves DEF LineOp
    <2>6. ASSUME NEW r \in ReservationId PROVE OnceFor(r)'
      <3>1. CASE r = c.id
        BY <3>1, <2>3, <2>4 DEF OnceFor
      <3>2. CASE r # c.id
        BY <3>2, <2>3, <2>5, <1>now DEF OnceFor
      <3> QED
        BY <3>1, <3>2
    <2> QED
      BY <2>6, <1>then
  <1>3. ASSUME NEW c \in Calls, c.op \in {"release", "commit"}, Transition(c)
        PROVE  OnceEffect'
    <2>1. c.id \in ReservationId /\ c.op \in LineOp
      BY <1>3, CallShape DEF TransitionCall, LineOp
    <2>2. /\ header[c.id].status = "reserved" /\ header'[c.id].status = Target(c.op)
          /\ lines' = lines
          /\ \A r \in ReservationId \ {c.id} : header'[r] = header[r]
      BY <1>3, <2>1 DEF Transition, Core, TypeOK, Header
    <2>3. MovesOf(c.id)' = LineMoves("reserve", c.id, lines[c.id])
                             \cup LineMoves(c.op, c.id, lines[c.id])
      BY <1>3, <2>1, <2>2, MoveStockMoves, <1>now DEF Transition, OnceFor
    <2>4. \A r \in ReservationId \ {c.id} : MovesOf(r)' = MovesOf(r)
      BY <1>3, <2>1, MoveStockMoves DEF Transition
    <2>5. /\ Target(c.op) \in {"committed", "released"}
          /\ c.op = IF Target(c.op) = "committed" THEN "commit" ELSE "release"
      BY <1>3 DEF Target
    <2>6. ASSUME NEW r \in ReservationId PROVE OnceFor(r)'
      <3>1. CASE r = c.id
        BY <3>1, <2>2, <2>3, <2>5 DEF OnceFor
      <3>2. CASE r # c.id
        BY <3>2, <2>2, <2>4, <1>now DEF OnceFor
      <3> QED
        BY <3>1, <3>2
    <2> QED
      BY <2>6, <1>then
  <1>4. ASSUME NEW c \in Calls, c.op \in CommandOp, StockCommand(c) PROVE OnceEffect'
    <2>1. header' = header /\ lines' = lines /\ \A r : MovesOf(r)' = MovesOf(r)
      BY <1>4, CallShape, StockCommandMoves DEF StockCommand
    <2> QED
      BY <2>1 DEF OnceEffect
  <1> QED
    BY <1>1, <1>2, <1>3, <1>4 DEF Next

\* Each reservation takes effect in the ledger exactly as its status says.
THEOREM EffectsHappenOnce == Spec => []OnceEffect
  <1>1. Init => Core /\ OnceEffect
    BY CoreInit, OnceInit
  <1>2. Core /\ OnceEffect /\ [Next]_vars => (Core /\ OnceEffect)'
    BY CoreStep, OnceStep
  <1> QED
    BY <1>1, <1>2, PTL DEF Spec


-----------------------------------------------------------------------------
(* The ledger replays to the balances *)

Pos(q) == IF q > 0 THEN q ELSE 0

\* Column g continues column f of a ledger L by the rows N.  The one of them
\* for balance row x has q units, or there is none and q is 0.
Continues(f, L, g, N, x, q) ==
    /\ IsFiniteSet(L) /\ L \cap N = {}
    /\ f \in [L -> Int] /\ g \in [L \cup N -> Int] /\ \A m \in L : g[m] = f[m]
    /\ q \in (-MaxBigint)..MaxBigint
    /\ \/ \E m \in N : m.row = x /\ g[m] = q /\ \A n \in N : n.row = x => n = m
       \/ q = 0 /\ \A n \in N : n.row # x

\* Such rows add the positive part of q to the units of x.
LEMMA UnitsGrow ==
    ASSUME NEW L, NEW N, NEW x, NEW f, NEW g, NEW q, Continues(f, L, g, N, x, q)
    PROVE  /\ Cardinality(Units(f, x)) \in Nat
           /\ Cardinality(Units(g, x)) = Cardinality(Units(f, x)) + Pos(q)
  <1> USE DEF Continues
  <1>1. IsFiniteSet(Units(f, x)) /\ Cardinality(Units(f, x)) \in Nat
    <2>1. IsFiniteSet(1..MaxBigint)
      BY MaxBigintType, FS_Interval
    <2>2. IsFiniteSet(L \X (1..MaxBigint))
      BY <2>1, FS_Product
    <2>3. Units(f, x) \in SUBSET (L \X (1..MaxBigint))
      BY DEF Units
    <2> QED
      BY <2>2, <2>3, FS_Subset, FS_CardinalityType
  <1>2. CASE \E m \in N : m.row = x /\ g[m] = q /\ \A n \in N : n.row = x => n = m
    <2>1. PICK m \in N : m.row = x /\ g[m] = q /\ \A n \in N : n.row = x => n = m
      BY <1>2
    <2>2. Pos(q) \in 0..MaxBigint /\ Pos(q) \in Nat
      BY MaxBigintType DEF Pos
    <2>3. Units(g, x) = Units(f, x) \cup ({m} \X (1..Pos(q)))
      <3>1. ASSUME NEW n \in L \cup N, NEW i \in 1..MaxBigint
            PROVE  (n.row = x /\ i <= g[n])
                     <=> \/ n \in L /\ n.row = x /\ i <= f[n]
                         \/ n = m /\ i \in 1..Pos(q)
        <4>1. CASE n \in L
          BY <4>1, <2>1
        <4>2. CASE n \in N
          BY <4>2, <2>1, MaxBigintType DEF Pos
        <4> QED
          BY <4>1, <4>2
      <3>2. \A i \in 1..Pos(q) : i \in 1..MaxBigint
        BY <2>2, MaxBigintType
      <3>3. \A u \in (L \cup N) \X (1..MaxBigint) : u[1] \in L \cup N /\ u[2] \in 1..MaxBigint
        OBVIOUS
      <3>4. /\ Units(g, x) = {u \in (L \cup N) \X (1..MaxBigint) :
                                 u[1].row = x /\ u[2] <= g[u[1]]}
            /\ Units(f, x) = {u \in L \X (1..MaxBigint) : u[1].row = x /\ u[2] <= f[u[1]]}
        BY DEF Units
      <3>5. Units(g, x) \subseteq Units(f, x) \cup ({m} \X (1..Pos(q)))
        BY <3>1, <3>3, <3>4
      <3>6. Units(f, x) \subseteq Units(g, x)
        BY <3>1, <3>4
      <3>7. {m} \X (1..Pos(q)) \subseteq Units(g, x)
        BY <2>1, <3>1, <3>2, <3>4
      <3> QED
        BY <3>5, <3>6, <3>7
    <2>4. Units(f, x) \cap ({m} \X (1..Pos(q))) = {}
      BY <2>1 DEF Units
    <2>5. Cardinality(Units(f, x) \cup ({m} \X (1..Pos(q)))) = Cardinality(Units(f, x)) + Pos(q)
      BY <1>1, <2>2, <2>4, AddUnits
    <2> QED
      BY <1>1, <2>3, <2>5
  <1>3. CASE q = 0 /\ \A n \in N : n.row # x
    <2>1. Units(g, x) = Units(f, x)
      BY <1>3 DEF Units
    <2> QED
      BY <1>1, <1>3, <2>1 DEF Pos
  <1> QED
    BY <1>2, <1>3

\* LedgerReplays for one row.
ReplaysAt(x) ==
    /\ bal[x].onHand + Cardinality(Units(OnHandDown, x))
          = Seeded[x].onHand + Cardinality(Units(OnHandUp, x))
    /\ bal[x].reserved + Cardinality(Units(ReservedDown, x))
          = Seeded[x].reserved + Cardinality(Units(ReservedUp, x))

\* A balance row that changes by the deltas of its one new ledger row, or does
\* not change and has none, still replays.
LEMMA ReplayStep ==
    ASSUME Core, Core', IsFiniteSet(ledger), NEW N, ledger' = ledger \cup N, ledger \cap N = {},
           NEW x \in Row, ReplaysAt(x),
           NEW a \in (-MaxBigint)..MaxBigint, NEW b \in (-MaxBigint)..MaxBigint,
           bal'[x].onHand = bal[x].onHand + a, bal'[x].reserved = bal[x].reserved + b,
           \/ \E m \in N : /\ m.row = x /\ m.onHand = a /\ m.reserved = b
                           /\ \A n \in N : n.row = x => n = m
           \/ a = 0 /\ b = 0 /\ \A n \in N : n.row # x
    PROVE  ReplaysAt(x)'
  <1>1. /\ bal[x].onHand \in Int /\ bal[x].reserved \in Int
        /\ Seeded[x].onHand \in Int /\ Seeded[x].reserved \in Int
    BY StockAssumption DEF Core, TypeOK, Balance
  <1>2. /\ \A m \in ledger : m.onHand \in Int /\ m.reserved \in Int
        /\ \A m \in ledger \cup N : m.onHand \in Int /\ m.reserved \in Int
    BY DEF Core, TypeOK, Movement
  <1>3. /\ -a \in (-MaxBigint)..MaxBigint /\ -b \in (-MaxBigint)..MaxBigint
    BY MaxBigintType
  <1>4. /\ OnHandUp \in [ledger -> Int] /\ OnHandDown \in [ledger -> Int]
        /\ ReservedUp \in [ledger -> Int] /\ ReservedDown \in [ledger -> Int]
        /\ OnHandUp' \in [ledger \cup N -> Int] /\ OnHandDown' \in [ledger \cup N -> Int]
        /\ ReservedUp' \in [ledger \cup N -> Int] /\ ReservedDown' \in [ledger \cup N -> Int]
    BY <1>2 DEF OnHandUp, OnHandDown, ReservedUp, ReservedDown
  <1>0. /\ Cardinality(Units(OnHandUp, x)) \in Nat
        /\ Cardinality(Units(OnHandUp', x)) = Cardinality(Units(OnHandUp, x)) + Pos(a)
    <2>1. /\ \A m \in ledger : OnHandUp'[m] = OnHandUp[m]
          /\ \/ \E m \in N : m.row = x /\ OnHandUp'[m] = a /\ \A n \in N : n.row = x => n = m
             \/ a = 0 /\ \A n \in N : n.row # x
      BY <1>2 DEF OnHandUp
    <2>2. Continues(OnHandUp, ledger, OnHandUp', N, x, a)
      BY <1>4, <2>1 DEF Continues
    <2> QED
      BY <2>2, UnitsGrow
  <1>6. /\ Cardinality(Units(OnHandDown, x)) \in Nat
        /\ Cardinality(Units(OnHandDown', x)) = Cardinality(Units(OnHandDown, x)) + Pos(-a)
    <2>1. /\ \A m \in ledger : OnHandDown'[m] = OnHandDown[m]
          /\ \/ \E m \in N : m.row = x /\ OnHandDown'[m] = -a /\ \A n \in N : n.row = x => n = m
             \/ -a = 0 /\ \A n \in N : n.row # x
      BY <1>2 DEF OnHandDown
    <2>2. Continues(OnHandDown, ledger, OnHandDown', N, x, -a)
      BY <1>3, <1>4, <2>1 DEF Continues
    <2> QED
      BY <2>2, UnitsGrow
  <1>7. /\ Cardinality(Units(ReservedUp, x)) \in Nat
        /\ Cardinality(Units(ReservedUp', x)) = Cardinality(Units(ReservedUp, x)) + Pos(b)
    <2>1. /\ \A m \in ledger : ReservedUp'[m] = ReservedUp[m]
          /\ \/ \E m \in N : m.row = x /\ ReservedUp'[m] = b /\ \A n \in N : n.row = x => n = m
             \/ b = 0 /\ \A n \in N : n.row # x
      BY <1>2 DEF ReservedUp
    <2>2. Continues(ReservedUp, ledger, ReservedUp', N, x, b)
      BY <1>4, <2>1 DEF Continues
    <2> QED
      BY <2>2, UnitsGrow
  <1>8. /\ Cardinality(Units(ReservedDown, x)) \in Nat
        /\ Cardinality(Units(ReservedDown', x)) = Cardinality(Units(ReservedDown, x)) + Pos(-b)
    <2>1. /\ \A m \in ledger : ReservedDown'[m] = ReservedDown[m]
          /\ \/ \E m \in N : m.row = x /\ ReservedDown'[m] = -b /\ \A n \in N : n.row = x => n = m
             \/ -b = 0 /\ \A n \in N : n.row # x
      BY <1>2 DEF ReservedDown
    <2>2. Continues(ReservedDown, ledger, ReservedDown', N, x, -b)
      BY <1>3, <1>4, <2>1 DEF Continues
    <2> QED
      BY <2>2, UnitsGrow
  <1>9. /\ a \in Int /\ Pos(a) \in Int /\ Pos(-a) \in Int /\ Pos(a) - Pos(-a) = a
    BY MaxBigintType DEF Pos
  <1>10. /\ b \in Int /\ Pos(b) \in Int /\ Pos(-b) \in Int /\ Pos(b) - Pos(-b) = b
    BY MaxBigintType DEF Pos
  <1>11. bal'[x].onHand + Cardinality(Units(OnHandDown', x))
           = Seeded[x].onHand + Cardinality(Units(OnHandUp', x))
    <2>1. bal[x].onHand + Cardinality(Units(OnHandDown, x))
            = Seeded[x].onHand + Cardinality(Units(OnHandUp, x))
      BY DEF ReplaysAt
    <2>2. /\ bal[x].onHand \in Int /\ Seeded[x].onHand \in Int
          /\ Cardinality(Units(OnHandDown, x)) \in Int /\ Cardinality(Units(OnHandUp, x)) \in Int
      BY <1>1, <1>0, <1>6
    <2>3. (bal[x].onHand + a) + (Cardinality(Units(OnHandDown, x)) + Pos(-a))
            = Seeded[x].onHand + (Cardinality(Units(OnHandUp, x)) + Pos(a))
      BY <2>1, <2>2, <1>9
    <2> QED
      BY <1>0, <1>6, <2>3
  <1>12. bal'[x].reserved + Cardinality(Units(ReservedDown', x))
           = Seeded[x].reserved + Cardinality(Units(ReservedUp', x))
    <2>1. bal[x].reserved + Cardinality(Units(ReservedDown, x))
            = Seeded[x].reserved + Cardinality(Units(ReservedUp, x))
      BY DEF ReplaysAt
    <2>2. /\ bal[x].reserved \in Int /\ Seeded[x].reserved \in Int
          /\ Cardinality(Units(ReservedDown, x)) \in Int /\ Cardinality(Units(ReservedUp, x)) \in Int
      BY <1>1, <1>7, <1>8
    <2>3. (bal[x].reserved + b) + (Cardinality(Units(ReservedDown, x)) + Pos(-b))
            = Seeded[x].reserved + (Cardinality(Units(ReservedUp, x)) + Pos(b))
      BY <2>1, <2>2, <1>10
    <2> QED
      BY <1>7, <1>8, <2>3
  <1> QED
    BY <1>11, <1>12 DEF ReplaysAt, Units

\* The lines of a reservation add finitely many ledger rows, one for each row
\* with a line.
LEMMA LineMovesFinite ==
    ASSUME NEW op, NEW r, NEW ls
    PROVE  IsFiniteSet(LineMoves(op, r, ls))
  <1> DEFINE f == [m \in LineMoves(op, r, ls) |-> m.row]
  <1>1. \A m \in LineMoves(op, r, ls) : m.row \in Row /\ m = LineMove(op, r, m.row, ls[m.row])
    BY DEF LineMoves, LineMove
  <1>2. f \in [LineMoves(op, r, ls) -> Row] /\ \A m, n \in LineMoves(op, r, ls) : f[m] = f[n] => m = n
    BY <1>1
  <1>3. f \in Injection(LineMoves(op, r, ls), Row)
    BY <1>2 DEF Injection, IsInjective
  <1>4. IsFiniteSet(Row)
    BY StockAssumption, FS_Product DEF Row
  <1> QED
    BY <1>3, <1>4, FS_Injection

LEMMA LineMoveAt ==
    ASSUME NEW op \in LineOp, NEW r, NEW ls \in [Row -> 0..MaxBigint], NEW x \in Row
    PROVE  \/ \E m \in LineMoves(op, r, ls) :
                 /\ m.row = x
                 /\ m.onHand = OnHandDelta(op, ls[x]) /\ m.reserved = ReservedDelta(op, ls[x])
                 /\ \A n \in LineMoves(op, r, ls) : n.row = x => n = m
           \/ /\ OnHandDelta(op, ls[x]) = 0 /\ ReservedDelta(op, ls[x]) = 0
              /\ \A n \in LineMoves(op, r, ls) : n.row # x
  <1>1. CASE ls[x] > 0
    <2> DEFINE m == LineMove(op, r, x, ls[x])
    <2>1. m \in LineMoves(op, r, ls)
      BY <1>1 DEF LineMoves
    <2>2. m.row = x /\ m.onHand = OnHandDelta(op, ls[x]) /\ m.reserved = ReservedDelta(op, ls[x])
      BY DEF LineMove, OnHandDelta, ReservedDelta
    <2>3. \A n \in LineMoves(op, r, ls) : n.row = x => n = m
      BY DEF LineMoves, LineMove
    <2> QED
      BY <2>1, <2>2, <2>3
  <1>2. CASE ~(ls[x] > 0)
    <2>1. \A n \in LineMoves(op, r, ls) : n.row # x
      BY <1>2 DEF LineMoves, LineMove
    <2>2. ls[x] = 0
      BY <1>2, MaxBigintType
    <2>3. \A q \in Int : q <= 0 /\ q >= 0 => -q = q
      OBVIOUS
    <2>4. ls[x] \in Int /\ ls[x] <= 0 /\ ls[x] >= 0
      BY <1>2, MaxBigintType
    <2>5. -ls[x] = ls[x]
      BY <2>3, <2>4
    <2>6. OnHandDelta(op, ls[x]) = 0 /\ ReservedDelta(op, ls[x]) = 0
      BY <2>2, <2>5, Zenon DEF OnHandDelta, ReservedDelta
    <2> QED
      BY <2>1, <2>6
  <1> QED
    BY <1>1, <1>2

\* What makes LedgerReplays inductive.
Ledger == Core /\ OnceEffect /\ IsFiniteSet(ledger) /\ LedgerReplays

\* A step that moves the lines ls of reservation r for the first time with op
\* keeps every row replayable.
LEMMA MoveStockReplays ==
    ASSUME Core, Core', IsFiniteSet(ledger), \A x \in Row : ReplaysAt(x),
           NEW op \in LineOp, NEW r \in ReservationId, NEW ls \in [Row -> 0..MaxBigint],
           MoveStock(op, r, ls), ledger \cap LineMoves(op, r, ls) = {},
           \A x \in Row : ls[x] > 0 =>
              op = "reserve" \/ SchemaChecks(LineEffect(op, bal[x], ls[x]))
    PROVE  IsFiniteSet(ledger)' /\ \A x \in Row : ReplaysAt(x)'
  <1> DEFINE N == LineMoves(op, r, ls)
  <1>1. ledger' = ledger \cup N
    BY DEF MoveStock
  <1>2. IsFiniteSet(ledger')
    BY <1>1, LineMovesFinite, FS_Union
  <1>3. ASSUME NEW x \in Row PROVE ReplaysAt(x)'
    <2>1. /\ OnHandDelta(op, ls[x]) \in (-MaxBigint)..MaxBigint
          /\ ReservedDelta(op, ls[x]) \in (-MaxBigint)..MaxBigint
      BY MaxBigintType DEF OnHandDelta, ReservedDelta
    <2>2. /\ bal'[x].onHand = bal[x].onHand + OnHandDelta(op, ls[x])
          /\ bal'[x].reserved = bal[x].reserved + ReservedDelta(op, ls[x])
      BY MoveStockEffect DEF Core
    <2>3. \/ \E m \in N : /\ m.row = x /\ m.onHand = OnHandDelta(op, ls[x])
                          /\ m.reserved = ReservedDelta(op, ls[x])
                          /\ \A n \in N : n.row = x => n = m
          \/ /\ OnHandDelta(op, ls[x]) = 0 /\ ReservedDelta(op, ls[x]) = 0
             /\ \A n \in N : n.row # x
      BY LineMoveAt
    <2> QED
      BY <1>1, <2>1, <2>2, <2>3, ReplayStep, ZenonT(60)
  <1> QED
    BY <1>2, <1>3

\* The same for the one ledger row of a stock command.
LEMMA StockCommandReplays ==
    ASSUME Core, Core', IsFiniteSet(ledger), \A x \in Row : ReplaysAt(x),
           NEW c \in CommandCall, c.qty \in (-MaxBigint)..MaxBigint, StockCommand(c)
    PROVE  IsFiniteSet(ledger)' /\ \A x \in Row : ReplaysAt(x)'
  <1> DEFINE N == {CommandMove(c)}
             y == <<c.sku, c.wh>>
             a == IF c.op = "safety" THEN 0 ELSE c.qty
  <1>1. ledger' = ledger \cup N /\ ledger \cap N = {}
    BY DEF StockCommand
  <1>2. IsFiniteSet(ledger')
    BY <1>1, FS_AddElement
  <1>3. y \in Row /\ a \in (-MaxBigint)..MaxBigint /\ 0 \in (-MaxBigint)..MaxBigint
    BY MaxBigintType DEF CommandCall, Row
  <1>4. CommandMove(c).row = y /\ CommandMove(c).onHand = a /\ CommandMove(c).reserved = 0
    BY DEF CommandMove
  <1>0. /\ bal'[y] = CommandEffect(c, bal[y])
        /\ \A x \in Row : x # y => bal'[x] = bal[x]
    BY <1>3 DEF StockCommand, Core, TypeOK
  <1>6. bal'[y].onHand = bal[y].onHand + a /\ bal'[y].reserved = bal[y].reserved + 0
    BY <1>3, <1>0, CommandEffectFields DEF StockCommand, Core, TypeOK, BalancesOK
  <1>7. ASSUME NEW x \in Row PROVE ReplaysAt(x)'
    <2>1. CASE x = y
      <3>1. \E m \in N : /\ m.row = y /\ m.onHand = a /\ m.reserved = 0
                         /\ \A n \in N : n.row = y => n = m
        BY <1>4
      <3>2. ReplaysAt(y)'
        BY <1>1, <1>3, <1>6, <3>1, ReplayStep
      <3> QED
        BY <2>1, <3>2
    <2>2. CASE x # y
      <3>1. \A n \in N : n.row # x
        BY <1>4, <2>2
      <3>2. /\ bal'[x].onHand = bal[x].onHand + 0
            /\ bal'[x].reserved = bal[x].reserved + 0
        BY <1>0, <2>2 DEF Core, TypeOK, Balance
      <3> QED
        BY <1>1, <1>3, <3>1, <3>2, ReplayStep
    <2> QED
      BY <2>1, <2>2
  <1> QED
    BY <1>2, <1>7

\* LedgerReplays row by row.
LEMMA ReplaysEverywhere == LedgerReplays <=> \A x \in Row : ReplaysAt(x)
  BY DEF LedgerReplays, ReplaysAt

\* Before the first call the ledger is empty and the rows are the seeded ones.
LEMMA LedgerInit == Init => Ledger
  <1> SUFFICES ASSUME Init PROVE IsFiniteSet(ledger) /\ LedgerReplays
    BY CoreInit, OnceInit DEF Ledger
  <1>1. IsFiniteSet(ledger)
    BY FS_EmptySet DEF Init
  <1>2. ASSUME NEW x \in Row PROVE ReplaysAt(x)
    <2>1. /\ Units(OnHandUp, x) = {} /\ Units(OnHandDown, x) = {}
          /\ Units(ReservedUp, x) = {} /\ Units(ReservedDown, x) = {}
      BY DEF Init, Units, OnHandUp, OnHandDown, ReservedUp, ReservedDown
    <2> QED
      BY <2>1, FS_EmptySet DEF Init, ReplaysAt
  <1> QED
    BY <1>1, <1>2, ReplaysEverywhere

\* Every call writes what it does into the ledger: Ledger is inductive.
LEMMA LedgerStep == Ledger /\ [Next]_vars => Ledger'
  <1> SUFFICES ASSUME Ledger, [Next]_vars
               PROVE  IsFiniteSet(ledger)' /\ \A x \in Row : ReplaysAt(x)'
    BY CoreStep, OnceStep DEF Ledger, LedgerReplays, ReplaysAt
  <1>1. Core /\ Core' /\ OnceEffect /\ IsFiniteSet(ledger) /\ \A x \in Row : ReplaysAt(x)
    BY CoreStep, ReplaysEverywhere DEF Ledger
  <1>2. \A r \in ReservationId : OnceFor(r)
    BY <1>1, OnceCase DEF OnceEffect, OnceFor
  <1>3. CASE UNCHANGED vars
    <2>1. /\ OnHandUp' = OnHandUp /\ OnHandDown' = OnHandDown
          /\ ReservedUp' = ReservedUp /\ ReservedDown' = ReservedDown
      BY <1>3 DEF vars, OnHandUp, OnHandDown, ReservedUp, ReservedDown
    <2>2. ASSUME NEW x \in Row
          PROVE  /\ bal'[x].onHand + Cardinality(Units(OnHandDown', x))
                       = Seeded[x].onHand + Cardinality(Units(OnHandUp', x))
                 /\ bal'[x].reserved + Cardinality(Units(ReservedDown', x))
                       = Seeded[x].reserved + Cardinality(Units(ReservedUp', x))
      BY <1>1, <1>3, <2>1 DEF vars, ReplaysAt
    <2>3. ASSUME NEW x \in Row PROVE ReplaysAt(x)'
      BY <2>2 DEF ReplaysAt, Units
    <2> QED
      BY <1>1, <1>3, <2>3 DEF vars
  <1>4. ASSUME NEW c \in Calls, c.op = "reserve", Reserve(c)
        PROVE  IsFiniteSet(ledger)' /\ \A x \in Row : ReplaysAt(x)'
    <2>1. c.id \in ReservationId /\ c.payload \in Payload
      BY <1>4, CallShape DEF ReserveCall
    <2>2. PICK w \in Active : MoveStock("reserve", c.id, Alloc(c.payload, w))
      BY <1>4 DEF Reserve
    <2>3. Alloc(c.payload, w) \in [Row -> 0..MaxBigint]
      BY <2>1, AllocType
    <2>4. MovesOf(c.id) = {}
      BY <1>2, <1>4, <2>1 DEF Reserve, OnceFor
    <2>5. ledger \cap LineMoves("reserve", c.id, Alloc(c.payload, w)) = {}
      BY <2>4, LineMovesKey DEF MovesOf, LineOp
    <2> QED
      BY <1>1, <2>1, <2>2, <2>3, <2>5, MoveStockReplays DEF LineOp
  <1>0. ASSUME NEW c \in Calls, c.op \in {"release", "commit"}, Transition(c)
        PROVE  IsFiniteSet(ledger)' /\ \A x \in Row : ReplaysAt(x)'
    <2>1. c.id \in ReservationId /\ c.op \in LineOp /\ c.op # "reserve"
      BY <1>0, CallShape DEF TransitionCall, LineOp
    <2>2. lines[c.id] \in [Row -> 0..MaxBigint]
      BY <1>1, <2>1 DEF Core, TypeOK
    <2>3. MovesOf(c.id) = LineMoves("reserve", c.id, lines[c.id])
      BY <1>2, <1>0, <2>1 DEF Transition, OnceFor
    <2>4. ASSUME NEW m \in ledger, m \in LineMoves(c.op, c.id, lines[c.id]) PROVE FALSE
      <3>1. m.key[1] = c.op /\ m.key[1] # "command" /\ m.key[2] = c.id
        BY <2>1, <2>4, LineMovesKey
      <3>2. m \in LineMoves("reserve", c.id, lines[c.id])
        BY <2>3, <3>1 DEF MovesOf
      <3> QED
        BY <2>1, <3>1, <3>2, LineMovesKey DEF LineOp
    <2>5. \A x \in Row : lines[c.id][x] > 0 => SchemaChecks(LineEffect(c.op, bal[x], lines[c.id][x]))
      BY <1>0 DEF Transition, CanSettle
    <2> QED
      BY <1>1, <1>0, <2>1, <2>2, <2>4, <2>5, MoveStockReplays DEF Transition
  <1>6. ASSUME NEW c \in Calls, c.op \in CommandOp, StockCommand(c)
        PROVE  IsFiniteSet(ledger)' /\ \A x \in Row : ReplaysAt(x)'
    BY <1>1, <1>6, CallShape, StockCommandReplays
  <1> QED
    BY <1>3, <1>4, <1>0, <1>6 DEF Next

\* Replaying the ledger on the seeded rows always gives the balances.
THEOREM LedgerAlwaysReplays == Spec => []LedgerReplays
  <1>1. Ledger => LedgerReplays
    BY DEF Ledger
  <1> QED
    BY LedgerInit, LedgerStep, <1>1, PTL DEF Spec
=============================================================================
