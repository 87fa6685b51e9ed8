------------------------- MODULE InventoryTxProofs -------------------------
(***************************************************************************)
(* The write transactions implement the atomic service: theorems about     *)
(* InventoryTx, and about CallHistory, for every number of handlers, and   *)
(* every set of rows and calls.                                            *)
(*                                                                         *)
(* The argument is the code's own.  A transaction changes at COMMIT only   *)
(* what it has locked, and nobody else holds those locks; so what a        *)
(* statement has checked on locked data is still true at COMMIT, where it  *)
(* is the guard of one step of Inventory.                                  *)
(***************************************************************************)
EXTENDS CallHistory, FiniteSetTheorems, WellFoundedInduction, TLAPS

\* The theorems about the atomic service, over the committed tables.
Service == INSTANCE InventoryProofs WITH
               bal <- bal, header <- header, lines <- lines, ledger <- ledger

-----------------------------------------------------------------------------
(* The committed tables *)

\* The instance has the data of Stock under names of its own.
LEMMA SameData ==
    /\ Service!Row = Row /\ Abstract!Row = Row
    /\ Service!Balance = Balance /\ Abstract!Balance = Balance
    /\ Service!Header = Header /\ Abstract!Header = Header
    /\ Service!NoHeader = NoHeader /\ Abstract!NoHeader = NoHeader
    /\ Service!NoBalance = NoBalance
    /\ Service!Movement = Movement /\ Abstract!Movement = Movement
    /\ Service!CommandOp = CommandOp /\ Abstract!CommandOp = CommandOp
    /\ Service!ReserveCall = ReserveCall /\ Service!TransitionCall = TransitionCall
    /\ Service!CommandCall = CommandCall /\ Service!Call = Call
  BY DEF Row, Service!Row, Abstract!Row, Balance, Service!Balance, Abstract!Balance,
         Status, Service!Status, Abstract!Status,
         Header, Service!Header, Abstract!Header,
         NoHeader, Service!NoHeader, Abstract!NoHeader, NoBalance, Service!NoBalance,
         Movement, Service!Movement, Abstract!Movement,
         CommandOp, Service!CommandOp, Abstract!CommandOp,
         ReserveCall, Service!ReserveCall, TransitionCall, Service!TransitionCall,
         CommandCall, Service!CommandCall, Call, Service!Call

LEMMA SameChecks ==
    /\ \A b : Service!SchemaChecks(b) = SchemaChecks(b) /\ Abstract!SchemaChecks(b) = SchemaChecks(b)
    /\ \A S : Service!IsFiniteSet(S) = IsFiniteSet(S)
  BY DEF SchemaChecks, Service!SchemaChecks, Abstract!SchemaChecks,
         IsFiniteSet, Service!IsFiniteSet

LEMMA SameEffects ==
    /\ \A op, b, q : /\ Service!LineEffect(op, b, q) = LineEffect(op, b, q)
                     /\ Abstract!LineEffect(op, b, q) = LineEffect(op, b, q)
    /\ \A c, b : /\ Service!CommandEffect(c, b) = CommandEffect(c, b)
                 /\ Abstract!CommandEffect(c, b) = CommandEffect(c, b)
    /\ \A op, r, ls : /\ Service!LineMoves(op, r, ls) = LineMoves(op, r, ls)
                      /\ Abstract!LineMoves(op, r, ls) = LineMoves(op, r, ls)
    /\ \A c : /\ Service!CommandMove(c) = CommandMove(c)
              /\ Abstract!CommandMove(c) = CommandMove(c)
    /\ \A bs, w, pl : /\ Service!FulfillsLines(bs, w, pl) = FulfillsLines(bs, w, pl)
                      /\ Abstract!FulfillsLines(bs, w, pl) = FulfillsLines(bs, w, pl)
  <1>1. \A op, b, q : /\ Service!LineEffect(op, b, q) = LineEffect(op, b, q)
                      /\ Abstract!LineEffect(op, b, q) = LineEffect(op, b, q)
    BY DEF LineEffect, Service!LineEffect, Abstract!LineEffect
  <1>2. \A c, b : /\ Service!CommandEffect(c, b) = CommandEffect(c, b)
                  /\ Abstract!CommandEffect(c, b) = CommandEffect(c, b)
    BY DEF CommandEffect, Service!CommandEffect, Abstract!CommandEffect
  <1>3. \A op, r, x, q : /\ Service!LineMove(op, r, x, q) = LineMove(op, r, x, q)
                         /\ Abstract!LineMove(op, r, x, q) = LineMove(op, r, x, q)
    BY DEF LineMove, Service!LineMove, Abstract!LineMove
  <1>4. \A op, r, ls : /\ Service!LineMoves(op, r, ls) = LineMoves(op, r, ls)
                       /\ Abstract!LineMoves(op, r, ls) = LineMoves(op, r, ls)
    BY <1>3, SameData DEF LineMoves, Service!LineMoves, Abstract!LineMoves
  <1>5. \A c : /\ Service!CommandMove(c) = CommandMove(c)
               /\ Abstract!CommandMove(c) = CommandMove(c)
    BY DEF CommandMove, Service!CommandMove, Abstract!CommandMove
  <1>6. \A bs, w, pl : /\ Service!FulfillsLines(bs, w, pl) = FulfillsLines(bs, w, pl)
                       /\ Abstract!FulfillsLines(bs, w, pl) = FulfillsLines(bs, w, pl)
    BY DEF FulfillsLines, Service!FulfillsLines, Abstract!FulfillsLines,
           Requested, Service!Requested, Abstract!Requested,
           ATP, Service!ATP, Abstract!ATP
  <1> QED
    BY <1>1, <1>2, <1>4, <1>5, <1>6

\* Stock's assumption, under the names of the instance.
LEMMA ServiceAssumption ==
    /\ SKU \subseteq Nat /\ Service!IsFiniteSet(SKU)
    /\ Warehouse \subseteq Nat /\ Service!IsFiniteSet(Warehouse)
    /\ Active \subseteq Warehouse
    /\ Service!IsFiniteSet(ReservationId)
    /\ MaxBigint \in Nat
    /\ Items \in [Payload -> [SKU -> 0..MaxBigint]]
    /\ Calls \subseteq Service!Call
    /\ None \notin OrderId \cup Payload \cup Warehouse \cup Actor
    /\ \A c \in Calls : c.op \in Service!CommandOp => c.qty \in (-MaxBigint)..MaxBigint
    /\ Seeded \in [Service!Row -> Service!Balance]
    /\ \A x \in Service!Row : Service!SchemaChecks(Seeded[x]) /\ Seeded[x].reserved = 0
    /\ \A x \in Service!Row : ~Seeded[x].live => Seeded[x] = Service!NoBalance
  BY StockAssumption, SameData, SameChecks

\* The steps of the specification and of the instance with its theorems are
\* the same steps.
LEMMA SameService ==
    /\ Abstract!Init <=> Service!Init
    /\ Abstract!Next <=> Service!Next
    /\ Abstract!vars = Service!vars
  <1>1. Abstract!Init <=> Service!Init
    BY SameData DEF Abstract!Init, Service!Init, Abstract!NoLines, Service!NoLines
  <1>2. Abstract!vars = Service!vars
    BY DEF Abstract!vars, Service!vars
  <1>3. \A op, r, ls : Abstract!MoveStock(op, r, ls) <=> Service!MoveStock(op, r, ls)
    BY SameData, SameEffects DEF Abstract!MoveStock, Service!MoveStock
  <1>4. \A c : Abstract!Reserve(c) <=> Service!Reserve(c)
    BY <1>3, SameData, SameEffects
    DEF Abstract!Reserve, Service!Reserve, Abstract!Alloc, Service!Alloc
  <1>5. \A c : Abstract!Transition(c) <=> Service!Transition(c)
    BY <1>3, SameData, SameChecks, SameEffects
    DEF Abstract!Transition, Service!Transition, Abstract!CanSettle, Service!CanSettle,
        Abstract!Target, Service!Target
  <1>6. \A c : Abstract!StockCommand(c) <=> Service!StockCommand(c)
    BY SameChecks, SameEffects DEF Abstract!StockCommand, Service!StockCommand
  <1>7. Abstract!Next <=> Service!Next
    BY <1>4, <1>5, <1>6, SameData DEF Abstract!Next, Service!Next
  <1> QED
    BY <1>1, <1>2, <1>7

\* What holds of the tables between COMMITs.
Tables == Service!Held

LEMMA TablesInit == Abstract!Init => Tables
  BY ServiceAssumption, SameService, Service!HeldInit DEF Tables

LEMMA TablesStep == Tables /\ [Abstract!Next]_(Abstract!vars) => Tables'
  BY ServiceAssumption, SameService, Service!HeldStep DEF Tables, Abstract!vars, Service!vars

\* The part of it the transactions rely on.
LEMMA TablesFacts ==
    ASSUME Tables
    PROVE  /\ Abstract!TypeOK
           /\ bal \in [Row -> Balance]
           /\ header \in [ReservationId -> Header]
           /\ lines \in [ReservationId -> [Row -> 0..MaxBigint]]
           /\ \A x \in Row : SchemaChecks(bal[x]) /\ (~bal[x].live => bal[x] = NoBalance)
           /\ \A r \in ReservationId, op \in {"release", "commit"}, x \in Row :
                 header[r].status = "reserved" /\ lines[r][x] > 0 =>
                    bal[x].live /\ SchemaChecks(LineEffect(op, bal[x], lines[r][x]))
  <1>1. /\ bal \in [Row -> Balance]
        /\ header \in [ReservationId -> Header]
        /\ lines \in [ReservationId -> [Row -> 0..MaxBigint]]
        /\ ledger \subseteq Movement
        /\ \A x \in Row : SchemaChecks(bal[x]) /\ (~bal[x].live => bal[x] = NoBalance)
    BY SameData, SameChecks
    DEF Tables, Service!Held, Service!Core, Service!TypeOK, Service!BalancesOK
  <1>2. Service!HoldsCanSettle
    BY ServiceAssumption, Service!HeldImpliesSettle DEF Tables
  <1>3. \A r \in ReservationId, op \in {"release", "commit"}, x \in Row :
           header[r].status = "reserved" /\ lines[r][x] > 0 =>
              bal[x].live /\ SchemaChecks(LineEffect(op, bal[x], lines[r][x]))
    BY <1>2, SameData, SameChecks, SameEffects
    DEF Service!HoldsCanSettle, Service!CanSettle
  <1> QED
    BY <1>1, <1>3, SameData DEF Abstract!TypeOK

\* A line of a covered payload has a live row and keeps it within the CHECKs.
LEMMA CoveredLine ==
    ASSUME Tables, NEW pl \in Payload, NEW w \in Active, FulfillsLines(bal, w, pl),
           NEW s \in Requested(pl)
    PROVE  /\ bal[<<s, w>>].live
           /\ SchemaChecks(LineEffect("reserve", bal[<<s, w>>], Items[pl][s]))
  <1> DEFINE b == bal[<<s, w>>]
             q == Items[pl][s]
  <1>1. s \in SKU /\ q > 0 /\ <<s, w>> \in Row
    BY StockAssumption DEF Requested, Row
  <1>2. b \in Balance /\ SchemaChecks(b)
    BY <1>1, TablesFacts
  <1>3. q \in Nat /\ ATP(b) >= q
    BY <1>1, StockAssumption DEF FulfillsLines
  <1>4. b.live /\ b.onHand >= b.reserved + b.safety + q
    BY <1>1, <1>2, <1>3 DEF ATP, Balance
  <1>5. LineEffect("reserve", b, q) = [b EXCEPT !.reserved = @ + q]
    BY DEF LineEffect
  <1> QED
    BY <1>2, <1>3, <1>4, <1>5 DEF SchemaChecks, Balance

-----------------------------------------------------------------------------
(* The inductive invariant *)

\* A header that is not there is empty, and nothing expires a hold.
HeadersOK ==
    \A r \in ReservationId :
        /\ header[r].status = "none" => header[r] = NoHeader
        /\ header[r].status # "expired"

Exclusive == \A p, q \in Proc : p # q => held[p] \cap held[q] = {}

\* The labels of the statements each operation runs, those that run before the
\* first lock is taken, and the warehouse an allocation has picked.
ShapeOK(p) ==
    /\ pc[p] # "idle" => call[p] \in Calls
    /\ pc[p] \in {"race", "claimRef", "replay", "scan", "lock", "classify"} =>
          call[p].op = "reserve"
    /\ pc[p] = "claim" => call[p].op \notin Settle
    /\ pc[p] = "header" => call[p].op \in Settle
    /\ pc[p] \in {"idle", "claim", "race", "replay", "header", "done"} => held[p] = {}
    /\ pc[p] \in {"lock", "write"} /\ call[p].op = "reserve" => chosen[p] \in Active

\* The balance rows of the transaction of p, and those it has locked.
Rows(p) ==
    CASE call[p].op = "reserve" -> Requested(call[p].payload) \X {chosen[p]}
      [] call[p].op \in Settle -> {x \in Row : lines[call[p].id][x] > 0}
      [] OTHER -> {<<call[p].sku, call[p].wh>>}

LockedRows(p) ==
    IF pc[p] = "write" /\ call[p].op = "reserve" THEN Rows(p) ELSE Rows(p) \ todo[p]

\* ORDER BY warehouse_id, sku_id.
Before(x, y) == x[2] < y[2] \/ (x[2] = y[2] /\ x[1] < y[1])

RowsOK(p) ==
    pc[p] \in {"lock", "write"} =>
        /\ todo[p] \subseteq Rows(p)
        /\ \A x \in Rows(p) \ todo[p], y \in todo[p] : Before(x, y)

\* The index entries and the header row a transaction takes before its rows.
EntryLocks(p) ==
    CASE call[p].op = "reserve" -> {IdLock(call[p].id), RefLock(call[p].order)}
      [] call[p].op \in Settle -> {IdLock(call[p].id)}
      [] OTHER -> {KeyLock(call[p].cmd)}

\* Exactly the locks the statements run so far have taken.
LocksOK(p) ==
    /\ pc[p] = "claimRef" => held[p] = {IdLock(call[p].id)}
    /\ pc[p] = "scan" => held[p] = EntryLocks(p)
    /\ pc[p] = "classify" => EntryLocks(p) \subseteq held[p]
    /\ pc[p] \in {"lock", "write"} =>
          held[p] = EntryLocks(p) \cup {RowLock(x) : x \in LockedRows(p)}

\* What the statements run so far have found, as long as it is locked.
FoundOK(p) ==
    LET c == call[p] IN
    /\ pc[p] \in {"claimRef", "scan", "lock", "classify", "write"} /\ c.op = "reserve" =>
          header[c.id] = NoHeader
    /\ pc[p] \in {"scan", "lock", "classify", "write"} /\ c.op = "reserve" => ~OrderTaken(p)
    /\ pc[p] = "write" /\ c.op = "reserve" => StillCovered(p)
    /\ pc[p] = "write" /\ c.op \in Settle => header[c.id].status = "reserved"
    /\ pc[p] = "write" /\ c.op \in CommandOp =>
          /\ ~KeyTaken(p)
          /\ \A x \in LockedRows(p) : /\ c.op = "receive" \/ bal[x].live
                                      /\ SchemaChecks(CommandEffect(c, bal[x]))
    /\ pc[p] = "replay" => header[c.id] # NoHeader \/ OrderTaken(p)

\* AnswersAreTrue for one call c answered a, case by case.
TrueAnswer(c, a) ==
    LET h == header[c.id] IN
    /\ c.op = "reserve" /\ a \in Status =>
          /\ h.status # "none" /\ h.payload = c.payload /\ h.order = c.order
          /\ a # "reserved" => h.status = a
    /\ c.op = "reserve" /\ a = "conflict" =>
          \/ h.status # "none" /\ ~(h.payload = c.payload /\ h.order = c.order)
          \/ \E r \in ReservationId \ {c.id} : header[r].order = c.order
    /\ c.op \in Settle /\ a \in Status => h.status = a /\ a \notin {"none", "reserved"}
    /\ c.op \in Settle /\ a = "invalid_transition" =>
          h.status \in {"committed", "released"} \ {Abstract!Target(c.op)}
    /\ c.op \in CommandOp /\ a \in {"applied", "replayed"} => CommandMove(c) \in ledger
    /\ c.op \in CommandOp /\ a = "conflict" =>
          \E m \in ledger : m.key = CommandMove(c).key /\ m # CommandMove(c)

AnswerOK(p) == pc[p] = "done" => TrueAnswer(call[p], answer[p])

HandlerOK(p) == ShapeOK(p) /\ RowsOK(p) /\ LocksOK(p) /\ FoundOK(p) /\ AnswerOK(p)

\* The types of what a handler holds (the tables have theirs in Tables).
HandlerTypes ==
    /\ pc \in [Proc -> Label]
    /\ call \in [Proc -> Calls \cup {None}]
    /\ held \in [Proc -> SUBSET Lock]
    /\ todo \in [Proc -> SUBSET Row]
    /\ chosen \in [Proc -> Active \cup {None}]
    /\ answer \in [Proc -> Answer \cup {None}]

TxInv ==
    /\ Tables
    /\ HandlerTypes
    /\ HeadersOK
    /\ Exclusive
    /\ \A p \in Proc : HandlerOK(p)

-----------------------------------------------------------------------------
(* Locks, rows and calls *)

\* Locks of different kinds, or of different keys, are different.
LEMMA LockNames ==
    /\ \A r, s : IdLock(r) = IdLock(s) => r = s
    /\ \A o, u : RefLock(o) = RefLock(u) => o = u
    /\ \A c, d : KeyLock(c) = KeyLock(d) => c = d
    /\ \A x, y : RowLock(x) = RowLock(y) => x = y
    /\ \A a, b : /\ IdLock(a) # RefLock(b) /\ IdLock(a) # KeyLock(b)
                 /\ IdLock(a) # RowLock(b) /\ RefLock(a) # KeyLock(b)
                 /\ RefLock(a) # RowLock(b) /\ KeyLock(a) # RowLock(b)
  BY DEF IdLock, RefLock, KeyLock, RowLock

\* A set of naturals has a least element.
LEMMA LeastNat ==
    ASSUME NEW S \in SUBSET Nat, S # {}
    PROVE  \E n \in S : \A m \in S : n <= m
  <1>1. PICK n \in S : \A m \in S : <<m, n>> \notin OpToRel(<, Nat)
    BY NatLessThanWellFounded, WFMin
  <1>2. \A m \in S : ~(m < n)
    BY <1>1 DEF OpToRel
  <1> QED
    BY <1>2

\* First picks a row of S, and the others come after it.
LEMMA FirstRow ==
    ASSUME NEW S \in SUBSET Row, S # {}
    PROVE  First(S) \in S /\ \A y \in S \ {First(S)} : Before(First(S), y)
  <1>1. ASSUME NEW x \in S
        PROVE  x = <<x[1], x[2]>> /\ x[1] \in Nat /\ x[2] \in Nat
    <2>1. SKU \subseteq Nat /\ Warehouse \subseteq Nat
      BY StockAssumption
    <2>2. PICK s \in SKU, w \in Warehouse : x = <<s, w>>
      BY DEF Row
    <2> QED
      BY <2>1, <2>2
  <1>2. PICK w \in {x[2] : x \in S} : \A v \in {x[2] : x \in S} : w <= v
    <2> DEFINE V == {x[2] : x \in S}
    <2>1. V \in SUBSET Nat /\ V # {}
      BY <1>1
    <2> HIDE DEF V
    <2>2. \E n \in V : \A m \in V : n <= m
      BY <2>1, LeastNat
    <2> QED
      BY <2>2 DEF V
  <1>3. PICK s \in {x[1] : x \in {y \in S : y[2] = w}} :
           \A t \in {x[1] : x \in {y \in S : y[2] = w}} : s <= t
    <2> DEFINE V == {x[1] : x \in {y \in S : y[2] = w}}
    <2>1. V \in SUBSET Nat /\ V # {}
      BY <1>1, <1>2
    <2> HIDE DEF V
    <2>2. \E n \in V : \A m \in V : n <= m
      BY <2>1, LeastNat
    <2> QED
      BY <2>2 DEF V
  <1>4. PICK x \in S : x[2] = w /\ x[1] = s
    BY <1>3
  <1>5. \A y \in S : x[2] < y[2] \/ (x[2] = y[2] /\ x[1] <= y[1])
    BY <1>1, <1>2, <1>3, <1>4
  <1>6. /\ First(S) \in S
        /\ \A y \in S : First(S)[2] < y[2] \/ (First(S)[2] = y[2] /\ First(S)[1] <= y[1])
    BY <1>5 DEF First
  <1>7. ASSUME NEW y \in S, y # First(S) PROVE Before(First(S), y)
    BY <1>1, <1>6, <1>7 DEF Before
  <1> QED
    BY <1>6, <1>7

\* The fields of a call, by its operation.
LEMMA CallFields ==
    ASSUME NEW c \in Calls
    PROVE  /\ c.op \in {"reserve"} \cup Settle \cup CommandOp
           /\ c.op = "reserve" =>
                 /\ c \in ReserveCall /\ c.id \in ReservationId
                 /\ c.order \in OrderId /\ c.payload \in Payload
           /\ c.op \in Settle => c \in TransitionCall /\ c.id \in ReservationId
           /\ c.op \in CommandOp =>
                 c \in CommandCall /\ c.cmd \in CommandId /\ <<c.sku, c.wh>> \in Row
           /\ c \in TransitionCall <=> c.op \in Settle
  <1>1. /\ c.op = "reserve" => c \in ReserveCall
        /\ c.op \in {"release", "commit"} => c \in TransitionCall
        /\ c.op \in CommandOp => c \in CommandCall
    BY ServiceAssumption, Service!CallShape, SameData
  <1>2. c.op \in {"reserve"} \cup Settle \cup CommandOp
    BY StockAssumption DEF Call, ReserveCall, TransitionCall, CommandCall, Settle
  <1> QED
    BY <1>1, <1>2 DEF ReserveCall, TransitionCall, CommandCall, Settle, CommandOp, Row

\* The balance rows of a transaction are rows.
LEMMA RowsType ==
    ASSUME HandlerTypes, NEW p \in Proc, ShapeOK(p), pc[p] \in {"lock", "write"}
    PROVE  Rows(p) \subseteq Row
  <1>1. call[p] \in Calls
    BY DEF ShapeOK
  <1>2. CASE call[p].op = "reserve"
    BY <1>1, <1>2, StockAssumption DEF ShapeOK, Rows, Requested, Row
  <1>3. CASE call[p].op \in Settle
    BY <1>3 DEF Rows, Settle
  <1>4. CASE call[p].op \in CommandOp
    BY <1>1, <1>4, CallFields DEF Rows, Settle, CommandOp
  <1> QED
    BY <1>1, <1>2, <1>3, <1>4, CallFields

\* The next row is one of those left, and the others come after it.
LEMMA NextRowIsFirst ==
    ASSUME HandlerTypes, NEW p \in Proc, todo[p] # {}
    PROVE  /\ NextRow(p) \in todo[p] /\ NextRow(p) \in Row
           /\ \A y \in todo[p] \ {NextRow(p)} : Before(NextRow(p), y)
  BY FirstRow DEF HandlerTypes, NextRow

\* What a statement waits for, label by label.
LEMMA WantsAt ==
    ASSUME NEW p
    PROVE  /\ pc[p] = "claim" /\ call[p].op \in CommandOp => Wants(p) = {KeyLock(call[p].cmd)}
           /\ pc[p] = "claim" /\ call[p].op = "reserve" /\ header[call[p].id] = NoHeader =>
                 Wants(p) = {IdLock(call[p].id)}
           /\ pc[p] = "claim" /\ call[p].op = "reserve" /\ header[call[p].id] # NoHeader =>
                 Wants(p) = {}
           /\ pc[p] \in {"race", "claimRef"} => Wants(p) = {RefLock(call[p].order)}
           /\ pc[p] = "header" /\ header[call[p].id] # NoHeader => Wants(p) = {IdLock(call[p].id)}
           /\ pc[p] = "header" /\ header[call[p].id] = NoHeader => Wants(p) = {}
           /\ pc[p] = "lock" /\ todo[p] # {} => Wants(p) = {RowLock(NextRow(p))}
           /\ pc[p] = "write" /\ todo[p] # {} /\ Writable(p) => Wants(p) = {RowLock(NextRow(p))}
           /\ pc[p] \in {"idle", "replay", "scan", "classify", "done"} => Wants(p) = {}
           /\ pc[p] \in {"lock", "write"} /\ todo[p] = {} => Wants(p) = {}
           /\ pc[p] = "write" /\ ~Writable(p) => Wants(p) = {}
           /\ pc[p] = "claim" /\ call[p].op \in Settle => Wants(p) = {}
  BY DEF Wants, CommandOp, Settle

\* A statement waits for locks there are.
LEMMA WantsType ==
    ASSUME HandlerTypes, NEW p \in Proc, ShapeOK(p)
    PROVE  Wants(p) \subseteq Lock
  <1>1. pc[p] \in Label
    BY DEF HandlerTypes
  <1>2. CASE pc[p] \in {"idle", "replay", "scan", "classify", "done"}
    BY <1>2, WantsAt
  <1>3. CASE pc[p] \in {"claim", "race", "claimRef", "header"}
    <2>1. /\ call[p].op = "reserve" => call[p].id \in ReservationId /\ call[p].order \in OrderId
          /\ call[p].op \in Settle => call[p].id \in ReservationId
          /\ call[p].op \in CommandOp => call[p].cmd \in CommandId
          /\ call[p].op \in {"reserve"} \cup Settle \cup CommandOp
      BY <1>3, CallFields DEF ShapeOK
    <2>2. CASE pc[p] = "claim"
      BY <2>1, <2>2, WantsAt DEF Lock, Settle, CommandOp
    <2>3. CASE pc[p] \in {"race", "claimRef"}
      BY <2>1, <2>3, WantsAt DEF Lock, ShapeOK
    <2>4. CASE pc[p] = "header"
      BY <2>1, <2>4, WantsAt DEF Lock, ShapeOK
    <2> QED
      BY <1>3, <2>2, <2>3, <2>4
  <1>4. CASE pc[p] \in {"lock", "write"} /\ todo[p] # {}
    BY <1>4, WantsAt, NextRowIsFirst DEF Lock
  <1>5. CASE pc[p] \in {"lock", "write"} /\ todo[p] = {}
    BY <1>5, WantsAt
  <1> QED
    BY <1>1, <1>2, <1>3, <1>4, <1>5 DEF Label

-----------------------------------------------------------------------------
(* The shape of a step *)

\* Only p moves.
Alone(p) ==
    \A q \in Proc \ {p} :
        /\ pc'[q] = pc[q] /\ call'[q] = call[q] /\ held'[q] = held[q]
        /\ todo'[q] = todo[q] /\ chosen'[q] = chosen[q] /\ answer'[q] = answer[q]

\* p may have picked a warehouse.
Picks(p) ==
    /\ chosen' \in [Proc -> Active \cup {None}]
    /\ \A q \in Proc \ {p} : chosen'[q] = chosen[q]

\* Locks are only taken when free and given back all at once.
LEMMA ExclusiveStep ==
    ASSUME HandlerTypes, Exclusive, NEW p \in Proc, Alone(p),
           \/ held'[p] = {}
           \/ held'[p] = held[p]
           \/ held'[p] = held[p] \cup Wants(p) /\ ~Blocked(p)
    PROVE  Exclusive'
  <1>1. ASSUME NEW q \in Proc, q # p PROVE held'[p] \cap held'[q] = {}
    <2>1. held'[q] = held[q] /\ held[p] \cap held[q] = {}
      BY <1>1 DEF Alone, Exclusive
    <2>2. ~Blocked(p) => Wants(p) \cap held[q] = {}
      BY <1>1 DEF Blocked, Free
    <2> QED
      BY <2>1, <2>2
  <1>2. ASSUME NEW q \in Proc, NEW r \in Proc, q # p, r # p, q # r
        PROVE  held'[q] \cap held'[r] = {}
    BY <1>2 DEF Alone, Exclusive
  <1> QED
    BY <1>1, <1>2 DEF Exclusive

\* One statement done.
LEMMA AdvanceStep ==
    ASSUME HandlerTypes, Exclusive, NEW p \in Proc, ShapeOK(p), NEW label \in Label,
           NEW rs \in SUBSET Row, Advance(p, label, rs), Picks(p)
    PROVE  /\ HandlerTypes' /\ Exclusive' /\ Alone(p)
           /\ pc'[p] = label /\ call'[p] = call[p] /\ answer'[p] = answer[p]
           /\ held'[p] = held[p] \cup Wants(p) /\ todo'[p] = rs /\ ~Blocked(p)
  <1>1. Wants(p) \subseteq Lock
    BY WantsType
  <1>2. /\ pc' \in [Proc -> Label] /\ pc'[p] = label
        /\ held' \in [Proc -> SUBSET Lock] /\ held'[p] = held[p] \cup Wants(p)
        /\ todo' \in [Proc -> SUBSET Row] /\ todo'[p] = rs
        /\ \A q \in Proc \ {p} : pc'[q] = pc[q] /\ held'[q] = held[q] /\ todo'[q] = todo[q]
    BY <1>1 DEF Advance, HandlerTypes
  <1>3. call' = call /\ answer' = answer /\ ~Blocked(p)
    BY DEF Advance
  <1>4. HandlerTypes'
    BY <1>2, <1>3 DEF HandlerTypes, Picks
  <1>5. Alone(p)
    BY <1>2, <1>3 DEF Alone, Picks
  <1>6. Exclusive'
    BY <1>2, <1>3, <1>5, ExclusiveStep
  <1> QED
    BY <1>2, <1>3, <1>4, <1>5, <1>6

\* One statement that locks nothing done.
LEMMA ReadStep ==
    ASSUME HandlerTypes, Exclusive, NEW p \in Proc, ShapeOK(p), NEW label \in Label,
           NEW rs \in SUBSET Row, Advance(p, label, rs), Picks(p), Wants(p) = {}
    PROVE  /\ HandlerTypes' /\ Exclusive' /\ Alone(p)
           /\ pc'[p] = label /\ call'[p] = call[p] /\ answer'[p] = answer[p]
           /\ held'[p] = held[p] /\ todo'[p] = rs
  <1>1. held'[p] = held[p] \cup Wants(p)
    BY AdvanceStep
  <1>2. held'[p] = held[p]
    BY <1>1
  <1> QED
    BY <1>2, AdvanceStep

\* No warehouse is picked by most steps.
LEMMA NoPick == ASSUME HandlerTypes, UNCHANGED chosen, NEW p PROVE Picks(p)
  BY DEF HandlerTypes, Picks

\* A transaction ended.
LEMMA FinishStep ==
    ASSUME HandlerTypes, Exclusive, NEW p \in Proc, NEW a \in Answer, Finish(p, a)
    PROVE  /\ HandlerTypes' /\ Exclusive' /\ Alone(p)
           /\ pc'[p] = "done" /\ call'[p] = call[p] /\ answer'[p] = a /\ held'[p] = {}
  <1>1. /\ pc' \in [Proc -> Label] /\ pc'[p] = "done"
        /\ answer' \in [Proc -> Answer \cup {None}] /\ answer'[p] = a
        /\ held' \in [Proc -> SUBSET Lock] /\ held'[p] = {}
        /\ todo' \in [Proc -> SUBSET Row]
        /\ chosen' \in [Proc -> Active \cup {None}]
    BY DEF Finish, HandlerTypes, Label
  <1>2. call' = call
    BY DEF Finish
  <1>3. Alone(p)
    BY DEF Finish, HandlerTypes, Alone
  <1>4. HandlerTypes'
    BY <1>1, <1>2 DEF HandlerTypes
  <1>5. Exclusive'
    BY <1>1, <1>3, ExclusiveStep
  <1> QED
    BY <1>1, <1>2, <1>3, <1>4, <1>5

\* After it the handler holds nothing and owes only a true
\* answer.
LEMMA DoneOK ==
    ASSUME NEW p, pc'[p] = "done", call'[p] \in Calls, held'[p] = {}, AnswerOK(p)'
    PROVE  HandlerOK(p)'
  BY DEF HandlerOK, ShapeOK, RowsOK, LocksOK, FoundOK

-----------------------------------------------------------------------------
(* What a step may do to the tables *)

\* The lock discipline: p changes only what it has locked, and never rewrites
\* history.
Disciplined(p) ==
    /\ \A x \in Row : bal'[x] # bal[x] => RowLock(x) \in held[p]
    /\ \A r \in ReservationId :
          /\ header'[r] # header[r] \/ lines'[r] # lines[r] => IdLock(r) \in held[p]
          /\ header'[r].order # header[r].order => RefLock(header'[r].order) \in held[p]
          /\ header[r].status # "none" =>
                /\ header'[r].status # "none"
                /\ header'[r].order = header[r].order
                /\ header'[r].payload = header[r].payload
                /\ header[r].status # "reserved" => header'[r] = header[r]
    /\ ledger \subseteq ledger'
    /\ \A m \in ledger' \ ledger, k \in CommandId :
          m.key = <<"command", k, None>> => KeyLock(k) \in held[p]

\* Most steps leave the tables alone.
LEMMA UnchangedIsDisciplined == ASSUME UNCHANGED tables, NEW p PROVE Disciplined(p)
  BY DEF tables, Disciplined

\* What another handler has locked is not changed under it.
LEMMA LockedIsKept ==
    ASSUME TxInv, NEW p \in Proc, NEW q \in Proc, p # q, Disciplined(p)
    PROVE  /\ \A x \in Row : RowLock(x) \in held[q] => bal'[x] = bal[x]
           /\ \A r \in ReservationId : IdLock(r) \in held[q] =>
                 header'[r] = header[r] /\ lines'[r] = lines[r]
           /\ \A o \in OrderId : RefLock(o) \in held[q] =>
                 \A r \in ReservationId : header'[r].order = o => header[r].order = o
           /\ \A k \in CommandId : KeyLock(k) \in held[q] =>
                 \A m \in ledger' : m.key = <<"command", k, None>> => m \in ledger
  <1>1. held[p] \cap held[q] = {}
    BY DEF TxInv, Exclusive
  <1> QED
    BY <1>1 DEF Disciplined

\* The rows of another handler's transaction stay the same.
LEMMA RowsAreKept ==
    ASSUME TxInv, NEW p \in Proc, NEW q \in Proc, p # q, Disciplined(p), Alone(p),
           pc[q] \in {"lock", "write"}
    PROVE  Rows(q)' = Rows(q) /\ LockedRows(q)' = LockedRows(q)
  <1>1. HandlerOK(q) /\ call[q] \in Calls
    BY DEF TxInv, HandlerOK, ShapeOK
  <1>2. pc'[q] = pc[q] /\ call'[q] = call[q] /\ chosen'[q] = chosen[q] /\ todo'[q] = todo[q]
    BY DEF Alone
  <1>3. CASE call[q].op \in Settle
    <2>1. call[q].id \in ReservationId /\ IdLock(call[q].id) \in held[q] /\ call[q].op # "reserve"
      BY <1>1, <1>3, CallFields DEF HandlerOK, LocksOK, EntryLocks, Settle
    <2>2. lines'[call[q].id] = lines[call[q].id]
      BY <2>1, LockedIsKept
    <2>3. Rows(q)' = Rows(q)
      BY <1>2, <2>2 DEF Rows
    <2> QED
      BY <1>2, <2>3 DEF LockedRows
  <1>4. CASE call[q].op \notin Settle
    <2>1. Rows(q)' = Rows(q)
      BY <1>2, <1>4 DEF Rows
    <2> QED
      BY <1>2, <2>1 DEF LockedRows
  <1> QED
    BY <1>3, <1>4

\* What another handler has found stays true.
LEMMA FoundIsKept ==
    ASSUME TxInv, NEW p \in Proc, NEW q \in Proc, p # q, Disciplined(p), Alone(p)
    PROVE  FoundOK(q)'
  <1> DEFINE c == call[q]
  <1>1. /\ pc'[q] = pc[q] /\ call'[q] = c /\ chosen'[q] = chosen[q]
        /\ todo'[q] = todo[q] /\ held'[q] = held[q]
    BY DEF Alone
  <1>2. ShapeOK(q) /\ RowsOK(q) /\ LocksOK(q) /\ FoundOK(q) /\ HandlerTypes /\ Tables
    BY DEF TxInv, HandlerOK
  <1>3. pc[q] # "idle" => c \in Calls
    BY <1>2 DEF ShapeOK
  <1>4. CASE pc[q] \in {"claimRef", "scan", "lock", "classify", "write"} /\ c.op = "reserve"
    <2>1. /\ c.id \in ReservationId /\ c.order \in OrderId /\ c.payload \in Payload
          /\ c.op \notin Settle /\ c.op \notin CommandOp
      BY <1>3, <1>4, CallFields DEF Settle, CommandOp
    <2>2. IdLock(c.id) \in held[q]
      BY <1>2, <1>4 DEF LocksOK, EntryLocks
    <2>3. header'[c.id] = NoHeader
      BY <1>2, <1>4, <2>1, <2>2, LockedIsKept DEF FoundOK
    <2>4. ASSUME pc[q] # "claimRef" PROVE ~OrderTaken(q)'
      <3>1. RefLock(c.order) \in held[q]
        <4>1. EntryLocks(q) = {IdLock(c.id), RefLock(c.order)}
          BY <1>4, <2>1 DEF EntryLocks
        <4>2. EntryLocks(q) \subseteq held[q]
          BY <1>2, <1>4, <2>4 DEF LocksOK
        <4> QED
          BY <4>1, <4>2
      <3>2. \A r \in ReservationId : header[r].order # c.order
        BY <1>2, <1>4, <2>4 DEF FoundOK, OrderTaken
      <3>3. \A r \in ReservationId : header'[r].order # c.order
        BY <2>1, <3>1, <3>2, LockedIsKept
      <3> QED
        BY <1>1, <3>3 DEF OrderTaken
    <2>5. ASSUME pc[q] = "write" PROVE StillCovered(q)'
      <3>1. \A x \in Rows(q) : RowLock(x) \in held[q]
        BY <1>2, <1>4, <2>5 DEF LocksOK, LockedRows
      <3>2. \A s \in Requested(c.payload) : bal'[<<s, chosen[q]>>] = bal[<<s, chosen[q]>>]
        <4>1. Rows(q) \subseteq Row
          BY <1>2, <2>5, RowsType
        <4>2. \A s \in Requested(c.payload) : <<s, chosen[q]>> \in Rows(q)
          <5>1. Rows(q) = Requested(c.payload) \X {chosen[q]}
            BY <1>4, <2>1 DEF Rows
          <5> QED
            BY <5>1
        <4> QED
          BY <3>1, <4>1, <4>2, LockedIsKept
      <3>3. FulfillsLines(bal, chosen[q], c.payload)
        BY <1>2, <1>4, <2>5 DEF FoundOK, StillCovered
      <3>4. FulfillsLines(bal', chosen[q], c.payload)
        BY <3>2, <3>3 DEF FulfillsLines
      <3> QED
        BY <1>1, <3>4 DEF StillCovered
    <2> QED
      BY <1>1, <1>4, <2>1, <2>3, <2>4, <2>5 DEF FoundOK
  <1>5. CASE pc[q] = "write" /\ c.op \in Settle
    <2>1. /\ c.id \in ReservationId /\ c.op # "reserve" /\ c.op \notin CommandOp
          /\ IdLock(c.id) \in held[q]
      BY <1>2, <1>3, <1>5, CallFields DEF LocksOK, EntryLocks, Settle, CommandOp
    <2>2. header'[c.id].status = "reserved"
      BY <1>2, <1>5, <2>1, LockedIsKept DEF FoundOK
    <2> QED
      BY <1>1, <1>5, <2>1, <2>2 DEF FoundOK
  <1>6. CASE pc[q] = "write" /\ c.op \in CommandOp
    <2>1. /\ c.cmd \in CommandId /\ c.op # "reserve" /\ c.op \notin Settle
          /\ KeyLock(c.cmd) \in held[q] /\ CommandMove(c).key = <<"command", c.cmd, None>>
      BY <1>2, <1>3, <1>6, CallFields
      DEF LocksOK, EntryLocks, Settle, CommandOp, CommandMove
    <2>2. ~KeyTaken(q)'
      <3>1. \A m \in ledger : m.key # <<"command", c.cmd, None>>
        BY <1>2, <1>6, <2>1 DEF FoundOK, KeyTaken
      <3>2. \A m \in ledger' : m.key # <<"command", c.cmd, None>>
        BY <2>1, <3>1, LockedIsKept
      <3> QED
        BY <1>1, <2>1, <3>2 DEF KeyTaken
    <2>3. LockedRows(q)' = LockedRows(q)
      BY <1>6, RowsAreKept
    <2>4. ASSUME NEW x \in LockedRows(q)
          PROVE  bal'[x] = bal[x]
      <3>1. LockedRows(q) \subseteq Row
        BY <1>2, <1>6, RowsType DEF LockedRows
      <3>2. RowLock(x) \in held[q]
        BY <1>2, <1>6 DEF LocksOK
      <3> QED
        BY <3>1, <3>2, LockedIsKept
    <2>5. \A x \in LockedRows(q)' : /\ c.op = "receive" \/ bal'[x].live
                                    /\ SchemaChecks(CommandEffect(c, bal'[x]))
      BY <1>2, <1>6, <2>3, <2>4 DEF FoundOK
    <2> QED
      BY <1>1, <1>6, <2>1, <2>2, <2>5 DEF FoundOK
  <1>7. CASE pc[q] = "replay"
    <2>1. c \in Calls /\ c.op = "reserve"
      BY <1>2, <1>7 DEF ShapeOK
    <2>2. c.id \in ReservationId /\ c.order \in OrderId
      BY <2>1, CallFields
    <2>3. header \in [ReservationId -> Header]
      BY <1>2, TablesFacts
    <2>4. CASE header[c.id] # NoHeader
      BY <1>1, <1>7, <2>2, <2>4 DEF FoundOK, TxInv, HeadersOK, Disciplined, NoHeader
    <2>5. CASE OrderTaken(q)
      <3>1. PICK r \in ReservationId : header[r].order = c.order
        BY <2>5 DEF OrderTaken
      <3>2. header[r].status # "none"
        BY <2>2, <3>1, StockAssumption DEF TxInv, HeadersOK, NoHeader
      <3>3. header'[r].order = c.order
        BY <3>1, <3>2 DEF Disciplined
      <3> QED
        BY <1>1, <1>7, <3>3 DEF FoundOK, OrderTaken
    <2> QED
      BY <1>2, <1>7, <2>4, <2>5 DEF FoundOK
  <1> QED
    BY <1>1, <1>2, <1>3, <1>4, <1>5, <1>6, <1>7, CallFields DEF FoundOK

\* What another handler was told stays true.
LEMMA AnswerIsKept ==
    ASSUME TxInv, NEW p \in Proc, NEW q \in Proc, p # q, Disciplined(p), Alone(p)
    PROVE  AnswerOK(q)'
  <1> DEFINE c == call[q]
             a == answer[q]
  <1>1. pc'[q] = pc[q] /\ call'[q] = c /\ answer'[q] = a
    BY DEF Alone
  <1>2. AnswerOK(q) /\ ledger \subseteq ledger'
    BY DEF TxInv, HandlerOK, Disciplined
  <1>3. CASE pc[q] # "done"
    BY <1>1, <1>3 DEF AnswerOK, TrueAnswer
  <1>4. CASE pc[q] = "done"
    <2>1. c \in Calls
      BY <1>4 DEF TxInv, HandlerOK, ShapeOK
    <2>2. CASE c.op = "reserve"
      <3>1. c.id \in ReservationId /\ c.order \in OrderId /\ c.op \notin Settle /\ c.op \notin CommandOp
        BY <2>1, <2>2, CallFields DEF Settle, CommandOp
      <3>2. ASSUME a \in Status
            PROVE  /\ header'[c.id].status # "none" /\ header'[c.id].payload = c.payload
                   /\ header'[c.id].order = c.order
                   /\ a # "reserved" => header'[c.id].status = a
        BY <1>2, <1>4, <2>2, <3>1, <3>2 DEF AnswerOK, TrueAnswer, Disciplined
      <3>3. ASSUME a = "conflict"
            PROVE  \/ /\ header'[c.id].status # "none"
                      /\ ~(header'[c.id].payload = c.payload /\ header'[c.id].order = c.order)
                   \/ \E r \in ReservationId \ {c.id} : header'[r].order = c.order
        <4>1. CASE header[c.id].status # "none" /\ ~(header[c.id].payload = c.payload /\ header[c.id].order = c.order)
          BY <3>1, <4>1 DEF Disciplined
        <4>2. ASSUME NEW r \in ReservationId \ {c.id}, header[r].order = c.order
              PROVE  header'[r].order = c.order
          <5>1. header[r].status # "none"
            BY <3>1, <4>2, StockAssumption DEF TxInv, HeadersOK, NoHeader
          <5> QED
            BY <4>2, <5>1 DEF Disciplined
        <4> QED
          BY <1>2, <1>4, <2>2, <3>3, <4>1, <4>2 DEF AnswerOK, TrueAnswer
      <3> QED
        BY <1>1, <2>2, <3>1, <3>2, <3>3 DEF AnswerOK, TrueAnswer
    <2>3. CASE c.op \in Settle
      <3>1. c.id \in ReservationId /\ c.op # "reserve" /\ c.op \notin CommandOp
        BY <2>1, <2>3, CallFields DEF Settle, CommandOp
      <3>2. ASSUME a \in Status
            PROVE  header'[c.id].status = a /\ a \notin {"none", "reserved"}
        BY <1>2, <1>4, <2>3, <3>1, <3>2 DEF AnswerOK, TrueAnswer, Disciplined
      <3>3. ASSUME a = "invalid_transition"
            PROVE  header'[c.id].status \in {"committed", "released"} \ {Abstract!Target(c.op)}
        BY <1>2, <1>4, <2>3, <3>1, <3>3 DEF AnswerOK, TrueAnswer, Disciplined
      <3> QED
        BY <1>1, <2>3, <3>1, <3>2, <3>3 DEF AnswerOK, TrueAnswer, Abstract!Target
    <2>4. CASE c.op \in CommandOp
      <3>1. c.op # "reserve" /\ c.op \notin Settle
        BY <2>4 DEF Settle, CommandOp
      <3> QED
        BY <1>1, <1>2, <1>4, <2>4, <3>1 DEF AnswerOK, TrueAnswer
    <2> QED
      BY <2>1, <2>2, <2>3, <2>4, CallFields
  <1> QED
    BY <1>3, <1>4

\* So a step of p leaves everything known about q standing.
LEMMA OthersKeep ==
    ASSUME TxInv, NEW p \in Proc, NEW q \in Proc, p # q, Disciplined(p), Alone(p)
    PROVE  HandlerOK(q)'
  <1>1. /\ pc'[q] = pc[q] /\ call'[q] = call[q] /\ held'[q] = held[q]
        /\ chosen'[q] = chosen[q] /\ todo'[q] = todo[q]
    BY DEF Alone
  <1>2. ShapeOK(q) /\ RowsOK(q) /\ LocksOK(q)
    BY DEF TxInv, HandlerOK
  <1>3. ShapeOK(q)'
    BY <1>1, <1>2 DEF ShapeOK
  <1>4. pc[q] \in {"lock", "write"} => Rows(q)' = Rows(q) /\ LockedRows(q)' = LockedRows(q)
    BY RowsAreKept
  <1>5. RowsOK(q)'
    BY <1>1, <1>2, <1>4 DEF RowsOK
  <1>6. EntryLocks(q)' = EntryLocks(q)
    BY <1>1 DEF EntryLocks
  <1>7. LocksOK(q)'
    BY <1>1, <1>2, <1>4, <1>6 DEF LocksOK
  <1> QED
    BY <1>3, <1>5, <1>7, FoundIsKept, AnswerIsKept DEF HandlerOK

-----------------------------------------------------------------------------
(* Steps that leave the tables alone *)

\* It is enough to look at the handler that moves.
LEMMA LocalStep ==
    ASSUME TxInv, NEW p \in Proc, UNCHANGED tables, HandlerTypes', Exclusive', Alone(p),
           HandlerOK(p)'
    PROVE  TxInv'
  <1>1. Tables'
    BY TablesStep DEF TxInv, tables, Abstract!vars
  <1>2. HeadersOK'
    BY DEF TxInv, HeadersOK, tables
  <1>3. \A q \in Proc \ {p} : HandlerOK(q)'
    BY UnchangedIsDisciplined, OthersKeep
  <1> QED
    BY <1>1, <1>2, <1>3 DEF TxInv

\* The answers that say nothing of the tables.
Plain == Answer \ (Status \cup {"conflict", "invalid_transition", "applied", "replayed"})

LEMMA PlainIsTrue == ASSUME NEW c, NEW a \in Plain PROVE TrueAnswer(c, a)
  BY DEF Plain, TrueAnswer

\* A transaction that ends without a COMMIT, with a true answer.
LEMMA RefuseStep ==
    ASSUME TxInv, NEW p \in Proc, NEW a \in Answer, pc[p] # "idle", Refuse(p, a),
           TrueAnswer(call[p], a)
    PROVE  TxInv'
  <1>1. /\ HandlerTypes' /\ Exclusive' /\ Alone(p) /\ UNCHANGED tables
        /\ pc'[p] = "done" /\ call'[p] = call[p] /\ answer'[p] = a /\ held'[p] = {}
    BY FinishStep DEF Refuse, TxInv
  <1>2. call[p] \in Calls
    BY DEF TxInv, HandlerOK, ShapeOK
  <1>3. AnswerOK(p)'
    BY <1>1 DEF AnswerOK, TrueAnswer, tables
  <1>4. HandlerOK(p)'
    BY <1>1, <1>2, <1>3, DoneOK
  <1> QED
    BY <1>1, <1>4, LocalStep

LEMMA BeginCallStep == ASSUME TxInv, NEW p \in Proc, BeginCall(p) PROVE TxInv'
  <1>1. PICK c \in Calls :
           /\ call' = [call EXCEPT ![p] = c]
           /\ pc' = [pc EXCEPT ![p] = IF c \in TransitionCall THEN "header" ELSE "claim"]
    BY DEF BeginCall
  <1>2. held' = held /\ todo' = todo /\ chosen' = chosen /\ answer' = answer /\ UNCHANGED tables
    BY DEF BeginCall
  <1>3. HandlerTypes' /\ Alone(p)
    BY <1>1, <1>2 DEF TxInv, HandlerTypes, Alone, Label
  <1>4. pc'[p] = (IF c.op \in Settle THEN "header" ELSE "claim") /\ call'[p] = c
    BY <1>1, CallFields DEF TxInv, HandlerTypes
  <1>5. held'[p] = {}
    BY <1>2 DEF BeginCall, TxInv, HandlerOK, ShapeOK
  <1>6. HandlerOK(p)'
    BY <1>4, <1>5 DEF HandlerOK, ShapeOK, RowsOK, LocksOK, FoundOK, AnswerOK
  <1> QED
    BY <1>2, <1>3, <1>5, <1>6, ExclusiveStep, LocalStep DEF TxInv

LEMMA ReturnStep == ASSUME TxInv, NEW p \in Proc, Return(p) PROVE TxInv'
  <1>1. /\ pc' = [pc EXCEPT ![p] = "idle"] /\ call' = [call EXCEPT ![p] = None]
        /\ answer' = [answer EXCEPT ![p] = None]
        /\ held' = held /\ todo' = todo /\ chosen' = chosen /\ UNCHANGED tables
    BY DEF Return
  <1>2. HandlerTypes' /\ Alone(p) /\ pc'[p] = "idle"
    BY <1>1 DEF TxInv, HandlerTypes, Alone, Label
  <1>3. held'[p] = {}
    BY <1>1 DEF Return, TxInv, HandlerOK, ShapeOK
  <1>4. HandlerOK(p)'
    BY <1>2, <1>3 DEF HandlerOK, ShapeOK, RowsOK, LocksOK, FoundOK, AnswerOK
  <1> QED
    BY <1>1, <1>2, <1>3, <1>4, ExclusiveStep, LocalStep DEF TxInv

\* From the claim on the id to the scan: the index entries are free when they
\* are taken.
LEMMA ClaimIdStep == ASSUME TxInv, NEW p \in Proc, ClaimId(p) PROVE TxInv'
  <1>1. /\ pc[p] = "claim" /\ call[p].op = "reserve" /\ header[call[p].id] = NoHeader
        /\ Advance(p, "claimRef", {}) /\ UNCHANGED <<chosen, tables>>
    BY DEF ClaimId
  <1>2. /\ HandlerTypes' /\ Exclusive' /\ Alone(p)
        /\ pc'[p] = "claimRef" /\ call'[p] = call[p] /\ held'[p] = held[p] \cup Wants(p)
    BY <1>1, NoPick, AdvanceStep DEF TxInv, HandlerOK, Label
  <1>3. call[p] \in Calls /\ held[p] = {} /\ Wants(p) = {IdLock(call[p].id)}
    BY <1>1, WantsAt DEF TxInv, HandlerOK, ShapeOK
  <1>4. HandlerOK(p)'
    BY <1>1, <1>2, <1>3
    DEF HandlerOK, ShapeOK, RowsOK, LocksOK, FoundOK, AnswerOK, tables
  <1> QED
    BY <1>1, <1>2, <1>4, LocalStep

LEMMA AlreadyClaimedStep == ASSUME TxInv, NEW p \in Proc, AlreadyClaimed(p) PROVE TxInv'
  <1>1. /\ pc[p] = "claim" /\ call[p].op = "reserve" /\ header[call[p].id] # NoHeader
        /\ Advance(p, "replay", {}) /\ UNCHANGED <<chosen, tables>>
    BY DEF AlreadyClaimed
  <1>2. /\ HandlerTypes' /\ Exclusive' /\ Alone(p)
        /\ pc'[p] = "replay" /\ call'[p] = call[p] /\ held'[p] = held[p] \cup Wants(p)
    BY <1>1, NoPick, AdvanceStep DEF TxInv, HandlerOK, Label
  <1>3. call[p] \in Calls /\ held'[p] = {}
    BY <1>1, <1>2, WantsAt DEF TxInv, HandlerOK, ShapeOK
  <1>4. HandlerOK(p)'
    BY <1>1, <1>2, <1>3
    DEF HandlerOK, ShapeOK, RowsOK, LocksOK, FoundOK, AnswerOK, tables
  <1> QED
    BY <1>1, <1>2, <1>4, LocalStep

\* Both ways of the race on a primary key entry keep no lock.
LEMMA RaceStep ==
    ASSUME TxInv, NEW p \in Proc, PassArbiter(p) \/ BackOut(p) PROVE TxInv'
  <1>1. PICK l \in {"race", "claim"} :
           /\ pc' = [pc EXCEPT ![p] = l]
           /\ UNCHANGED <<call, held, todo, chosen, answer, tables>>
    BY DEF PassArbiter, BackOut
  <1>2. call[p] \in Calls /\ call[p].op = "reserve" /\ held[p] = {}
    BY DEF PassArbiter, BackOut, TxInv, HandlerOK, ShapeOK
  <1>3. HandlerTypes' /\ Alone(p) /\ pc'[p] = l /\ call'[p] = call[p] /\ held'[p] = held[p]
    BY <1>1 DEF TxInv, HandlerTypes, Alone, Label
  <1>4. HandlerOK(p)'
    BY <1>2, <1>3 DEF HandlerOK, ShapeOK, RowsOK, LocksOK, FoundOK, AnswerOK, Settle
  <1> QED
    BY <1>1, <1>3, <1>4, ExclusiveStep, LocalStep DEF TxInv

LEMMA ClaimRefStep == ASSUME TxInv, NEW p \in Proc, ClaimRef(p) PROVE TxInv'
  <1>1. /\ pc[p] = "claimRef" /\ ~OrderTaken(p)
        /\ Advance(p, "scan", {}) /\ UNCHANGED <<chosen, tables>>
    BY DEF ClaimRef
  <1>2. /\ HandlerTypes' /\ Exclusive' /\ Alone(p)
        /\ pc'[p] = "scan" /\ call'[p] = call[p] /\ held'[p] = held[p] \cup Wants(p)
    BY <1>1, NoPick, AdvanceStep DEF TxInv, HandlerOK, Label
  <1>3. /\ call[p] \in Calls /\ call[p].op = "reserve" /\ header[call[p].id] = NoHeader
        /\ held[p] = {IdLock(call[p].id)} /\ Wants(p) = {RefLock(call[p].order)}
    BY <1>1, WantsAt DEF TxInv, HandlerOK, ShapeOK, LocksOK, FoundOK
  <1>4. held'[p] = EntryLocks(p)'
    BY <1>2, <1>3 DEF EntryLocks, Settle
  <1>5. FoundOK(p)'
    BY <1>1, <1>2, <1>3 DEF FoundOK, OrderTaken, tables, Settle, CommandOp
  <1>6. HandlerOK(p)'
    BY <1>2, <1>3, <1>4, <1>5 DEF HandlerOK, ShapeOK, RowsOK, LocksOK, AnswerOK
  <1> QED
    BY <1>1, <1>2, <1>6, LocalStep

LEMMA RefTakenStep == ASSUME TxInv, NEW p \in Proc, RefTaken(p) PROVE TxInv'
  <1>1. /\ pc[p] \in {"claimRef", "race"} /\ OrderTaken(p)
        /\ pc' = [pc EXCEPT ![p] = "replay"] /\ held' = [held EXCEPT ![p] = {}]
        /\ UNCHANGED <<call, todo, chosen, answer, tables>>
    BY DEF RefTaken
  <1>2. call[p] \in Calls /\ call[p].op = "reserve"
    BY <1>1 DEF TxInv, HandlerOK, ShapeOK
  <1>3. /\ HandlerTypes' /\ Alone(p)
        /\ pc'[p] = "replay" /\ call'[p] = call[p] /\ held'[p] = {}
    BY <1>1 DEF TxInv, HandlerTypes, Alone, Label
  <1>4. FoundOK(p)'
    BY <1>1, <1>3 DEF FoundOK, OrderTaken, tables
  <1>5. HandlerOK(p)'
    BY <1>2, <1>3, <1>4 DEF HandlerOK, ShapeOK, RowsOK, LocksOK, AnswerOK
  <1> QED
    BY <1>1, <1>3, <1>5, ExclusiveStep, LocalStep DEF TxInv

\* The replay compares the stored request with this one.
LEMMA ReplayStep == ASSUME TxInv, NEW p \in Proc, Replay(p) PROVE TxInv'
  <1> DEFINE c == call[p]
             h == header[c.id]
             a == IF SameRequest(h, c) THEN h.status ELSE "conflict"
  <1>1. pc[p] = "replay" /\ Refuse(p, a)
    BY DEF Replay
  <1>2. /\ c \in Calls /\ c.op = "reserve"
        /\ h # NoHeader \/ \E r \in ReservationId : header[r].order = c.order
    BY <1>1 DEF TxInv, HandlerOK, ShapeOK, FoundOK, OrderTaken
  <1>3. /\ c.id \in ReservationId /\ c.order \in OrderId /\ c.payload \in Payload
        /\ c.op \notin Settle /\ c.op \notin CommandOp
    BY <1>2, CallFields DEF Settle, CommandOp
  <1>4. h \in Header /\ (h.status = "none" => h = NoHeader) /\ None \notin OrderId \cup Payload
    BY <1>3, TablesFacts, StockAssumption DEF TxInv, HeadersOK
  <1>5. h.status # "none" => h # NoHeader
    BY DEF NoHeader
  <1>6. a \in Answer
    BY <1>4 DEF Answer, Header
  <1>7. SameRequest(h, c) => h.status # "none" /\ h.payload = c.payload /\ h.order = c.order
    BY <1>3, <1>4 DEF SameRequest, NoHeader
  <1>8. ~SameRequest(h, c) =>
           \/ h.status # "none" /\ ~(h.payload = c.payload /\ h.order = c.order)
           \/ \E r \in ReservationId \ {c.id} : header[r].order = c.order
    BY <1>2, <1>3, <1>4 DEF SameRequest, NoHeader
  <1>9. h.status # "conflict"
    BY <1>4 DEF Header, Status
  <1>10. TrueAnswer(c, a)
    BY <1>2, <1>3, <1>7, <1>8, <1>9 DEF TrueAnswer, Status
  <1> QED
    BY <1>1, <1>6, <1>10, RefuseStep

\* The scan picks a warehouse and locks nothing.
LEMMA ScanStep == ASSUME TxInv, NEW p \in Proc, Scan(p) PROVE TxInv'
  <1> DEFINE c == call[p]
  <1>1. PICK w \in Active : /\ chosen' = [chosen EXCEPT ![p] = w]
                            /\ Advance(p, "lock", Requested(c.payload) \X {w})
    BY DEF Scan
  <1>2. pc[p] = "scan" /\ UNCHANGED tables
    BY DEF Scan
  <1>3. /\ ShapeOK(p) /\ LocksOK(p) /\ FoundOK(p) /\ HandlerTypes
        /\ c \in Calls /\ c.op = "reserve" /\ Wants(p) = {}
    BY <1>2, WantsAt DEF TxInv, HandlerOK, ShapeOK
  <1>4. Requested(c.payload) \X {w} \in SUBSET Row
    <2>1. w \in Warehouse /\ Requested(c.payload) \subseteq SKU
      BY StockAssumption DEF Requested
    <2> QED
      BY <2>1 DEF Row
  <1>5. Picks(p) /\ chosen'[p] = w
    BY <1>1, <1>3 DEF HandlerTypes, Picks
  <1>6. /\ HandlerTypes' /\ Exclusive' /\ Alone(p)
        /\ pc'[p] = "lock" /\ call'[p] = c /\ held'[p] = held[p]
        /\ todo'[p] = Requested(c.payload) \X {w}
    BY <1>1, <1>3, <1>4, <1>5, ReadStep DEF TxInv, Label
  <1>7. Rows(p)' = todo'[p]
    BY <1>3, <1>5, <1>6 DEF Rows, Settle
  <1>8. RowsOK(p)' /\ LockedRows(p)' = {}
    BY <1>6, <1>7 DEF RowsOK, LockedRows
  <1>9. LocksOK(p)'
    BY <1>2, <1>3, <1>6, <1>8 DEF LocksOK, EntryLocks
  <1>10. FoundOK(p)'
    BY <1>2, <1>3, <1>6 DEF FoundOK, OrderTaken, tables
  <1>11. HandlerOK(p)'
    BY <1>3, <1>5, <1>6, <1>8, <1>9, <1>10 DEF HandlerOK, ShapeOK, AnswerOK
  <1> QED
    BY <1>2, <1>6, <1>11, LocalStep

\* A shortage is classified under the claims already held.
LEMMA ShortageStep ==
    ASSUME TxInv, NEW p \in Proc, UNCHANGED <<chosen, tables>>,
           Advance(p, "classify", {}),
           pc[p] = "scan" \/ (pc[p] = "lock" /\ todo[p] = {})
    PROVE  TxInv'
  <1>1. /\ ShapeOK(p) /\ LocksOK(p) /\ FoundOK(p) /\ HandlerTypes
        /\ call[p] \in Calls /\ call[p].op = "reserve" /\ Wants(p) = {}
    BY WantsAt DEF TxInv, HandlerOK, ShapeOK
  <1>2. /\ HandlerTypes' /\ Exclusive' /\ Alone(p)
        /\ pc'[p] = "classify" /\ call'[p] = call[p] /\ held'[p] = held[p]
    BY <1>1, NoPick, ReadStep DEF TxInv, Label
  <1>3. EntryLocks(p)' = EntryLocks(p) /\ EntryLocks(p) \subseteq held[p]
    BY <1>1, <1>2 DEF EntryLocks, LocksOK
  <1>4. FoundOK(p)'
    BY <1>1, <1>2 DEF FoundOK, OrderTaken, tables
  <1>5. HandlerOK(p)'
    BY <1>1, <1>2, <1>3, <1>4 DEF HandlerOK, ShapeOK, RowsOK, LocksOK, AnswerOK
  <1> QED
    BY <1>2, <1>5, LocalStep

LEMMA NoneFulfillsStep == ASSUME TxInv, NEW p \in Proc, NoneFulfills(p) PROVE TxInv'
  BY ShortageStep DEF NoneFulfills

\* One more row locked, in the order of the rows.
LEMMA TakeRow ==
    ASSUME TxInv, NEW p \in Proc, pc[p] \in {"lock", "write"}, todo[p] # {},
           Wants(p) = {RowLock(NextRow(p))}, UNCHANGED <<chosen, tables>>,
           Advance(p, pc[p], todo[p] \ {NextRow(p)})
    PROVE  /\ HandlerTypes' /\ Exclusive' /\ Alone(p)
           /\ pc'[p] = pc[p] /\ call'[p] = call[p] /\ chosen'[p] = chosen[p]
           /\ RowsOK(p)' /\ LocksOK(p)'
           /\ LockedRows(p)' \subseteq LockedRows(p) \cup {NextRow(p)}
  <1> DEFINE n == NextRow(p)
  <1>1. /\ ShapeOK(p) /\ RowsOK(p) /\ LocksOK(p) /\ HandlerTypes
    BY DEF TxInv, HandlerOK
  <1>2. /\ n \in todo[p] /\ \A y \in todo[p] \ {n} : Before(n, y)
        /\ todo[p] \ {n} \in SUBSET Row
    BY <1>1, NextRowIsFirst DEF HandlerTypes
  <1>3. /\ HandlerTypes' /\ Exclusive' /\ Alone(p)
        /\ pc'[p] = pc[p] /\ call'[p] = call[p] /\ todo'[p] = todo[p] \ {n}
        /\ held'[p] = held[p] \cup {RowLock(n)}
    BY <1>1, <1>2, NoPick, AdvanceStep DEF TxInv, HandlerTypes
  <1>4. chosen'[p] = chosen[p] /\ Rows(p)' = Rows(p) /\ EntryLocks(p)' = EntryLocks(p)
    BY <1>3 DEF Rows, EntryLocks, tables
  <1>5. todo[p] \subseteq Rows(p) /\ \A x \in Rows(p) \ todo[p], y \in todo[p] : Before(x, y)
    BY <1>1 DEF RowsOK
  <1>6. RowsOK(p)'
    BY <1>2, <1>3, <1>4, <1>5 DEF RowsOK
  <1>7. LockedRows(p)' = LockedRows(p) \cup {n}
    BY <1>2, <1>3, <1>4, <1>5 DEF LockedRows
  <1>8. held[p] = EntryLocks(p) \cup {RowLock(x) : x \in LockedRows(p)}
    BY <1>1 DEF LocksOK
  <1>9. held'[p] = EntryLocks(p)' \cup {RowLock(x) : x \in LockedRows(p)'}
    BY <1>3, <1>4, <1>7, <1>8
  <1>10. LocksOK(p)'
    BY <1>3, <1>9 DEF LocksOK
  <1> QED
    BY <1>3, <1>4, <1>6, <1>7, <1>10

LEMMA LockRowStep == ASSUME TxInv, NEW p \in Proc, LockRow(p) PROVE TxInv'
  <1>1. /\ pc[p] = "lock" /\ todo[p] # {} /\ UNCHANGED <<chosen, tables>>
        /\ Advance(p, "lock", todo[p] \ {NextRow(p)})
    BY DEF LockRow
  <1>2. /\ HandlerTypes' /\ Exclusive' /\ Alone(p)
        /\ pc'[p] = "lock" /\ call'[p] = call[p] /\ chosen'[p] = chosen[p]
        /\ RowsOK(p)' /\ LocksOK(p)'
    BY <1>1, WantsAt, TakeRow
  <1>3. /\ ShapeOK(p) /\ FoundOK(p) /\ call[p].op = "reserve"
    BY <1>1 DEF TxInv, HandlerOK, ShapeOK
  <1>4. FoundOK(p)'
    BY <1>1, <1>2, <1>3 DEF FoundOK, OrderTaken, tables
  <1>5. HandlerOK(p)'
    BY <1>1, <1>2, <1>3, <1>4 DEF HandlerOK, ShapeOK, AnswerOK
  <1> QED
    BY <1>1, <1>2, <1>5, LocalStep

\* ATP is read when every row of the payload is locked.
LEMMA RevalidateStep == ASSUME TxInv, NEW p \in Proc, Revalidate(p) PROVE TxInv'
  <1>1. pc[p] = "lock" /\ todo[p] = {} /\ UNCHANGED <<chosen, tables>>
    BY DEF Revalidate
  <1>2. CASE ~StillCovered(p)
    BY <1>1, <1>2, ShortageStep DEF Revalidate
  <1>3. CASE StillCovered(p)
    <2> DEFINE R == Requested(call[p].payload) \X {chosen[p]}
    <2>1. Advance(p, "write", R)
      BY <1>3 DEF Revalidate
    <2>2. /\ ShapeOK(p) /\ LocksOK(p) /\ FoundOK(p) /\ HandlerTypes
          /\ call[p] \in Calls /\ call[p].op = "reserve" /\ Wants(p) = {} /\ chosen[p] \in Active
      BY <1>1, WantsAt DEF TxInv, HandlerOK, ShapeOK
    <2>3. Rows(p) = R /\ R \in SUBSET Row
      BY <1>1, <2>2, RowsType DEF Rows, Settle
    <2>4. /\ HandlerTypes' /\ Exclusive' /\ Alone(p)
          /\ pc'[p] = "write" /\ call'[p] = call[p] /\ held'[p] = held[p] /\ todo'[p] = R
      BY <1>1, <2>1, <2>2, <2>3, NoPick, ReadStep DEF TxInv, Label
    <2>5. chosen'[p] = chosen[p] /\ Rows(p)' = Rows(p) /\ EntryLocks(p)' = EntryLocks(p)
      BY <1>1, <2>4 DEF Rows, EntryLocks, tables
    <2>6. LockedRows(p)' = LockedRows(p)
      BY <1>1, <2>2, <2>4, <2>5 DEF LockedRows
    <2>7. RowsOK(p)' /\ LocksOK(p)'
      BY <1>1, <2>2, <2>3, <2>4, <2>5, <2>6 DEF RowsOK, LocksOK
    <2>8. FoundOK(p)'
      <3>1. StillCovered(p)'
        BY <1>1, <1>3, <2>4, <2>5 DEF StillCovered, FulfillsLines, tables
      <3> QED
        BY <1>1, <2>2, <2>4, <3>1 DEF FoundOK, OrderTaken, Settle, CommandOp, tables
    <2>9. HandlerOK(p)'
      BY <2>2, <2>4, <2>5, <2>7, <2>8 DEF HandlerOK, ShapeOK, AnswerOK
    <2> QED
      BY <1>1, <2>4, <2>9, LocalStep
  <1> QED
    BY <1>2, <1>3

\* A refusal that says nothing of the tables.
LEMMA PlainRefusal ==
    ASSUME TxInv, NEW p \in Proc, NEW a \in Plain, pc[p] # "idle", Refuse(p, a)
    PROVE  TxInv'
  BY PlainIsTrue, RefuseStep DEF Plain

LEMMA PlainAnswers ==
    {"insufficient", "unknown_sku", "absent", "not_found", "balance_not_found",
     "insufficient_on_hand", "concurrency", "unavailable"} \subseteq Plain
  BY DEF Plain, Answer, Status

LEMMA ClassifyStep == ASSUME TxInv, NEW p \in Proc, Classify(p) PROVE TxInv'
  BY PlainRefusal, PlainAnswers DEF Classify

LEMMA RowMissingStep == ASSUME TxInv, NEW p \in Proc, RowMissing(p) PROVE TxInv'
  BY PlainRefusal, PlainAnswers DEF RowMissing

LEMMA CheckFailsStep == ASSUME TxInv, NEW p \in Proc, CheckFails(p) PROVE TxInv'
  BY PlainRefusal, PlainAnswers DEF CheckFails

LEMMA FailStep == ASSUME TxInv, NEW p \in Proc, Fail(p) PROVE TxInv'
  BY PlainRefusal, PlainAnswers DEF Fail

LEMMA LockTimeoutStep == ASSUME TxInv, NEW p \in Proc, LockTimeout(p) PROVE TxInv'
  <1>1. pc[p] # "idle"
    BY WantsAt DEF LockTimeout, Blocked
  <1> QED
    BY <1>1, PlainRefusal, PlainAnswers DEF LockTimeout

\* The header row is locked when its status is read.
LEMMA LockHeaderStep == ASSUME TxInv, NEW p \in Proc, LockHeader(p) PROVE TxInv'
  <1> DEFINE c == call[p]
             R == {x \in Row : lines[c.id][x] > 0}
  <1>1. /\ pc[p] = "header" /\ header[c.id].status = "reserved"
        /\ Advance(p, "write", R) /\ UNCHANGED <<chosen, tables>>
    BY DEF LockHeader
  <1>2. header[c.id] # NoHeader
    BY <1>1 DEF NoHeader
  <1>3. /\ ShapeOK(p) /\ HandlerTypes /\ c \in Calls /\ c.op \in Settle /\ c.op # "reserve"
        /\ c.op \notin CommandOp /\ held[p] = {} /\ Wants(p) = {IdLock(c.id)}
    BY <1>1, <1>2, WantsAt DEF TxInv, HandlerOK, ShapeOK, Settle, CommandOp
  <1>4. /\ HandlerTypes' /\ Exclusive' /\ Alone(p)
        /\ pc'[p] = "write" /\ call'[p] = c /\ todo'[p] = R
        /\ held'[p] = held[p] \cup Wants(p)
    BY <1>1, <1>3, NoPick, AdvanceStep DEF TxInv, Label
  <1>5. Rows(p)' = R /\ EntryLocks(p)' = {IdLock(c.id)}
    BY <1>1, <1>3, <1>4 DEF Rows, EntryLocks, tables
  <1>6. LockedRows(p)' = {} /\ RowsOK(p)'
    BY <1>3, <1>4, <1>5 DEF LockedRows, RowsOK
  <1>7. held'[p] = {IdLock(c.id)}
    BY <1>3, <1>4
  <1>8. LocksOK(p)'
    BY <1>4, <1>5, <1>6, <1>7 DEF LocksOK
  <1>9. FoundOK(p)'
    BY <1>1, <1>3, <1>4 DEF FoundOK, tables
  <1>10. HandlerOK(p)'
    BY <1>3, <1>4, <1>6, <1>8, <1>9 DEF HandlerOK, ShapeOK, AnswerOK
  <1> QED
    BY <1>1, <1>4, <1>10, LocalStep

\* Any other status is final, so what decide makes of it stays true.
LEMMA DecideStep == ASSUME TxInv, NEW p \in Proc, Decide(p) PROVE TxInv'
  <1> DEFINE c == call[p]
             s == header[c.id].status
             a == Decision(c.op, s)
  <1>1. pc[p] = "header" /\ s # "reserved" /\ Refuse(p, a)
    BY DEF Decide
  <1>2. c.op \in Settle /\ c.id \in ReservationId /\ c.op # "reserve" /\ c.op \notin CommandOp
    BY <1>1, CallFields DEF TxInv, HandlerOK, ShapeOK, Settle, CommandOp
  <1>3. s \in {"none", "committed", "released"}
    BY <1>1, <1>2, TablesFacts DEF TxInv, HeadersOK, Header, Status
  <1>4. Abstract!Target(c.op) \in {"committed", "released"}
    BY DEF Abstract!Target
  <1>5. CASE s = "none"
    <2>1. a = "absent" \/ a = "not_found"
      BY <1>2, <1>4, <1>5 DEF Decision, Settle
    <2> QED
      BY <1>1, <2>1, PlainRefusal, PlainAnswers
  <1>6. CASE s # "none" /\ s = Abstract!Target(c.op)
    <2>1. a = s
      BY <1>2, <1>6 DEF Decision
    <2>2. TrueAnswer(c, a) /\ a \in Answer
      BY <1>2, <1>3, <1>6, <2>1 DEF TrueAnswer, Answer, Status
    <2> QED
      BY <1>1, <2>2, RefuseStep
  <1>7. CASE s # "none" /\ s # Abstract!Target(c.op)
    <2>1. a = "invalid_transition"
      BY <1>2, <1>7 DEF Decision
    <2>2. TrueAnswer(c, a) /\ a \in Answer
      BY <1>2, <1>3, <1>7, <2>1 DEF TrueAnswer, Answer, Status
    <2> QED
      BY <1>1, <2>2, RefuseStep
  <1> QED
    BY <1>5, <1>6, <1>7

\* The command id is free when it is claimed.
LEMMA ClaimKeyStep == ASSUME TxInv, NEW p \in Proc, ClaimKey(p) PROVE TxInv'
  <1> DEFINE c == call[p]
             R == {<<c.sku, c.wh>>}
  <1>1. /\ pc[p] = "claim" /\ c.op \in CommandOp /\ ~KeyTaken(p)
        /\ Advance(p, "write", R) /\ UNCHANGED <<chosen, tables>>
    BY DEF ClaimKey
  <1>2. /\ ShapeOK(p) /\ HandlerTypes /\ c \in Calls /\ c.op # "reserve"
        /\ c.op \notin Settle /\ held[p] = {} /\ Wants(p) = {KeyLock(c.cmd)}
    BY <1>1, WantsAt DEF TxInv, HandlerOK, ShapeOK, Settle, CommandOp
  <1>3. R \in SUBSET Row
    BY <1>1, <1>2, CallFields
  <1>4. /\ HandlerTypes' /\ Exclusive' /\ Alone(p)
        /\ pc'[p] = "write" /\ call'[p] = c /\ todo'[p] = R
        /\ held'[p] = held[p] \cup Wants(p)
    BY <1>1, <1>2, <1>3, NoPick, AdvanceStep DEF TxInv, Label
  <1>5. Rows(p)' = R /\ EntryLocks(p)' = {KeyLock(c.cmd)}
    BY <1>2, <1>4 DEF Rows, EntryLocks
  <1>6. LockedRows(p)' = {} /\ RowsOK(p)'
    BY <1>2, <1>4, <1>5 DEF LockedRows, RowsOK
  <1>7. held'[p] = {KeyLock(c.cmd)}
    BY <1>2, <1>4
  <1>8. LocksOK(p)'
    BY <1>4, <1>5, <1>6, <1>7 DEF LocksOK
  <1>9. FoundOK(p)'
    BY <1>1, <1>2, <1>4, <1>6 DEF FoundOK, KeyTaken, tables
  <1>10. HandlerOK(p)'
    BY <1>2, <1>4, <1>6, <1>8, <1>9 DEF HandlerOK, ShapeOK, AnswerOK
  <1> QED
    BY <1>1, <1>4, <1>10, LocalStep

\* Movements are never rewritten, so what the comparison says stays true.
LEMMA ResolveKeyStep == ASSUME TxInv, NEW p \in Proc, ResolveKey(p) PROVE TxInv'
  <1> DEFINE c == call[p]
  <1>1. PICK m \in ledger :
           /\ m.key = CommandMove(c).key
           /\ Refuse(p, IF SameMovement(m, c) THEN "replayed" ELSE "conflict")
    BY DEF ResolveKey
  <1>2. pc[p] = "claim" /\ c.op \in CommandOp /\ c.op # "reserve" /\ c.op \notin Settle
    BY DEF ResolveKey, CommandOp, Settle
  <1>3. CASE SameMovement(m, c)
    <2>1. TrueAnswer(c, "replayed") /\ "replayed" \in Answer
      BY <1>1, <1>2, <1>3 DEF SameMovement, TrueAnswer, Answer
    <2> QED
      BY <1>1, <1>2, <1>3, <2>1, RefuseStep
  <1>4. CASE ~SameMovement(m, c)
    <2>1. TrueAnswer(c, "conflict") /\ "conflict" \in Answer
      BY <1>1, <1>2, <1>4 DEF SameMovement, TrueAnswer, Answer
    <2> QED
      BY <1>1, <1>2, <1>4, <2>1, RefuseStep
  <1> QED
    BY <1>3, <1>4

\* A row is locked when its CHECKs are evaluated.
LEMMA WriteRowStep == ASSUME TxInv, NEW p \in Proc, WriteRow(p) PROVE TxInv'
  <1> DEFINE c == call[p]
             n == NextRow(p)
  <1>1. /\ pc[p] = "write" /\ todo[p] # {} /\ Writable(p) /\ UNCHANGED <<chosen, tables>>
        /\ SchemaChecks(NewRow(p, n)) /\ Advance(p, pc[p], todo[p] \ {n})
    BY DEF WriteRow
  <1>2. /\ HandlerTypes' /\ Exclusive' /\ Alone(p)
        /\ pc'[p] = "write" /\ call'[p] = c /\ chosen'[p] = chosen[p]
        /\ RowsOK(p)' /\ LocksOK(p)'
        /\ LockedRows(p)' \subseteq LockedRows(p) \cup {n}
    BY <1>1, WantsAt, TakeRow
  <1>3. ShapeOK(p) /\ FoundOK(p) /\ c \in Calls
    BY <1>1 DEF TxInv, HandlerOK, ShapeOK
  <1>4. CASE c.op = "reserve"
    <2>1. StillCovered(p)'
      BY <1>1, <1>2, <1>3, <1>4 DEF FoundOK, StillCovered, FulfillsLines, tables
    <2> QED
      BY <1>1, <1>2, <1>3, <1>4, <2>1, LocalStep
      DEF FoundOK, OrderTaken, tables, Settle, CommandOp, HandlerOK, ShapeOK, AnswerOK
  <1>5. CASE c.op \in Settle
    <2>1. FoundOK(p)'
      BY <1>1, <1>2, <1>3, <1>5 DEF FoundOK, tables, Settle, CommandOp
    <2>2. HandlerOK(p)'
      BY <1>2, <1>3, <1>5, <2>1 DEF HandlerOK, ShapeOK, AnswerOK, Settle
    <2> QED
      BY <1>1, <1>2, <2>2, LocalStep
  <1>6. CASE c.op \in CommandOp
    <2>1. \A x \in LockedRows(p)' : /\ c.op = "receive" \/ bal[x].live
                                    /\ SchemaChecks(CommandEffect(c, bal[x]))
      BY <1>1, <1>2, <1>3, <1>6 DEF FoundOK, NewRow, Writable
    <2>2. FoundOK(p)'
      BY <1>1, <1>2, <1>3, <1>6, <2>1 DEF FoundOK, KeyTaken, tables, Settle, CommandOp
    <2>3. HandlerOK(p)'
      BY <1>2, <1>3, <1>6, <2>2 DEF HandlerOK, ShapeOK, AnswerOK, CommandOp
    <2> QED
      BY <1>1, <1>2, <2>3, LocalStep
  <1> QED
    BY <1>3, <1>4, <1>5, <1>6, CallFields

-----------------------------------------------------------------------------
(* COMMIT *)

\* A COMMIT is one step of the atomic service on locked data.
LEMMA SharedStep ==
    ASSUME TxInv, NEW p \in Proc, Abstract!Next, Disciplined(p),
           HandlerTypes', Exclusive', Alone(p), HandlerOK(p)', HeadersOK'
    PROVE  TxInv'
  <1>1. Tables'
    BY TablesStep DEF TxInv
  <1>2. \A q \in Proc \ {p} : HandlerOK(q)'
    BY OthersKeep
  <1> QED
    BY <1>1, <1>2 DEF TxInv

\* The answer to a COMMIT may get lost.
LEMMA CommittedStep ==
    ASSUME TxInv, NEW p \in Proc, NEW a \in Answer, Committed(p, a)
    PROVE  /\ HandlerTypes' /\ Exclusive' /\ Alone(p)
           /\ pc'[p] = "done" /\ call'[p] = call[p] /\ held'[p] = {}
           /\ answer'[p] \in {a, "unavailable"}
  <1>1. "unavailable" \in Answer
    BY DEF Answer
  <1> QED
    BY <1>1, FinishStep DEF Committed, TxInv

\* The rows of a transaction with nothing left to write are all locked.
LEMMA WrittenIsLocked ==
    ASSUME TxInv, NEW p \in Proc, Written(p)
    PROVE  /\ LockedRows(p) = Rows(p)
           /\ EntryLocks(p) \subseteq held[p]
           /\ \A x \in Rows(p) : RowLock(x) \in held[p]
  <1>1. LocksOK(p) /\ pc[p] = "write" /\ todo[p] = {}
    BY DEF Written, TxInv, HandlerOK
  <1>2. LockedRows(p) = Rows(p)
    BY <1>1 DEF LockedRows
  <1> QED
    BY <1>1, <1>2 DEF LocksOK

\* The balances MoveStock changes and the ledger rows it adds.
LEMMA MoveStockTouches ==
    ASSUME NEW op \in {"reserve", "release", "commit"}, NEW r, NEW ls,
           bal \in [Row -> Balance], Abstract!MoveStock(op, r, ls)
    PROVE  /\ \A x \in Row : bal'[x] # bal[x] => ls[x] > 0
           /\ ledger \subseteq ledger'
           /\ \A m \in ledger' \ ledger, k \in CommandId : m.key # <<"command", k, None>>
  <1>1. bal' = [x \in Row |-> IF ls[x] > 0 THEN LineEffect(op, bal[x], ls[x]) ELSE bal[x]]
    BY SameData, SameEffects DEF Abstract!MoveStock
  <1>2. ledger' = ledger \cup LineMoves(op, r, ls)
    BY SameEffects DEF Abstract!MoveStock
  <1>3. ASSUME NEW m \in LineMoves(op, r, ls), NEW k PROVE m.key # <<"command", k, None>>
    <2>1. PICK x : m = LineMove(op, r, x, ls[x])
      BY DEF LineMoves
    <2>2. m.key = <<op, r, x[1]>>
      BY <2>1 DEF LineMove
    <2> QED
      BY <2>2
  <1> QED
    BY <1>1, <1>2, <1>3

\* A reservation: the id and the order are still free and the stock is there.
LEMMA CommitReserveShared ==
    ASSUME TxInv, NEW p \in Proc, CommitReserve(p)
    PROVE  Abstract!Next /\ Disciplined(p) /\ HeadersOK'
  <1> DEFINE c == call[p]
             w == chosen[p]
             ls == Abstract!Alloc(c.payload, w)
  <1>1. /\ Written(p) /\ c.op = "reserve" /\ Abstract!MoveStock("reserve", c.id, ls)
        /\ lines' = [lines EXCEPT ![c.id] = ls]
        /\ header' = [header EXCEPT ![c.id] = [status |-> "reserved", order |-> c.order,
                                               payload |-> c.payload]]
    BY DEF CommitReserve
  <1>2. /\ c \in Calls /\ w \in Active /\ header[c.id] = NoHeader /\ ~OrderTaken(p)
        /\ StillCovered(p)
    BY <1>1 DEF Written, TxInv, HandlerOK, ShapeOK, FoundOK
  <1>3. /\ c.id \in ReservationId /\ c.order \in OrderId /\ c.payload \in Payload
        /\ c.op \notin Settle
    BY <1>1, <1>2, CallFields DEF Settle
  <1>4. /\ bal \in [Row -> Balance] /\ header \in [ReservationId -> Header]
        /\ lines \in [ReservationId -> [Row -> 0..MaxBigint]]
    BY TablesFacts DEF TxInv
  <1>5. Abstract!Reserve(c)
    <2>1. Abstract!FulfillsLines(bal, w, c.payload)
      BY <1>2, SameEffects DEF StillCovered
    <2>2. \A r \in ReservationId : header[r].order # c.order
      BY <1>2 DEF OrderTaken
    <2>3. header[c.id].status = "none"
      BY <1>2 DEF NoHeader
    <2> QED
      BY <1>1, <1>2, <2>1, <2>2, <2>3 DEF Abstract!Reserve
  <1>6. Rows(p) = Requested(c.payload) \X {w} /\ EntryLocks(p) = {IdLock(c.id), RefLock(c.order)}
    BY <1>1, <1>3 DEF Rows, EntryLocks
  <1>7. \A x \in Row : bal'[x] # bal[x] => RowLock(x) \in held[p]
    <2>1. ASSUME NEW x \in Row, ls[x] > 0 PROVE x \in Rows(p)
      <3>1. PICK s \in SKU, v \in Warehouse : x = <<s, v>>
        BY DEF Row
      <3>2. ls[x] = IF v = w THEN Items[c.payload][s] ELSE 0
        BY <3>1, SameData DEF Abstract!Alloc
      <3>3. v = w /\ s \in Requested(c.payload)
        BY <2>1, <3>2 DEF Requested
      <3> QED
        BY <1>6, <3>1, <3>3
    <2> QED
      BY <1>1, <1>4, <2>1, MoveStockTouches, WrittenIsLocked
  <1>8. IdLock(c.id) \in held[p] /\ RefLock(c.order) \in held[p]
    BY <1>1, <1>6, WrittenIsLocked
  <1>9. /\ ledger \subseteq ledger'
        /\ \A m \in ledger' \ ledger, k \in CommandId : m.key # <<"command", k, None>>
    BY <1>1, <1>4, MoveStockTouches
  <1>10. /\ header'[c.id] = [status |-> "reserved", order |-> c.order, payload |-> c.payload]
         /\ header[c.id].status = "none"
         /\ \A r \in ReservationId \ {c.id} : header'[r] = header[r] /\ lines'[r] = lines[r]
    BY <1>1, <1>2, <1>3, <1>4 DEF NoHeader
  <1>11. Disciplined(p)
    BY <1>3, <1>7, <1>8, <1>9, <1>10 DEF Disciplined
  <1>12. HeadersOK'
    BY <1>10 DEF TxInv, HeadersOK
  <1> QED
    BY <1>1, <1>2, <1>5, <1>11, <1>12 DEF Abstract!Next

LEMMA CommitReserveStep == ASSUME TxInv, NEW p \in Proc, CommitReserve(p) PROVE TxInv'
  <1> DEFINE c == call[p]
  <1>1. c.op = "reserve" /\ Committed(p, "reserved") /\ "reserved" \in Answer
    BY DEF CommitReserve, Answer, Status
  <1>2. /\ HandlerTypes' /\ Exclusive' /\ Alone(p)
        /\ pc'[p] = "done" /\ call'[p] = c /\ held'[p] = {}
        /\ answer'[p] \in {"reserved", "unavailable"}
    BY <1>1, CommittedStep
  <1>3. c \in Calls /\ c.id \in ReservationId /\ c.op \notin Settle /\ c.op \notin CommandOp
    BY <1>1, CallFields DEF CommitReserve, Written, TxInv, HandlerOK, ShapeOK, Settle, CommandOp
  <1>4. header'[c.id] = [status |-> "reserved", order |-> c.order, payload |-> c.payload]
    BY <1>3, TablesFacts DEF CommitReserve, TxInv
  <1>5. AnswerOK(p)'
    BY <1>1, <1>2, <1>3, <1>4 DEF AnswerOK, TrueAnswer, Status
  <1>6. HandlerOK(p)'
    BY <1>2, <1>3, <1>5, DoneOK
  <1> QED
    BY <1>2, <1>6, CommitReserveShared, SharedStep

\* A release or commit: the hold is still open, and a hold can be settled.
LEMMA CommitTransitionShared ==
    ASSUME TxInv, NEW p \in Proc, CommitTransition(p)
    PROVE  Abstract!Next /\ Disciplined(p) /\ HeadersOK'
  <1> DEFINE c == call[p]
             ls == lines[c.id]
             t == Abstract!Target(c.op)
  <1>1. /\ Written(p) /\ c.op \in Settle /\ Abstract!MoveStock(c.op, c.id, ls)
        /\ header' = [header EXCEPT ![c.id].status = t]
        /\ lines' = lines
    BY DEF CommitTransition
  <1>2. c \in Calls /\ header[c.id].status = "reserved"
    BY <1>1 DEF Written, TxInv, HandlerOK, ShapeOK, FoundOK
  <1>3. c.id \in ReservationId /\ c.op \in {"release", "commit"} /\ c.op # "reserve"
    BY <1>1, <1>2, CallFields DEF Settle
  <1>4. bal \in [Row -> Balance] /\ header \in [ReservationId -> Header]
    BY TablesFacts DEF TxInv
  <1>5. Abstract!CanSettle(c.op, c.id)
    BY <1>2, <1>3, TablesFacts, SameData, SameChecks, SameEffects
    DEF Abstract!CanSettle, TxInv
  <1>6. Abstract!Transition(c)
    BY <1>1, <1>2, <1>5 DEF Abstract!Transition
  <1>7. Rows(p) = {x \in Row : ls[x] > 0} /\ EntryLocks(p) = {IdLock(c.id)}
    BY <1>1, <1>3 DEF Rows, EntryLocks
  <1>8. \A x \in Row : bal'[x] # bal[x] => RowLock(x) \in held[p]
    BY <1>1, <1>3, <1>4, <1>7, MoveStockTouches, WrittenIsLocked
  <1>9. IdLock(c.id) \in held[p]
    BY <1>1, <1>7, WrittenIsLocked
  <1>10. /\ ledger \subseteq ledger'
         /\ \A m \in ledger' \ ledger, k \in CommandId : m.key # <<"command", k, None>>
    BY <1>1, <1>3, <1>4, MoveStockTouches
  <1>11. /\ header'[c.id].status = t /\ t \in {"committed", "released"}
         /\ header'[c.id].order = header[c.id].order
         /\ header'[c.id].payload = header[c.id].payload
         /\ \A r \in ReservationId \ {c.id} : header'[r] = header[r]
    BY <1>1, <1>3, <1>4 DEF Header, Abstract!Target
  <1>12. Disciplined(p)
    BY <1>1, <1>2, <1>3, <1>8, <1>9, <1>10, <1>11 DEF Disciplined
  <1>13. HeadersOK'
    BY <1>11 DEF TxInv, HeadersOK
  <1> QED
    BY <1>2, <1>3, <1>6, <1>12, <1>13 DEF Abstract!Next

LEMMA CommitTransitionStep == ASSUME TxInv, NEW p \in Proc, CommitTransition(p) PROVE TxInv'
  <1> DEFINE c == call[p]
             t == Abstract!Target(c.op)
  <1>1. c.op \in Settle /\ Committed(p, t) /\ t \in {"committed", "released"} /\ t \in Answer
    BY DEF CommitTransition, Abstract!Target, Answer, Status
  <1>2. /\ HandlerTypes' /\ Exclusive' /\ Alone(p)
        /\ pc'[p] = "done" /\ call'[p] = c /\ held'[p] = {}
        /\ answer'[p] \in {t, "unavailable"}
    BY <1>1, CommittedStep
  <1>3. c \in Calls /\ c.id \in ReservationId /\ c.op # "reserve" /\ c.op \notin CommandOp
    BY <1>1, CallFields DEF CommitTransition, Written, TxInv, HandlerOK, ShapeOK, Settle, CommandOp
  <1>4. header'[c.id].status = t
    BY <1>3, TablesFacts DEF CommitTransition, TxInv, Header
  <1>5. AnswerOK(p)'
    BY <1>1, <1>2, <1>3, <1>4 DEF AnswerOK, TrueAnswer, Status
  <1>6. HandlerOK(p)'
    BY <1>2, <1>3, <1>5, DoneOK
  <1> QED
    BY <1>2, <1>6, CommitTransitionShared, SharedStep

\* A stock command: the command id is still free and the CHECKs still hold.
LEMMA CommitCommandShared ==
    ASSUME TxInv, NEW p \in Proc, CommitCommand(p)
    PROVE  Abstract!Next /\ Disciplined(p) /\ HeadersOK'
  <1> DEFINE c == call[p]
             x == <<c.sku, c.wh>>
  <1>1. /\ Written(p) /\ c.op \in CommandOp
        /\ bal' = [bal EXCEPT ![x] = CommandEffect(c, bal[x])]
        /\ ledger' = ledger \cup {CommandMove(c)}
        /\ header' = header /\ lines' = lines
    BY DEF CommitCommand
  <1>2. /\ c \in Calls /\ ~KeyTaken(p)
        /\ \A y \in LockedRows(p) : /\ c.op = "receive" \/ bal[y].live
                                    /\ SchemaChecks(CommandEffect(c, bal[y]))
    BY <1>1 DEF Written, TxInv, HandlerOK, ShapeOK, FoundOK
  <1>3. c.cmd \in CommandId /\ x \in Row /\ c.op # "reserve" /\ c.op \notin Settle
    BY <1>1, <1>2, CallFields DEF Settle, CommandOp
  <1>4. Rows(p) = {x} /\ EntryLocks(p) = {KeyLock(c.cmd)}
    BY <1>3 DEF Rows, EntryLocks
  <1>5. LockedRows(p) = {x} /\ RowLock(x) \in held[p] /\ KeyLock(c.cmd) \in held[p]
    BY <1>1, <1>4, WrittenIsLocked
  <1>6. Abstract!StockCommand(c)
    BY <1>1, <1>2, <1>5, SameChecks, SameEffects DEF Abstract!StockCommand, KeyTaken
  <1>7. bal \in [Row -> Balance]
    BY TablesFacts DEF TxInv
  <1>8. \A y \in Row : bal'[y] # bal[y] => RowLock(y) \in held[p]
    BY <1>1, <1>3, <1>5, <1>7
  <1>9. \A m \in ledger' \ ledger, k \in CommandId :
           m.key = <<"command", k, None>> => KeyLock(k) \in held[p]
    <2>1. CommandMove(c).key = <<"command", c.cmd, None>>
      BY DEF CommandMove
    <2> QED
      BY <1>1, <1>5, <2>1
  <1>10. Disciplined(p)
    BY <1>1, <1>8, <1>9 DEF Disciplined
  <1>11. HeadersOK'
    BY <1>1 DEF TxInv, HeadersOK
  <1> QED
    BY <1>1, <1>2, <1>6, <1>10, <1>11, SameData DEF Abstract!Next

LEMMA CommitCommandStep == ASSUME TxInv, NEW p \in Proc, CommitCommand(p) PROVE TxInv'
  <1> DEFINE c == call[p]
  <1>1. /\ c.op \in CommandOp /\ Committed(p, "applied") /\ "applied" \in Answer
        /\ CommandMove(c) \in ledger'
    BY DEF CommitCommand, Answer
  <1>2. /\ HandlerTypes' /\ Exclusive' /\ Alone(p)
        /\ pc'[p] = "done" /\ call'[p] = c /\ held'[p] = {}
        /\ answer'[p] \in {"applied", "unavailable"}
    BY <1>1, CommittedStep
  <1>3. c \in Calls /\ c.op # "reserve" /\ c.op \notin Settle
    BY <1>1 DEF CommitCommand, Written, TxInv, HandlerOK, ShapeOK, Settle, CommandOp
  <1>4. AnswerOK(p)'
    BY <1>1, <1>2, <1>3 DEF AnswerOK, TrueAnswer
  <1>5. HandlerOK(p)'
    BY <1>2, <1>3, <1>4, DoneOK
  <1> QED
    BY <1>2, <1>5, CommitCommandShared, SharedStep

-----------------------------------------------------------------------------
(* The theorems *)

LEMMA TxInit == Init => TxInv
  <1> SUFFICES ASSUME Init PROVE TxInv
    OBVIOUS
  <1>1. Tables
    BY TablesInit DEF Init
  <1>2. HandlerTypes
    BY DEF Init, HandlerTypes, Label
  <1>3. HeadersOK
    BY SameData DEF Init, Abstract!Init, HeadersOK, NoHeader
  <1>4. Exclusive
    BY DEF Init, Exclusive
  <1>5. ASSUME NEW p \in Proc PROVE HandlerOK(p)
    BY <1>5 DEF Init, HandlerOK, ShapeOK, RowsOK, LocksOK, FoundOK, AnswerOK
  <1> QED
    BY <1>1, <1>2, <1>3, <1>4, <1>5 DEF TxInv

\* Whatever statement runs next, what every handler relies on still holds.
LEMMA TxStep == TxInv /\ [Next]_vars => TxInv'
  <1> SUFFICES ASSUME TxInv, [Next]_vars PROVE TxInv'
    OBVIOUS
  <1>1. CASE UNCHANGED vars
    <2>1. UNCHANGED tables /\ HandlerTypes' /\ Exclusive' /\ HeadersOK'
      BY <1>1 DEF vars, tables, TxInv, HandlerTypes, Exclusive, HeadersOK
    <2>2. Tables'
      BY <2>1, TablesStep DEF TxInv, tables, Abstract!vars
    <2>3. ASSUME NEW p \in Proc PROVE HandlerOK(p)'
      <3>1. HandlerOK(p)
        BY DEF TxInv
      <3>2. Rows(p)' = Rows(p)
        BY <1>1 DEF vars, Rows
      <3>3. EntryLocks(p)' = EntryLocks(p) /\ LockedRows(p)' = LockedRows(p)
        BY <1>1, <3>2 DEF vars, EntryLocks, LockedRows
      <3>4. ShapeOK(p)' /\ RowsOK(p)' /\ LocksOK(p)'
        BY <1>1, <3>1, <3>2, <3>3 DEF vars, HandlerOK, ShapeOK, RowsOK, LocksOK
      <3>5. FoundOK(p)'
        BY <1>1, <3>1, <3>3
        DEF vars, HandlerOK, FoundOK, OrderTaken, KeyTaken, StillCovered, FulfillsLines
      <3>6. AnswerOK(p)'
        BY <1>1, <3>1 DEF vars, HandlerOK, AnswerOK, TrueAnswer
      <3> QED
        BY <3>4, <3>5, <3>6 DEF HandlerOK
    <2> QED
      BY <2>1, <2>2, <2>3 DEF TxInv
  <1>2. ASSUME NEW p \in Proc, BeginCall(p) \/ Work(p) \/ Fail(p) \/ Return(p)
        PROVE  TxInv'
    BY <1>2, BeginCallStep, ReturnStep, FailStep, ClaimIdStep, AlreadyClaimedStep,
       RaceStep, ClaimRefStep, RefTakenStep, ReplayStep, ScanStep, NoneFulfillsStep,
       LockRowStep, RevalidateStep, ClassifyStep, LockHeaderStep, DecideStep,
       ClaimKeyStep, ResolveKeyStep, WriteRowStep, RowMissingStep, CheckFailsStep,
       CommitReserveStep, CommitTransitionStep, CommitCommandStep, LockTimeoutStep
    DEF Work
  <1> QED
    BY <1>1, <1>2 DEF Next

\* Only a COMMIT changes the tables.
LEMMA OnlyCommits ==
    ASSUME NEW p \in Proc, BeginCall(p) \/ Work(p) \/ Fail(p) \/ Return(p)
    PROVE  \/ UNCHANGED tables
           \/ CommitReserve(p) \/ CommitTransition(p) \/ CommitCommand(p)
  BY DEF BeginCall, Return, Fail, Refuse, Work, ClaimId, AlreadyClaimed, PassArbiter,
         BackOut, ClaimRef, RefTaken, Replay, Scan, NoneFulfills, LockRow, Revalidate,
         Classify, LockHeader, Decide, ClaimKey, ResolveKey, WriteRow, RowMissing,
         CheckFails, LockTimeout

\* A step of the transactions is a step of the atomic service or a stutter.
LEMMA TxImplements == TxInv /\ [Next]_vars => [Abstract!Next]_(Abstract!vars)
  <1> SUFFICES ASSUME TxInv, [Next]_vars PROVE [Abstract!Next]_(Abstract!vars)
    OBVIOUS
  <1>1. CASE UNCHANGED vars
    BY <1>1 DEF vars, Abstract!vars
  <1>2. ASSUME NEW p \in Proc, BeginCall(p) \/ Work(p) \/ Fail(p) \/ Return(p)
        PROVE  [Abstract!Next]_(Abstract!vars)
    <2>1. UNCHANGED tables => UNCHANGED Abstract!vars
      BY DEF tables, Abstract!vars
    <2> QED
      BY <1>2, <2>1, OnlyCommits, CommitReserveShared, CommitTransitionShared,
         CommitCommandShared
  <1> QED
    BY <1>1, <1>2 DEF Next

\* Every table and every handler keeps its types.
THEOREM TxTypeCorrect == Spec => []TypeOK
  <1>1. TxInv => TypeOK
    BY TablesFacts DEF TxInv, TypeOK, HandlerTypes
  <1> QED
    BY TxInit, TxStep, <1>1, PTL DEF Spec

\* The READ COMMITTED transactions implement the atomic service.
THEOREM TransactionsAreAtomic == Spec => Refinement
  <1>1. Init => Abstract!Init
    BY DEF Init
  <1> QED
    BY <1>1, TxInit, TxStep, TxImplements, PTL DEF Spec, Refinement, Abstract!Spec

\* So the transactions keep what the atomic service promises: an open hold can
\* be settled, effects happen once, and the ledger replays to the balances.
THEOREM TransactionsKeepPromises ==
    Spec => [](Service!HoldsCanSettle /\ Service!OnceEffect /\ Service!LedgerReplays)
  <1>1. Spec => Service!Spec
    <2>1. Abstract!Init => Service!Init
      BY SameService
    <2>2. [Abstract!Next]_(Abstract!vars) => [Service!Next]_(Service!vars)
      BY SameService DEF Abstract!vars, Service!vars
    <2> QED
      BY TransactionsAreAtomic, <2>1, <2>2, PTL
      DEF Refinement, Abstract!Spec, Service!Spec
  <1>2. Service!Spec => []Service!HoldsCanSettle
    BY ServiceAssumption, Service!HoldsAlwaysSettle
  <1>3. Service!Spec => []Service!OnceEffect
    BY ServiceAssumption, Service!EffectsHappenOnce
  <1>4. Service!Spec => []Service!LedgerReplays
    BY ServiceAssumption, Service!LedgerAlwaysReplays
  <1> QED
    BY <1>1, <1>2, <1>3, <1>4, PTL

\* Nothing a statement has checked is stale at COMMIT.
THEOREM NothingStaleAtCommit == Spec => []ChecksHoldUntilCommit
  <1>1. ASSUME TxInv, NEW p \in Proc
        PROVE  LET c == call[p] IN
               /\ pc[p] \in {"claimRef", "scan", "lock", "classify", "write"} /\ c.op = "reserve" =>
                     IdLock(c.id) \in held[p] /\ header[c.id] = NoHeader
               /\ pc[p] \in {"scan", "lock", "classify", "write"} /\ c.op = "reserve" =>
                     RefLock(c.order) \in held[p] /\ ~OrderTaken(p)
               /\ pc[p] = "write" /\ c.op = "reserve" => StillCovered(p)
               /\ pc[p] = "write" /\ c.op \in Settle =>
                     IdLock(c.id) \in held[p] /\ header[c.id].status = "reserved"
               /\ pc[p] = "write" /\ c.op \in CommandOp =>
                     KeyLock(c.cmd) \in held[p] /\ ~KeyTaken(p)
    <2>1. LocksOK(p) /\ FoundOK(p)
      BY <1>1 DEF TxInv, HandlerOK
    <2>2. /\ call[p].op = "reserve" =>
                EntryLocks(p) = {IdLock(call[p].id), RefLock(call[p].order)}
          /\ call[p].op \in Settle => EntryLocks(p) = {IdLock(call[p].id)}
          /\ call[p].op \in CommandOp => EntryLocks(p) = {KeyLock(call[p].cmd)}
      BY DEF EntryLocks, Settle, CommandOp
    <2>3. pc[p] \in {"scan", "lock", "classify", "write"} => EntryLocks(p) \subseteq held[p]
      BY <2>1 DEF LocksOK
    <2>4. pc[p] = "claimRef" => IdLock(call[p].id) \in held[p]
      BY <2>1 DEF LocksOK
    <2> QED
      BY <2>1, <2>2, <2>3, <2>4 DEF FoundOK
  <1>2. ASSUME TxInv, NEW p \in Proc, pc[p] = "write", NEW x \in Done(p)
        PROVE  RowLock(x) \in held[p] /\ SchemaChecks(NewRow(p, x))
    <2> DEFINE c == call[p]
    <2>1. /\ c \in Calls /\ ShapeOK(p) /\ LocksOK(p) /\ FoundOK(p) /\ Tables
          /\ Rows(p) \subseteq Row
      BY <1>2, RowsType DEF TxInv, HandlerOK, ShapeOK
    <2>2. x \in LockedRows(p)
      BY <1>2 DEF Done, LockedRows, Rows, Settle
    <2>3. RowLock(x) \in held[p]
      BY <1>2, <2>1, <2>2 DEF LocksOK
    <2>4. CASE c.op = "reserve"
      <3>1. Rows(p) = Requested(c.payload) \X {chosen[p]}
        BY <2>4 DEF Rows, Settle
      <3>2. PICK s \in Requested(c.payload) : x = <<s, chosen[p]>>
        BY <2>2, <3>1 DEF LockedRows
      <3>3. c.payload \in Payload /\ chosen[p] \in Active /\ c.op \notin CommandOp
        BY <1>2, <2>1, <2>4, CallFields DEF ShapeOK, CommandOp
      <3>4. SchemaChecks(LineEffect("reserve", bal[x], Items[c.payload][s]))
        BY <1>2, <2>1, <2>4, <3>2, <3>3, CoveredLine DEF FoundOK, StillCovered
      <3> QED
        BY <2>3, <2>4, <3>2, <3>3, <3>4 DEF NewRow, Quantity
    <2>5. CASE c.op \in Settle
      <3>1. /\ c.id \in ReservationId /\ c.op \in {"release", "commit"} /\ c.op # "reserve"
            /\ c.op \notin CommandOp
        BY <2>1, <2>5, CallFields DEF Settle, CommandOp
      <3>2. x \in Row /\ lines[c.id][x] > 0
        BY <2>2, <2>5, <3>1 DEF LockedRows, Rows
      <3>3. header[c.id].status = "reserved"
        BY <1>2, <2>1, <2>5 DEF FoundOK
      <3>4. SchemaChecks(LineEffect(c.op, bal[x], lines[c.id][x]))
        BY <2>1, <3>1, <3>2, <3>3, TablesFacts
      <3> QED
        BY <2>3, <3>1, <3>4 DEF NewRow, Quantity
    <2>6. CASE c.op \in CommandOp
      BY <1>2, <2>1, <2>2, <2>3, <2>6 DEF FoundOK, NewRow
    <2> QED
      BY <2>1, <2>4, <2>5, <2>6, CallFields
  <1>3. TxInv => ChecksHoldUntilCommit
    BY <1>1, <1>2 DEF ChecksHoldUntilCommit, TxInv, Exclusive
  <1> QED
    BY TxInit, TxStep, <1>3, PTL DEF Spec

\* The CHECKs never stop a reservation, a release or a commit.
THEOREM BackstopNeverUsed == Spec => []BackstopUnused
  <1>1. ASSUME TxInv, NEW p \in Proc, pc[p] = "write", call[p].op \notin CommandOp,
               NEW x \in todo[p]
        PROVE  bal[x].live /\ SchemaChecks(NewRow(p, x))
    <2> DEFINE c == call[p]
    <2>1. /\ c \in Calls /\ ShapeOK(p) /\ FoundOK(p) /\ Tables
          /\ x \in Rows(p) /\ Rows(p) \subseteq Row
      BY <1>1, RowsType DEF TxInv, HandlerOK, ShapeOK, RowsOK
    <2>2. CASE c.op = "reserve"
      <3>1. Rows(p) = Requested(c.payload) \X {chosen[p]}
        BY <2>2 DEF Rows, Settle
      <3>2. PICK s \in Requested(c.payload) : x = <<s, chosen[p]>>
        BY <2>1, <3>1
      <3>3. c.payload \in Payload /\ chosen[p] \in Active
        BY <1>1, <2>1, <2>2, CallFields DEF ShapeOK
      <3>4. bal[x].live /\ SchemaChecks(LineEffect("reserve", bal[x], Items[c.payload][s]))
        BY <1>1, <2>1, <2>2, <3>2, <3>3, CoveredLine DEF FoundOK, StillCovered
      <3> QED
        BY <1>1, <2>2, <3>2, <3>4 DEF NewRow, Quantity
    <2>3. CASE c.op \in Settle
      <3>1. c.id \in ReservationId /\ c.op \in {"release", "commit"} /\ c.op # "reserve"
        BY <2>1, <2>3, CallFields DEF Settle
      <3>2. x \in Row /\ lines[c.id][x] > 0
        BY <2>1, <2>3, <3>1 DEF Rows
      <3>3. header[c.id].status = "reserved"
        BY <1>1, <2>1, <2>3 DEF FoundOK
      <3>4. bal[x].live /\ SchemaChecks(LineEffect(c.op, bal[x], lines[c.id][x]))
        BY <2>1, <3>1, <3>2, <3>3, TablesFacts
      <3> QED
        BY <1>1, <3>1, <3>4 DEF NewRow, Quantity
    <2> QED
      BY <1>1, <2>1, <2>2, <2>3, CallFields
  <1>2. TxInv => BackstopUnused
    BY <1>1 DEF BackstopUnused
  <1> QED
    BY TxInit, TxStep, <1>2, PTL DEF Spec

\* No answer is overtaken by what others did before the caller gets it.
THEOREM AnswersStayTrue == Spec => []AnswersAreTrue
  <1>1. ASSUME TxInv, NEW p \in Proc, pc[p] = "done"
        PROVE  TrueAnswer(call[p], answer[p]) /\ call[p] \in Calls
    BY <1>1 DEF TxInv, HandlerOK, ShapeOK, AnswerOK
  <1>2. TxInv => AnswersAreTrue
    BY <1>1 DEF AnswersAreTrue, TrueAnswer
  <1> QED
    BY TxInit, TxStep, <1>2, PTL DEF Spec

-----------------------------------------------------------------------------
(* Deadlock *)

\* A set of rows has a last one.
LEMMA LastRow ==
    ASSUME NEW T \in SUBSET Row, T # {}
    PROVE  \E y \in T : \A z \in T : ~Before(y, z)
  <1> DEFINE After(y) == {z \in T : Before(y, z)}
             Sizes == {Cardinality(After(y)) : y \in T}
  <1>1. IsFiniteSet(T)
    <2>1. IsFiniteSet(SKU) /\ IsFiniteSet(Warehouse)
      BY StockAssumption
    <2>2. IsFiniteSet(SKU \X Warehouse)
      BY <2>1, FS_Product
    <2> QED
      BY <2>2, FS_Subset DEF Row
  <1>2. \A y \in T : IsFiniteSet(After(y)) /\ Cardinality(After(y)) \in Nat
    <2> SUFFICES ASSUME NEW y \in T
                 PROVE  IsFiniteSet(After(y)) /\ Cardinality(After(y)) \in Nat
      OBVIOUS
    <2>1. After(y) \in SUBSET T
      OBVIOUS
    <2> QED
      BY <1>1, <2>1, FS_Subset, FS_CardinalityType
  <1>3. PICK n \in Sizes : \A m \in Sizes : n <= m
    <2>1. Sizes \in SUBSET Nat /\ Sizes # {}
      BY <1>2
    <2> QED
      BY <2>1, LeastNat
  <1>4. PICK y \in T : n = Cardinality(After(y))
    BY <1>3
  <1>5. ASSUME NEW z \in T, Before(y, z) PROVE FALSE
    <2>1. ASSUME NEW v \in T PROVE v[1] \in Nat /\ v[2] \in Nat
      <3>1. SKU \subseteq Nat /\ Warehouse \subseteq Nat
        BY StockAssumption
      <3>2. PICK s \in SKU, w \in Warehouse : v = <<s, w>>
        BY DEF Row
      <3> QED
        BY <3>1, <3>2
    <2>2. After(z) \subseteq After(y)
      BY <1>5, <2>1 DEF Before
    <2>3. z \in After(y) /\ z \notin After(z)
      BY <1>5, <2>1 DEF Before
    <2>4. Cardinality(After(z)) < Cardinality(After(y))
      <3>1. After(z) \in SUBSET After(y) /\ After(z) # After(y)
        BY <2>2, <2>3
      <3> HIDE DEF After
      <3> QED
        BY <1>2, <3>1, FS_Subset
    <2>5. Cardinality(After(z)) \in Nat /\ Cardinality(After(y)) \in Nat
      BY <1>2
    <2>6. Cardinality(After(z)) \in Sizes
      OBVIOUS
    <2> HIDE DEF After, Sizes
    <2> QED
      BY <1>3, <1>4, <2>4, <2>5, <2>6
  <1> QED
    BY <1>5

\* One global order on locks: a reservation's id or a command id, then the
\* order, then the rows by (warehouse_id, sku_id).
Lower(l, m) ==
    \/ /\ \E a : l = IdLock(a) \/ l = KeyLock(a)
       /\ \E b : m = RefLock(b) \/ m = RowLock(b)
    \/ (\E a : l = RefLock(a)) /\ (\E b : m = RowLock(b))
    \/ \E x, y : l = RowLock(x) /\ m = RowLock(y) /\ Before(x, y)

\* A handler waits only for locks above all those it holds.
LEMMA WaitsUpwards ==
    ASSUME TxInv, NEW p \in Proc, NEW m \in Wants(p), m \notin held[p], NEW l \in held[p]
    PROVE  Lower(l, m)
  <1>1. /\ ShapeOK(p) /\ RowsOK(p) /\ LocksOK(p) /\ HandlerTypes /\ pc[p] \in Label
    BY DEF TxInv, HandlerOK, HandlerTypes
  <1>2. pc[p] \in {"claimRef", "lock", "write"}
    <2>1. pc[p] \notin {"idle", "claim", "race", "replay", "header", "done"}
      BY <1>1 DEF ShapeOK
    <2>2. pc[p] \notin {"scan", "classify"}
      BY WantsAt
    <2> QED
      BY <1>1, <2>1, <2>2 DEF Label
  <1>3. CASE pc[p] = "claimRef"
    BY <1>1, <1>3, WantsAt DEF LocksOK, Lower
  <1>4. CASE pc[p] \in {"lock", "write"}
    <2> DEFINE n == NextRow(p)
    <2>1. todo[p] # {} /\ m = RowLock(n) /\ n \in todo[p]
      BY <1>1, <1>4, WantsAt, NextRowIsFirst
    <2>2. held[p] = EntryLocks(p) \cup {RowLock(x) : x \in LockedRows(p)}
      BY <1>1, <1>4 DEF LocksOK
    <2>3. CASE l \in EntryLocks(p)
      BY <2>1, <2>3 DEF EntryLocks, Lower
    <2>4. ASSUME NEW x \in LockedRows(p), l = RowLock(x) PROVE Lower(l, m)
      <3>1. n \in Rows(p) /\ \A y \in Rows(p) \ todo[p] : Before(y, n)
        BY <1>1, <1>4, <2>1 DEF RowsOK
      <3>2. n \notin LockedRows(p)
        BY <2>1, <2>2
      <3>3. x \in Rows(p) \ todo[p]
        BY <2>4, <3>1, <3>2 DEF LockedRows
      <3> QED
        BY <2>1, <2>4, <3>1, <3>3 DEF Lower
    <2> QED
      BY <2>2, <2>3, <2>4
  <1> QED
    BY <1>2, <1>3, <1>4

\* What a handler waits for has a kind.
LEMMA WaitKinds ==
    ASSUME TxInv, NEW p \in Proc, NEW m \in Wants(p)
    PROVE  \/ \E a : m = IdLock(a) \/ m = KeyLock(a)
           \/ \E a : m = RefLock(a)
           \/ \E x \in Row : m = RowLock(x)
  <1>1. Wants(p) \subseteq Lock
    BY WantsType DEF TxInv, HandlerOK
  <1> QED
    BY <1>1 DEF Lock

\* No set of handlers waits in a circle.
THEOREM NeverDeadlocked == Spec => []NoDeadlock
  <1>1. ASSUME TxInv, NEW S \in SUBSET Proc, S # {},
               \A p \in S : \E q \in S \ {p} : Wants(p) \cap held[q] # {}
        PROVE  FALSE
    <2>1. ASSUME NEW p \in S, NEW m \in Wants(p)
          PROVE  m \notin held[p] => \A l \in held[p] : Lower(l, m)
      BY <1>1, <2>1, WaitsUpwards
    <2>2. ASSUME NEW p \in S
          PROVE  \E q \in S : \E l \in Wants(p), m \in Wants(q) : Lower(l, m)
      <3>1. PICK q \in S \ {p} : Wants(p) \cap held[q] # {}
        BY <1>1
      <3>2. PICK r \in S \ {q} : Wants(q) \cap held[r] # {}
        BY <1>1
      <3>3. PICK l \in Wants(p) : l \in held[q]
        BY <3>1
      <3>4. PICK m \in Wants(q) : m \in held[r]
        BY <3>2
      <3>5. m \notin held[q]
        BY <1>1, <3>4 DEF TxInv, Exclusive
      <3> QED
        BY <2>1, <3>3, <3>4, <3>5
    <2>3. \A p \in S : \A m \in Wants(p) :
             \/ \E a : m = IdLock(a) \/ m = KeyLock(a)
             \/ \E a : m = RefLock(a)
             \/ \E x \in Row : m = RowLock(x)
      BY <1>1, WaitKinds
    <2> DEFINE T == {x \in Row : \E p \in S : RowLock(x) \in Wants(p)}
    <2>4. \A p \in S : \A m, n \in Wants(p) : m = n
      BY DEF Wants
    <2>5. CASE T # {}
      <3>1. PICK y \in T : \A z \in T : ~Before(y, z)
        BY <2>5, LastRow
      <3>2. PICK p \in S : RowLock(y) \in Wants(p)
        BY <3>1
      <3>3. PICK q \in S : \E m \in Wants(q) : Lower(RowLock(y), m)
        BY <2>2, <2>4, <3>2
      <3>4. PICK m \in Wants(q) : Lower(RowLock(y), m)
        BY <3>3
      <3>5. PICK z : m = RowLock(z) /\ Before(y, z)
        BY <3>4, LockNames DEF Lower
      <3>6. z \in T
        BY <2>3, <3>5, LockNames
      <3> QED
        BY <3>1, <3>5, <3>6
    <2>6. CASE T = {}
      <3>1. \A p \in S : \A m \in Wants(p) :
               (\E a : m = IdLock(a) \/ m = KeyLock(a)) \/ (\E a : m = RefLock(a))
        BY <2>3, <2>6
      <3>2. ASSUME NEW p \in S, NEW a, RefLock(a) \in Wants(p) PROVE FALSE
        <4>1. PICK q \in S : \E m \in Wants(q) : Lower(RefLock(a), m)
          BY <2>2, <2>4, <3>2
        <4>2. PICK m \in Wants(q) : Lower(RefLock(a), m)
          BY <4>1
        <4>3. PICK z : m = RowLock(z)
          BY <4>2, LockNames DEF Lower
        <4> QED
          BY <3>1, <4>3, LockNames
      <3>3. PICK p \in S : TRUE
        BY <1>1
      <3>4. PICK q \in S : \E l \in Wants(p), m \in Wants(q) : Lower(l, m)
        BY <2>2
      <3>5. PICK m \in Wants(q) : \E l : Lower(l, m)
        BY <3>4
      <3>6. PICK b : m = RefLock(b) \/ m = RowLock(b)
        BY <3>5 DEF Lower
      <3> QED
        BY <3>1, <3>2, <3>6, LockNames
    <2> QED
      BY <2>5, <2>6
  <1>2. ASSUME TxInv PROVE NoDeadlock
    <2> SUFFICES ASSUME NEW S \in (SUBSET Proc) \ {{}},
                        \A p \in S : \E q \in S \ {p} : Wants(p) \cap held[q] # {}
                 PROVE  FALSE
      BY Zenon DEF NoDeadlock
    <2>1. S \in SUBSET Proc /\ S # {}
      BY Zenon
    <2> QED
      BY <1>1, <1>2, <2>1
  <1> QED
    BY TxInit, TxStep, <1>2, PTL DEF Spec

-----------------------------------------------------------------------------
(* What was so during a call *)

\* Two statements may tell a caller what a COMMIT or a shortage has shown: a
\* replay is answered to stock commands, a shortage where it was classified.
\* Every other step of a handler has another answer or none.
Says(p, a) ==
    /\ Finish(p, a)
    /\ a = "replayed" => call[p].op \in CommandOp
    /\ a = "insufficient" => pc[p] = "classify"

\* The other handlers are where they were.
Bystanders(p) ==
    \A q \in Proc \ {p} : pc'[q] = pc[q] /\ call'[q] = call[q] /\ answer'[q] = answer[q]

LEMMA WhatIsSaid ==
    ASSUME TxInv, NEW p \in Proc, BeginCall(p) \/ Work(p) \/ Fail(p) \/ Return(p)
    PROVE  \/ \E a : Says(p, a)
           \/ /\ UNCHANGED answer \/ pc'[p] = "idle"
              /\ pc'[p] # "done" /\ Bystanders(p)
  <1> DEFINE Silent == /\ UNCHANGED answer \/ pc'[p] = "idle"
                       /\ pc'[p] # "done" /\ Bystanders(p)
  <1>0. HandlerTypes /\ pc \in [Proc -> Label] /\ call \in [Proc -> Calls \cup {None}]
    BY DEF TxInv, HandlerTypes
  <1>1. CASE BeginCall(p)
    BY <1>0, <1>1 DEF BeginCall, Bystanders
  <1>2. CASE Return(p)
    BY <1>0, <1>2 DEF Return, Bystanders, HandlerTypes
  <1>3. CASE Fail(p)
    BY <1>3 DEF Fail, Refuse, Says
  <1>4. CASE ClaimId(p) \/ AlreadyClaimed(p) \/ ClaimRef(p) \/ NoneFulfills(p) \/ LockRow(p)
             \/ LockHeader(p) \/ ClaimKey(p) \/ WriteRow(p)
    <2>1. /\ UNCHANGED <<call, answer>>
          /\ \E label \in Label \ {"done"} : pc' = [pc EXCEPT ![p] = label]
      BY <1>4 DEF ClaimId, AlreadyClaimed, ClaimRef, NoneFulfills, LockRow, LockHeader,
                  ClaimKey, WriteRow, Advance, Label
    <2> QED
      BY <1>0, <2>1 DEF Bystanders
  <1>5. CASE Scan(p)
    BY <1>0, <1>5 DEF Scan, Advance, Bystanders, HandlerTypes
  <1>6. CASE Revalidate(p)
    BY <1>0, <1>6 DEF Revalidate, Advance, Bystanders, HandlerTypes
  <1>7. CASE PassArbiter(p) \/ BackOut(p) \/ RefTaken(p)
    BY <1>0, <1>7 DEF PassArbiter, BackOut, RefTaken, Bystanders, HandlerTypes
  <1>8. CASE Replay(p)
    <2> DEFINE h == header[call[p].id]
               a == IF SameRequest(h, call[p]) THEN h.status ELSE "conflict"
    <2>1. call[p] \in Calls /\ call[p].op = "reserve"
      BY <1>8 DEF Replay, TxInv, HandlerOK, ShapeOK
    <2>2. h.status \in Status
      BY <2>1, CallFields, TablesFacts DEF TxInv, Header
    <2>3. a \notin {"replayed", "insufficient"}
      BY <2>2 DEF Status
    <2>4. Finish(p, a)
      BY <1>8 DEF Replay, Refuse
    <2> HIDE DEF a
    <2> QED
      BY <2>3, <2>4 DEF Says
  <1>9. CASE Classify(p)
    BY <1>9 DEF Classify, Refuse, Says
  <1>10. CASE Decide(p)
    <2> DEFINE s == header[call[p].id].status
               a == Decision(call[p].op, s)
    <2>1. call[p] \in Calls /\ call[p].op \in Settle
      BY <1>10 DEF Decide, TxInv, HandlerOK, ShapeOK
    <2>2. s \in Status
      BY <2>1, CallFields, TablesFacts DEF TxInv, Header
    <2>3. a \notin {"replayed", "insufficient"}
      BY <2>2 DEF Status, Decision, Abstract!Target
    <2>4. Finish(p, a)
      BY <1>10 DEF Decide, Refuse
    <2> HIDE DEF a
    <2> QED
      BY <2>3, <2>4 DEF Says
  <1>11. CASE ResolveKey(p)
    BY <1>11 DEF ResolveKey, Refuse, Says
  <1>12. CASE RowMissing(p) \/ CheckFails(p) \/ LockTimeout(p)
    BY <1>12 DEF RowMissing, CheckFails, LockTimeout, Refuse, Says
  <1>13. CASE CommitReserve(p)
    BY <1>13 DEF CommitReserve, Committed, Says
  <1>14. CASE CommitTransition(p)
    BY <1>14 DEF CommitTransition, Committed, Says, Abstract!Target
  <1>15. CASE CommitCommand(p)
    BY <1>15 DEF CommitCommand, Committed, Says
  <1> QED
    BY <1>1, <1>2, <1>3, <1>4, <1>5, <1>6, <1>7, <1>8, <1>9, <1>10, <1>11, <1>12, <1>13,
       <1>14, <1>15 DEF Work

\* Every ledger row of a command was written by one that took effect and that
\* writes the same row.
Booked ==
    \A c \in Calls : c.op \in CommandOp /\ CommandMove(c) \in ledger =>
        \E d \in took : d \in Calls /\ d.op \in CommandOp /\ CommandMove(d) = CommandMove(c)

\* A replay is told to stock commands only.
ReplaysAreCommands ==
    \A p \in Proc : pc[p] = "done" /\ answer[p] = "replayed" => call[p].op \in CommandOp

\* Whom a shortage is told or about to be told had one at some moment.
ShortOnce ==
    \A p \in Proc :
        pc[p] = "classify" \/ (pc[p] = "done" /\ answer[p] = "insufficient") =>
            call[p].op = "reserve" /\ could[p] = {}

LEMMA BookedStep ==
    ASSUME TxInv, Booked, HistNext PROVE Booked'
  <1>1. PICK p \in Proc : BeginCall(p) \/ Work(p) \/ Fail(p) \/ Return(p)
    BY DEF HistNext, Next
  <1>2. took' = took \cup Taking
    BY DEF HistNext
  <1> SUFFICES ASSUME NEW c \in Calls, c.op \in CommandOp, CommandMove(c) \in ledger'
               PROVE  \E d \in took' : d \in Calls /\ d.op \in CommandOp
                                       /\ CommandMove(d) = CommandMove(c)
    BY DEF Booked
  <1>3. CASE CommandMove(c) \in ledger
    BY <1>2, <1>3 DEF Booked
  <1>4. CASE CommandMove(c) \notin ledger
    <2>1. CommandMove(c).key = <<"command", c.cmd, None>>
      BY DEF CommandMove
    <2>2. bal \in [Row -> Balance]
      BY TablesFacts DEF TxInv
    <2>3. c.cmd \in CommandId
      BY CallFields
    <2>4. ~(CommitReserve(p) \/ CommitTransition(p))
      BY <1>4, <2>1, <2>2, <2>3, MoveStockTouches DEF CommitReserve, CommitTransition, Settle
    <2>5. CommitCommand(p)
      BY <1>1, <1>4, <2>4, OnlyCommits DEF tables
    <2>6. /\ pc[p] = "write" /\ pc'[p] = "done" /\ call[p].op \in CommandOp
          /\ ledger' = ledger \cup {CommandMove(call[p])} /\ call[p] \in Calls
      BY <2>5 DEF CommitCommand, Written, Committed, Finish, TxInv, HandlerTypes, HandlerOK,
                  ShapeOK
    <2>7. call[p] \in took' /\ CommandMove(call[p]) = CommandMove(c)
      BY <1>2, <1>4, <2>6 DEF Taking
    <2> QED
      BY <2>6, <2>7
  <1> QED
    BY <1>3, <1>4

LEMMA ReplaysStep ==
    ASSUME TxInv, ReplaysAreCommands, Next PROVE ReplaysAreCommands'
  <1>1. PICK p \in Proc : BeginCall(p) \/ Work(p) \/ Fail(p) \/ Return(p)
    BY DEF Next
  <1> SUFFICES ASSUME NEW q \in Proc, pc'[q] = "done", answer'[q] = "replayed"
               PROVE  call'[q].op \in CommandOp
    BY DEF ReplaysAreCommands
  <1>2. CASE \E a : Says(p, a)
    <2>1. PICK a : Says(p, a)
      BY <1>2
    <2>2. CASE q = p
      BY <2>1, <2>2 DEF Says, Finish, TxInv, HandlerTypes
    <2>3. CASE q # p
      BY <2>1, <2>3 DEF Says, Finish, TxInv, HandlerTypes, ReplaysAreCommands
    <2> QED
      BY <2>2, <2>3
  <1>3. CASE Bystanders(p) /\ pc'[p] # "done"
    BY <1>3 DEF Bystanders, ReplaysAreCommands
  <1> QED
    BY <1>1, <1>2, <1>3, WhatIsSaid

\* With one active warehouse a reserve that finds it short, by the scan or under
\* its locks, finds all of them short.
LEMMA FindsNone ==
    ASSUME TxInv, \A v, w \in Active : v = w, NEW p \in Proc,
           NoneFulfills(p) \/ (Revalidate(p) /\ pc'[p] = "classify")
    PROVE  Able(bal', call'[p].payload) = {} /\ call'[p] = call[p]
  <1>1. call' = call /\ bal' = bal
    BY DEF NoneFulfills, Revalidate, Advance, tables
  <1>2. CASE NoneFulfills(p)
    BY <1>1, <1>2 DEF NoneFulfills, Able
  <1>3. CASE Revalidate(p) /\ pc'[p] = "classify"
    <2>1. pc[p] = "lock" /\ call[p].op = "reserve" /\ chosen[p] \in Active
      BY <1>3 DEF Revalidate, TxInv, HandlerOK, ShapeOK
    <2>2. ~StillCovered(p)
      BY <1>3 DEF Revalidate, Advance, TxInv, HandlerTypes
    <2> QED
      BY <1>1, <2>1, <2>2 DEF StillCovered, Able
  <1> QED
    BY <1>2, <1>3

LEMMA ShortStep ==
    ASSUME TxInv, TxInv', \A v, w \in Active : v = w, ShortOnce, HistNext
    PROVE  ShortOnce'
  <1>1. PICK p \in Proc : BeginCall(p) \/ Work(p) \/ Fail(p) \/ Return(p)
    BY DEF HistNext, Next
  <1>2. could' = [q \in Proc |->
          IF pc'[q] = "idle" THEN {}
          ELSE IF call'[q].op # "reserve" \/ pc[q] = "done" THEN could[q]
          ELSE IF pc[q] = "idle" THEN Able(bal', call'[q].payload)
          ELSE could[q] \cap Able(bal', call'[q].payload)]
    BY DEF HistNext
  <1>3. ASSUME NEW q \in Proc, call'[q] = call[q], could[q] = {}, pc[q] # "idle"
        PROVE  could'[q] = {}
    BY <1>2, <1>3
  <1>4. ASSUME NEW q \in Proc, pc'[q] = pc[q], call'[q] = call[q], answer'[q] = answer[q],
               pc'[q] = "classify" \/ (pc'[q] = "done" /\ answer'[q] = "insufficient")
        PROVE  call'[q].op = "reserve" /\ could'[q] = {}
    BY <1>3, <1>4 DEF ShortOnce
  <1>5. ASSUME NEW q \in Proc \ {p}
        PROVE  pc'[q] = pc[q] /\ call'[q] = call[q] /\ answer'[q] = answer[q]
    BY <1>1, WhatIsSaid DEF Says, Finish, Bystanders, TxInv, HandlerTypes
  <1>6. ASSUME pc'[p] = "classify" PROVE call'[p].op = "reserve" /\ could'[p] = {}
    <2>1. call'[p].op = "reserve"
      BY <1>6 DEF TxInv, HandlerOK, ShapeOK
    <2>2. NoneFulfills(p) \/ Revalidate(p)
      BY <1>1, <1>6
      DEF BeginCall, Return, Fail, Refuse, Finish, Work, ClaimId, AlreadyClaimed, PassArbiter,
          BackOut, ClaimRef, RefTaken, Replay, Scan, LockRow, Classify, LockHeader, Decide,
          ClaimKey, ResolveKey, WriteRow, RowMissing, CheckFails, LockTimeout, CommitReserve,
          CommitTransition, CommitCommand, Committed, Advance, TxInv, HandlerTypes
    <2>3. Able(bal', call'[p].payload) = {} /\ pc[p] \in {"scan", "lock"}
      BY <1>6, <2>2, FindsNone DEF NoneFulfills, Revalidate
    <2> QED
      BY <1>2, <1>6, <2>1, <2>3
  <1>7. ASSUME pc'[p] = "done", answer'[p] = "insufficient"
        PROVE  call'[p].op = "reserve" /\ could'[p] = {}
    <2>1. PICK a : Says(p, a)
      BY <1>1, <1>7, WhatIsSaid
    <2>2. a = "insufficient" /\ pc[p] = "classify" /\ call'[p] = call[p]
      BY <1>7, <2>1 DEF Says, Finish, TxInv, HandlerTypes
    <2> QED
      BY <1>3, <2>2 DEF ShortOnce
  <1> QED
    BY <1>4, <1>5, <1>6, <1>7 DEF ShortOnce

LEMMA HistoryOfTx == HistSpec => []TxInv
  <1>1. HistInit => Init
    BY DEF HistInit
  <1>2. [HistNext]_histVars => [Next]_vars
    BY DEF HistNext, histVars
  <1> QED
    BY <1>1, <1>2, TxInit, TxStep, PTL DEF HistSpec

\* A replay is reported for the row that an equal command wrote.
LEMMA ReplaysAreBooked == HistSpec => [](TxInv /\ Booked /\ ReplaysAreCommands)
  <1>1. HistInit => Booked /\ ReplaysAreCommands
    BY DEF HistInit, Init, Abstract!Init, Booked, ReplaysAreCommands
  <1>2. TxInv /\ Booked /\ ReplaysAreCommands /\ [HistNext]_histVars =>
          Booked' /\ ReplaysAreCommands'
    <2>1. CASE HistNext
      BY <2>1, BookedStep, ReplaysStep DEF HistNext
    <2>2. CASE UNCHANGED histVars
      BY <2>2 DEF histVars, vars, tables, Booked, ReplaysAreCommands
    <2> QED
      BY <2>1, <2>2
  <1> QED
    BY <1>1, <1>2, HistoryOfTx, PTL DEF HistSpec

\* The row of a receipt or an adjustment holds all there is to the command; that
\* of a SetSafetyStock lacks the quantity.
LEMMA MoveTells ==
    ASSUME NEW c \in Calls, NEW d \in Calls, c.op \in CommandOp, d.op \in CommandOp,
           c.op # "safety", CommandMove(d) = CommandMove(c)
    PROVE  d = c
  <1>1. c \in CommandCall /\ d \in CommandCall
    BY StockAssumption DEF Call, ReserveCall, TransitionCall, CommandCall, CommandOp
  <1>2. /\ CommandMove(c).key = CommandMove(d).key /\ CommandMove(c).row = CommandMove(d).row
        /\ CommandMove(c).type = CommandMove(d).type /\ CommandMove(c).by = CommandMove(d).by
        /\ CommandMove(c).onHand = CommandMove(d).onHand
    OBVIOUS
  <1>3. c.op = d.op /\ c.by = d.by /\ c.cmd = d.cmd /\ c.sku = d.sku /\ c.wh = d.wh
    BY <1>2 DEF CommandMove
  <1>4. c.qty = d.qty
    BY <1>2, <1>3 DEF CommandMove
  <1> QED
    BY <1>1, <1>3, <1>4 DEF CommandCall

\* ReceiveStock and AdjustOnHand report an idempotent replay only to a command
\* that took effect.  SetSafetyStock does not keep this, but no handler calls it.
THEOREM ReplaysTookEffect ==
    ASSUME \A c \in Calls : c.op # "safety"
    PROVE  HistSpec => []ReplayIsTheSameCommand
  <1>1. TxInv /\ Booked /\ ReplaysAreCommands => ReplayIsTheSameCommand
    <2> SUFFICES ASSUME TxInv, Booked, ReplaysAreCommands, NEW p \in Proc, pc[p] = "done",
                        answer[p] = "replayed"
                 PROVE  call[p] \in took
      BY DEF ReplayIsTheSameCommand
    <2>1. call[p] \in Calls /\ call[p].op \in CommandOp
      BY DEF TxInv, HandlerOK, ShapeOK, ReplaysAreCommands
    <2>2. CommandMove(call[p]) \in ledger
      BY <2>1 DEF TxInv, HandlerOK, AnswerOK, TrueAnswer
    <2>3. PICK d \in took : d \in Calls /\ d.op \in CommandOp
                            /\ CommandMove(d) = CommandMove(call[p])
      BY <2>1, <2>2 DEF Booked
    <2> QED
      BY <2>1, <2>3, MoveTells
  <1> QED
    BY <1>1, ReplaysAreBooked, PTL

\* With one active warehouse, which is what the migrations install, "insufficient
\* stock" is only said to a basket that could not be served at some moment of
\* the call.
THEOREM ShortagesWereReal ==
    ASSUME \A v, w \in Active : v = w
    PROVE  HistSpec => []InsufficientIsReal
  <1>1. HistInit => ShortOnce
    BY DEF HistInit, Init, ShortOnce
  <1>2. TxInv /\ TxInv' /\ ShortOnce /\ [HistNext]_histVars => ShortOnce'
    <2>1. CASE UNCHANGED histVars
      BY <2>1 DEF histVars, vars, ShortOnce
    <2> QED
      BY <2>1, ShortStep
  <1>3. ShortOnce => InsufficientIsReal
    BY DEF ShortOnce, InsufficientIsReal
  <1> QED
    BY <1>1, <1>2, <1>3, HistoryOfTx, PTL DEF HistSpec
=============================================================================
