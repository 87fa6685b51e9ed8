---------------------------- MODULE InventoryTx ----------------------------
(***************************************************************************)
(* The write paths of internal/core/repository as the READ COMMITTED       *)
(* transactions they are: each process runs one gRPC or HTTP request at a  *)
(* time, one step per SQL statement (per row where a statement takes row   *)
(* locks one after the other), against the committed tables of Inventory.  *)
(*                                                                         *)
(* A row written by an open transaction is locked by it until the end, is  *)
(* written once, and an unlocked read never sees the write.  So the        *)
(* uncommitted versions are a function of the committed row and the call,  *)
(* and the tables change at COMMIT; a rollback changes nothing.  The CHECK *)
(* a statement meets is evaluated when the statement runs.                 *)
(***************************************************************************)
EXTENDS Stock

CONSTANTS
    Proc,      \* request handlers (one pooled connection each)
    Stalled    \* those whose transaction may stop for ever, holding its locks

VARIABLES
    bal, header, lines, ledger,   \* the committed tables, as in Inventory
    pc,       \* the statement the handler runs next
    call,     \* the request being served
    held,     \* locks held by the handler's open transaction
    todo,     \* balance rows the current loop or FOR UPDATE scan has left
    chosen,   \* warehouse picked by allocateReservation
    answer    \* what the caller is told

tables == <<bal, header, lines, ledger>>
vars == <<bal, header, lines, ledger, pc, call, held, todo, chosen, answer>>

Abstract == INSTANCE Inventory WITH
                bal <- bal, header <- header, lines <- lines, ledger <- ledger

ASSUME ProcAssumption == Stalled \subseteq Proc /\ IsFiniteSet(Proc)

-----------------------------------------------------------------------------
(* Locks.  An index entry of an uncommitted INSERT blocks other inserts of *)
(* the key; FOR UPDATE and UPDATE block each other on a row.               *)

IdLock(r) == <<"id", r>>          \* reservation primary key and header row
RefLock(o) == <<"order", o>>      \* external_reference unique index
KeyLock(c) == <<"command", c>>    \* command_id unique index
RowLock(x) == <<"row", x>>        \* balance row (or its primary key)

Lock == {IdLock(r) : r \in ReservationId} \cup {RefLock(o) : o \in OrderId}
        \cup {KeyLock(c) : c \in CommandId} \cup {RowLock(x) : x \in Row}

Free(p, l) == \A q \in Proc \ {p} : l \notin held[q]

\* ORDER BY warehouse_id, sku_id.
First(S) ==
    CHOOSE x \in S : \A y \in S : x[2] < y[2] \/ (x[2] = y[2] /\ x[1] <= y[1])

\* Mutant of NextRow: the UPDATEs of a loop run in the opposite order.
NextRowUnordered(p) ==
    IF pc[p] = "lock" THEN First(todo[p])
    ELSE CHOOSE x \in todo[p] : \A y \in todo[p] :
            y[2] < x[2] \/ (x[2] = y[2] /\ y[1] <= x[1])

\* The balance row the FOR UPDATE scan or the loop over lines takes next.
NextRow(p) == First(todo[p])

\* An UPDATE passes over a row no committed snapshot has; a receive upserts.
Writable(p) == call[p].op = "receive" \/ bal[NextRow(p)].live

\* The lock the next statement asks for, if any.  An INSERT on a committed id
\* and a FOR UPDATE on an absent header do not wait.
Wants(p) ==
    CASE pc[p] = "claim" /\ call[p].op \in CommandOp -> {KeyLock(call[p].cmd)}
      [] pc[p] = "claim" /\ call[p].op = "reserve" /\ header[call[p].id] = NoHeader ->
            {IdLock(call[p].id)}
      [] pc[p] \in {"race", "claimRef"} -> {RefLock(call[p].order)}
      [] pc[p] = "header" /\ header[call[p].id] # NoHeader -> {IdLock(call[p].id)}
      [] pc[p] = "lock" /\ todo[p] # {} -> {RowLock(NextRow(p))}
      [] pc[p] = "write" /\ todo[p] # {} /\ Writable(p) -> {RowLock(NextRow(p))}
      [] OTHER -> {}

Blocked(p) == \E l \in Wants(p) : ~Free(p, l)

-----------------------------------------------------------------------------
(* Steps every transaction shares *)

\* One statement done: take its locks, keep the rows rs for the next ones.
Advance(p, label, rs) ==
    /\ ~Blocked(p)
    /\ pc' = [pc EXCEPT ![p] = label]
    /\ held' = [held EXCEPT ![p] = @ \cup Wants(p)]
    /\ todo' = [todo EXCEPT ![p] = rs]
    /\ UNCHANGED <<call, answer>>

\* The transaction ends, by COMMIT or by the deferred Rollback, and the caller
\* is answered.
Finish(p, a) ==
    /\ pc' = [pc EXCEPT ![p] = "done"]
    /\ answer' = [answer EXCEPT ![p] = a]
    /\ held' = [held EXCEPT ![p] = {}]
    /\ todo' = [todo EXCEPT ![p] = {}]
    /\ chosen' = [chosen EXCEPT ![p] = None]
    /\ UNCHANGED call

Refuse(p, a) == Finish(p, a) /\ UNCHANGED tables

BeginCall(p) ==
    /\ pc[p] = "idle"
    /\ \E c \in Calls :
          /\ call' = [call EXCEPT ![p] = c]
          /\ pc' = [pc EXCEPT ![p] = IF c \in TransitionCall THEN "header" ELSE "claim"]
    /\ UNCHANGED <<held, todo, chosen, answer, tables>>

Return(p) ==
    /\ pc[p] = "done"
    /\ pc' = [pc EXCEPT ![p] = "idle"]
    /\ call' = [call EXCEPT ![p] = None]
    /\ answer' = [answer EXCEPT ![p] = None]
    /\ UNCHANGED <<held, todo, chosen, tables>>

-----------------------------------------------------------------------------
(* Reserve *)

OrderTaken(p) == \E r \in ReservationId : header[r].order = call[p].order

\* INSERT .. ON CONFLICT (id) DO NOTHING, up to the primary key entry.
ClaimId(p) ==
    /\ pc[p] = "claim" /\ call[p].op = "reserve"
    /\ header[call[p].id] = NoHeader
    /\ Advance(p, "claimRef", {})
    /\ UNCHANGED <<chosen, tables>>

\* The id is committed: replay inside the transaction.
AlreadyClaimed(p) ==
    /\ pc[p] = "claim" /\ call[p].op = "reserve"
    /\ header[call[p].id] # NoHeader
    /\ Advance(p, "replay", {})
    /\ UNCHANGED <<chosen, tables>>

\* Two inserts of one id pass the arbiter check together: the loser goes on to
\* the external_reference index and meets the order there first.
PassArbiter(p) ==
    /\ pc[p] = "claim" /\ call[p].op = "reserve" /\ Blocked(p)
    /\ OrderTaken(p) \/ ~Free(p, RefLock(call[p].order))
    /\ pc' = [pc EXCEPT ![p] = "race"]
    /\ UNCHANGED <<call, held, todo, chosen, answer, tables>>

\* The order turned out free: the speculative insert backs out and starts again.
BackOut(p) ==
    /\ pc[p] = "race" /\ ~Blocked(p) /\ ~OrderTaken(p)
    /\ pc' = [pc EXCEPT ![p] = "claim"]
    /\ UNCHANGED <<call, held, todo, chosen, answer, tables>>

\* The second half of the same INSERT: the external_reference entry.
ClaimRef(p) ==
    /\ pc[p] = "claimRef" /\ ~OrderTaken(p)
    /\ Advance(p, "scan", {})
    /\ UNCHANGED <<chosen, tables>>

\* 23505 on external_reference: roll back, then replay outside the transaction.
RefTaken(p) ==
    /\ pc[p] \in {"claimRef", "race"} /\ OrderTaken(p)
    /\ pc' = [pc EXCEPT ![p] = "replay"]
    /\ held' = [held EXCEPT ![p] = {}]
    /\ UNCHANGED <<call, todo, chosen, answer, tables>>

\* Mutant of SameRequest: the order is not compared, only the hash.
SameHash(h, c) == h.payload = c.payload

SameRequest(h, c) == h.payload = c.payload /\ h.order = c.order

\* A missing row (ErrNoRows) means another reservation id has the order.
Replay(p) ==
    /\ pc[p] = "replay"
    /\ LET h == header[call[p].id]
       IN  Refuse(p, IF SameRequest(h, call[p]) THEN h.status ELSE "conflict")

\* The unlocked hint: lowest active warehouse that covers every line.
Scan(p) ==
    /\ pc[p] = "scan"
    /\ \E w \in Active :
          /\ FulfillsLines(bal, w, call[p].payload)
          /\ \A v \in Active : FulfillsLines(bal, v, call[p].payload) => w <= v
          /\ chosen' = [chosen EXCEPT ![p] = w]
          /\ Advance(p, "lock", Requested(call[p].payload) \X {w})
    /\ UNCHANGED tables

NoneFulfills(p) ==
    /\ pc[p] = "scan"
    /\ \A w \in Active : ~FulfillsLines(bal, w, call[p].payload)
    /\ Advance(p, "classify", {})
    /\ UNCHANGED <<chosen, tables>>

\* SELECT .. ORDER BY warehouse_id, sku_id FOR UPDATE, one row at a time.
LockRow(p) ==
    /\ pc[p] = "lock" /\ todo[p] # {}
    /\ Advance(p, "lock", todo[p] \ {NextRow(p)})
    /\ UNCHANGED <<chosen, tables>>

\* Mutants of StillCovered: the hint is trusted; off by one.
HintTrusted(p) == TRUE
StillCoveredStrict(p) ==
    \A s \in Requested(call[p].payload) :
        ATP(bal[<<s, chosen[p]>>]) > Items[call[p].payload][s]

StillCovered(p) == FulfillsLines(bal, chosen[p], call[p].payload)

\* ATP as read under the locks is the correctness gate.
Revalidate(p) ==
    /\ pc[p] = "lock" /\ todo[p] = {}
    /\ \/ StillCovered(p) /\ Advance(p, "write", Requested(call[p].payload) \X {chosen[p]})
       \/ ~StillCovered(p) /\ Advance(p, "classify", {})
    /\ UNCHANGED <<chosen, tables>>

\* classifyReservationFailure: a SKU without any row wins over a shortage.
Classify(p) ==
    /\ pc[p] = "classify"
    /\ Refuse(p, IF Requested(call[p].payload) \subseteq Tracked(bal)
                 THEN "insufficient" ELSE "unknown_sku")

-----------------------------------------------------------------------------
(* Release and Commit, up to their loop over the lines *)

Settle == {"release", "commit"}

\* Mutant of LockHeader: SELECT status without FOR UPDATE.
ReadHeader(p) ==
    /\ pc[p] = "header"
    /\ header[call[p].id].status = "reserved"
    /\ pc' = [pc EXCEPT ![p] = "write"]
    /\ todo' = [todo EXCEPT ![p] = {x \in Row : lines[call[p].id][x] > 0}]
    /\ UNCHANGED <<call, held, chosen, answer, tables>>

\* SELECT status .. FOR UPDATE finds reserved, then the lines are loaded (they
\* are immutable, so one step).
LockHeader(p) ==
    /\ pc[p] = "header"
    /\ header[call[p].id].status = "reserved"
    /\ Advance(p, "write", {x \in Row : lines[call[p].id][x] > 0})
    /\ UNCHANGED <<chosen, tables>>

\* decide short-circuits on any other status; "absent" is Release's no-op
\* success on a missing row.
Decision(op, status) ==
    CASE status = "none" /\ op = "release" -> "absent"
      [] status = "none" /\ op = "commit" -> "not_found"
      [] status = Abstract!Target(op) -> status
      [] OTHER -> "invalid_transition"

Decide(p) ==
    /\ pc[p] = "header" /\ ~Blocked(p)
    /\ LET status == header[call[p].id].status
       IN  status # "reserved" /\ Refuse(p, Decision(call[p].op, status))

-----------------------------------------------------------------------------
(* Stock commands, up to their balance statement *)

KeyTaken(p) == \E m \in ledger : m.key = CommandMove(call[p]).key

\* INSERT INTO inventory_movements .. ON CONFLICT (command_id) DO NOTHING.
ClaimKey(p) ==
    /\ pc[p] = "claim" /\ call[p].op \in CommandOp /\ ~KeyTaken(p)
    /\ Advance(p, "write", {<<call[p].sku, call[p].wh>>})
    /\ UNCHANGED <<chosen, tables>>

\* Mutant of SameMovement: any movement under the key counts as this command.
AnyMovement(m, c) == TRUE

\* claimCommand compares the stored row with the row it would have written.
SameMovement(m, c) == m = CommandMove(c)

ResolveKey(p) ==
    /\ pc[p] = "claim" /\ call[p].op \in CommandOp
    /\ \E m \in ledger :
          /\ m.key = CommandMove(call[p]).key
          /\ Refuse(p, IF SameMovement(m, call[p]) THEN "replayed" ELSE "conflict")

-----------------------------------------------------------------------------
(* The balance UPDATEs of all six operations *)

Quantity(p, x) ==
    IF call[p].op = "reserve" THEN Items[call[p].payload][x[1]]
    ELSE lines[call[p].id][x]

NewRow(p, x) ==
    IF call[p].op \in CommandOp THEN CommandEffect(call[p], bal[x])
    ELSE LineEffect(call[p].op, bal[x], Quantity(p, x))

WriteRow(p) ==
    /\ pc[p] = "write" /\ todo[p] # {} /\ Writable(p)
    /\ SchemaChecks(NewRow(p, NextRow(p)))
    /\ Advance(p, "write", todo[p] \ {NextRow(p)})
    /\ UNCHANGED <<chosen, tables>>

\* RowsAffected is 0: ErrBalanceNotFound, or a transition failing closed.
RowMissing(p) ==
    /\ pc[p] = "write" /\ todo[p] # {} /\ ~Writable(p)
    /\ Refuse(p, IF call[p].op \in CommandOp THEN "balance_not_found" ELSE "unavailable")

\* 23514 from AdjustOnHand is ErrInsufficientOnHand; an out-of-range BIGINT
\* (22003) and any other violation are plain errors.
CheckFails(p) ==
    /\ pc[p] = "write" /\ todo[p] # {} /\ Writable(p) /\ ~Blocked(p)
    /\ LET b == NewRow(p, NextRow(p))
       IN  /\ ~SchemaChecks(b)
           /\ Refuse(p, IF call[p].op = "adjust" /\ b.onHand <= MaxBigint
                        THEN "insufficient_on_hand" ELSE "unavailable")

Written(p) == pc[p] = "write" /\ todo[p] = {}

\* The caller may lose the answer of a COMMIT that took effect.
Committed(p, a) == Finish(p, a) \/ Finish(p, "unavailable")

CommitReserve(p) ==
    /\ Written(p) /\ call[p].op = "reserve"
    /\ LET c == call[p]
           ls == Abstract!Alloc(c.payload, chosen[p])
       IN  /\ Abstract!MoveStock("reserve", c.id, ls)
           /\ lines' = [lines EXCEPT ![c.id] = ls]
           /\ header' = [header EXCEPT ![c.id] = [status |-> "reserved",
                                                  order |-> c.order,
                                                  payload |-> c.payload]]
    /\ Committed(p, "reserved")

CommitTransition(p) ==
    /\ Written(p) /\ call[p].op \in Settle
    /\ LET c == call[p]
       IN  /\ Abstract!MoveStock(c.op, c.id, lines[c.id])
           /\ header' = [header EXCEPT ![c.id].status = Abstract!Target(c.op)]
           /\ Committed(p, Abstract!Target(c.op))
    /\ UNCHANGED lines

CommitCommand(p) ==
    /\ Written(p) /\ call[p].op \in CommandOp
    /\ LET c == call[p]
       IN  /\ bal' = [bal EXCEPT ![<<c.sku, c.wh>>] = CommandEffect(c, @)]
           /\ ledger' = ledger \cup {CommandMove(c)}
    /\ Committed(p, "applied")
    /\ UNCHANGED <<header, lines>>

-----------------------------------------------------------------------------
(* Failures *)

\* Mutant of LockTimeout: the pool is opened without lock_timeout.
LockWaitUnbounded(p) == Blocked(p) /\ FALSE

\* 55P03 after lock_timeout; the stock commands do not translate it.
LockTimeout(p) ==
    /\ Blocked(p)
    /\ Refuse(p, IF call[p].op \in CommandOp THEN "unavailable" ELSE "concurrency")

\* Any statement can fail: connection lost, request cancelled, server or
\* database restarted, statement_timeout.  The transaction is rolled back.
Fail(p) == pc[p] \notin {"idle", "done"} /\ Refuse(p, "unavailable")

-----------------------------------------------------------------------------
Init ==
    /\ Abstract!Init
    /\ pc = [p \in Proc |-> "idle"]
    /\ call = [p \in Proc |-> None]
    /\ held = [p \in Proc |-> {}]
    /\ todo = [p \in Proc |-> {}]
    /\ chosen = [p \in Proc |-> None]
    /\ answer = [p \in Proc |-> None]

\* The next statement of a request already begun.
Work(p) ==
    \/ ClaimId(p) \/ AlreadyClaimed(p) \/ PassArbiter(p) \/ BackOut(p)
    \/ ClaimRef(p) \/ RefTaken(p) \/ Replay(p)
    \/ Scan(p) \/ NoneFulfills(p) \/ LockRow(p) \/ Revalidate(p) \/ Classify(p)
    \/ LockHeader(p) \/ Decide(p)
    \/ ClaimKey(p) \/ ResolveKey(p)
    \/ WriteRow(p) \/ RowMissing(p) \/ CheckFails(p)
    \/ CommitReserve(p) \/ CommitTransition(p) \/ CommitCommand(p)
    \/ LockTimeout(p)

Next == \E p \in Proc : BeginCall(p) \/ Work(p) \/ Fail(p) \/ Return(p)

Spec == Init /\ [][Next]_vars

\* A handler whose connection lives keeps running statements, a lock wait ends
\* in lock_timeout, and one INSERT cannot outlive statement_timeout however
\* often it starts over.  Nothing is assumed of the stalled ones.
Fairness ==
    \A p \in Proc \ Stalled :
        /\ WF_vars(Work(p))
        /\ WF_vars(pc[p] \in {"claim", "race", "claimRef"} /\ Fail(p))

FairSpec == Spec /\ Fairness

-----------------------------------------------------------------------------
(* Properties *)

Label == {"idle", "claim", "race", "claimRef", "replay", "scan", "lock",
          "classify", "header", "write", "done"}

Answer == Status \cup
          {"conflict", "insufficient", "unknown_sku", "absent", "not_found",
           "invalid_transition", "applied", "replayed", "balance_not_found",
           "insufficient_on_hand", "concurrency", "unavailable"}

\* Column types of the tables, and what a handler can hold.
TypeOK ==
    /\ Abstract!TypeOK
    /\ pc \in [Proc -> Label]
    /\ call \in [Proc -> Calls \cup {None}]
    /\ held \in [Proc -> SUBSET Lock]
    /\ todo \in [Proc -> SUBSET Row]
    /\ chosen \in [Proc -> Active \cup {None}]
    /\ answer \in [Proc -> Answer \cup {None}]

\* The transactions of reservations.go and stock_commands.go implement the
\* atomic service: no interleaving of their statements shows in the tables.
Refinement == Abstract!Spec

\* Lock order: header or command id, then rows by (warehouse_id, sku_id).  No
\* set of handlers waits in a circle, so 40P01 never happens ("concurrent
\* reservations acquire locks in one global order").
NoDeadlock ==
    \A S \in (SUBSET Proc) \ {{}} :
        \E p \in S : \A q \in S \ {p} : Wants(p) \cap held[q] = {}

\* The rows the transaction of p has locked and written or validated.
Done(p) ==
    CASE call[p].op = "reserve" -> Requested(call[p].payload) \X {chosen[p]}
      [] call[p].op \in Settle -> {x \in Row : lines[call[p].id][x] > 0} \ todo[p]
      [] OTHER -> {<<call[p].sku, call[p].wh>>} \ todo[p]

\* What a statement has checked stays true until the transaction ends: the
\* claim on the id, the order or the command id, the status read FOR UPDATE,
\* and, on locked rows, the validated ATP and the CHECKs of the UPDATE.
ChecksHoldUntilCommit ==
    /\ \A p, q \in Proc : p # q => held[p] \cap held[q] = {}
    /\ \A p \in Proc :
        LET c == call[p] IN
        /\ pc[p] \in {"claimRef", "scan", "lock", "classify", "write"} /\ c.op = "reserve" =>
              IdLock(c.id) \in held[p] /\ header[c.id] = NoHeader
        /\ pc[p] \in {"scan", "lock", "classify", "write"} /\ c.op = "reserve" =>
              RefLock(c.order) \in held[p] /\ ~OrderTaken(p)
        /\ pc[p] = "write" /\ c.op = "reserve" => StillCovered(p)
        /\ pc[p] = "write" /\ c.op \in Settle =>
              IdLock(c.id) \in held[p] /\ header[c.id].status = "reserved"
        /\ pc[p] = "write" /\ c.op \in CommandOp =>
              KeyLock(c.cmd) \in held[p] /\ ~KeyTaken(p)
        /\ pc[p] = "write" =>
              \A x \in Done(p) : /\ RowLock(x) \in held[p]
                                 /\ SchemaChecks(NewRow(p, x))

\* "The CHECKs are the oversell backstop": no line of a reservation ever
\* meets one, nor a missing row, whatever runs beside it.
BackstopUnused ==
    \A p \in Proc : pc[p] = "write" /\ call[p].op \notin CommandOp =>
        \A x \in todo[p] : bal[x].live /\ SchemaChecks(NewRow(p, x))

\* An answer is still true when the caller gets it, whoever ran meanwhile: a
\* success is about this very request and a conflict about another one.
AnswersAreTrue ==
    \A p \in Proc : pc[p] = "done" =>
        LET c == call[p]
            h == header[c.id]
        IN  CASE c.op = "reserve" /\ answer[p] \in Status ->
                    /\ h.status # "none" /\ h.payload = c.payload /\ h.order = c.order
                    /\ answer[p] # "reserved" => h.status = answer[p]
              [] c.op = "reserve" /\ answer[p] = "conflict" ->
                    \/ h.status # "none" /\ ~(h.payload = c.payload /\ h.order = c.order)
                    \/ \E r \in ReservationId \ {c.id} : header[r].order = c.order
              [] c.op \in Settle /\ answer[p] \in Status -> h.status = answer[p]
              [] c.op \in Settle /\ answer[p] = "invalid_transition" ->
                    h.status \in {"committed", "released"} \ {Abstract!Target(c.op)}
              [] c.op \in CommandOp /\ answer[p] \in {"applied", "replayed"} ->
                    CommandMove(c) \in ledger
              [] c.op \in CommandOp /\ answer[p] = "conflict" ->
                    \E m \in ledger : m.key = CommandMove(c).key /\ m # CommandMove(c)
              [] OTHER -> TRUE

\* Fail fast "instead of piling connections up behind a stuck lock": a request
\* is answered even when others stop inside their transactions for ever.
CallsAreAnswered == \A p \in Proc \ Stalled : pc[p] # "idle" ~> pc[p] = "done"
=============================================================================
