--------------------------- MODULE AdminCommands ---------------------------
(***************************************************************************)
(* POST /receipts and POST /adjustments as an operator's screen sees them: *)
(* the handlers of internal/web/v1 and runCommand, answered with an HTTP   *)
(* status, over requests that are lost, repeated after a timeout and       *)
(* executed twice, beside other operators and the order workflows.  The    *)
(* screen is outside the repository: it repeats a request it has no answer *)
(* for, under the same command_id, and believes every other answer.        *)
(***************************************************************************)
EXTENDS Inventory

CONSTANTS
    Posts,    \* the bodies operators send, with their verified subject
    Column    \* what the actor and reason columns keep of the texts in a body,
              \* None when an INSERT with these texts fails

\* A body may name any number as its warehouse.
ASSUME PostsAssumption ==
    /\ Posts \subseteq [op: {"receive", "adjust"}, cmd: CommandId, sku: SKU,
                        wh: Int, qty: Int, by: Actor]
    /\ Column \in [Actor -> Actor \cup {None}]

VARIABLES
    screen,   \* what the operator of a post was told last
    wire      \* posts that may still reach the server

adminVars == <<vars, screen, wire>>

Told == {"applied", "conflict", "refused", "invalid"}

AdminInit == Init /\ screen = [p \in Posts |-> "new"] /\ wire = {}

-----------------------------------------------------------------------------
(* The server *)

\* 400: the tests of the two handlers (binding:"required" refuses 0) and those of
\* Validate.
Malformed(p) == p.wh <= 0 \/ p.qty = 0 \/ (p.op = "receive" /\ p.qty < 0)

\* The command as its ledger row keeps it: VARCHAR(64) drops trailing blanks
\* beyond its width without an error.
Written(p) == [p EXCEPT !.by = Column[p.by]]

\* Mutants of Taken: a taken command_id is an error, whoever took it; the
\* actor is never the stored one.
TakenIsError(p) == {500 : m \in {n \in ledger : n.key = CommandMove(p).key}}
TakenByAnother(p) ==
    {409 : m \in {n \in ledger : n.key = CommandMove(p).key}}

\* claimCommand finds the key taken: by a row equal to what was sent, or not.
Taken(p) ==
    {IF m = CommandMove(p) THEN 200 ELSE 409 :
        m \in {n \in ledger : n.key = CommandMove(p).key}}

\* The INSERT of claimCommand fails under a free key: no such warehouse.
KeyRefuses(p) == {500 : w \in {p.wh} \ Warehouse}

\* The balance statement of a command whose ledger row was inserted fails.
RowRefuses(p) ==
    LET x == <<p.sku, p.wh>> IN
    CASE p.op = "adjust" /\ ~bal[x].live -> {404}
      [] SchemaChecks(CommandEffect(p, bal[x])) -> {}
      [] p.op = "adjust" /\ CommandEffect(p, bal[x]).onHand <= MaxBigint -> {422}
      [] OTHER -> {500}

\* Mutant of Refusals: the balance is looked at before the key is claimed.
RefusalsBeforeClaim(p) ==
    CASE Column[p.by] = None -> {500}
      [] KeyRefuses(p) # {} -> KeyRefuses(p)
      [] RowRefuses(p) # {} -> RowRefuses(p)
      [] OTHER -> Taken(p)

\* The order in which run meets what is wrong: texts too long for their columns,
\* the key, the foreign key on the warehouse, the balance row.
Refusals(p) ==
    CASE Column[p.by] = None -> {500}
      [] Column[p.by] # None /\ Taken(p) # {} -> Taken(p)
      [] Column[p.by] # None /\ Taken(p) = {} /\ KeyRefuses(p) # {} -> KeyRefuses(p)
      [] OTHER -> RowRefuses(p)

\* respondCommand and respondAdminError; 422 stands for the second 409, whose
\* code is STOCK_UNAVAILABLE.
Answers(p) ==
    CASE Malformed(p) -> {400}
      [] ~Malformed(p) /\ Refusals(p) = {} -> {201}
      [] OTHER -> Refusals(p)

\* What the operator makes of an answer; after a 500 nothing is known.
Shown(a) ==
    CASE a \in {200, 201} -> "applied"
      [] a = 409 -> "conflict"
      [] a \in {404, 422} -> "refused"
      [] a = 400 -> "invalid"
      [] OTHER -> "sent"

\* The server runs p; the answer arrives if told, a copy of p remains if kept.
ServePost(p, told, kept) ==
    /\ \E a \in Answers(p) :
          /\ IF a = 201 THEN StockCommand(Written(p)) ELSE UNCHANGED vars
          /\ screen' = IF told /\ screen[p] = "sent"
                       THEN [screen EXCEPT ![p] = Shown(a)] ELSE screen
    /\ wire' = IF kept THEN wire ELSE wire \ {p}

Drop(p) == wire' = wire \ {p} /\ UNCHANGED <<vars, screen>>

-----------------------------------------------------------------------------
(* Operators and everyone else *)

Submit(p) ==
    /\ screen[p] = "new"
    /\ screen' = [screen EXCEPT ![p] = "sent"]
    /\ wire' = wire \cup {p}
    /\ UNCHANGED vars

Repeat(p) ==
    /\ screen[p] = "sent" /\ p \notin wire
    /\ wire' = wire \cup {p}
    /\ UNCHANGED <<vars, screen>>

Others == Next /\ UNCHANGED <<screen, wire>>

AdminNext ==
    \/ \E p \in Posts : Submit(p) \/ Repeat(p)
    \/ \E p \in wire : Drop(p) \/ \E told, kept \in BOOLEAN : ServePost(p, told, kept)
    \/ Others

AdminSpec == AdminInit /\ [][AdminNext]_adminVars

\* The operator repeats until answered; a request sent often enough arrives
\* and is answered.
FairAdminSpec ==
    /\ AdminSpec
    /\ \A p \in Posts : /\ WF_adminVars(Repeat(p))
                        /\ SF_adminVars(p \in wire /\ ServePost(p, TRUE, FALSE))

-----------------------------------------------------------------------------
(* Properties *)

\* Every variable has a value of its type.
AdminTypeOK ==
    /\ TypeOK
    /\ screen \in [Posts -> Told \cup {"new", "sent"}]
    /\ wire \subseteq Posts

\* The screen learns of a conflict, a 404 or a stock refusal although the command
\* has taken effect, in an earlier attempt whose answer was lost.
RefusedOwn(p) ==
    /\ screen[p] = "sent" /\ screen'[p] \in {"conflict", "refused"}
    /\ CommandMove(Written(p)) \in ledger'

\* A replay is recognised before the balance has its say, and "command_id was
\* already used with a different payload" is never said of the command itself, for
\* every body whose texts the columns keep as they are.  Of the others that is false: a
\* reason that its column cuts is compared uncut, and its retry told of a conflict.
\* (After a refusal a copy still on the wire may take effect later.)
RefusalsAreTrue ==
    [][\A p \in Posts : Column[p.by] = p.by => ~RefusedOwn(p)]_adminVars

KeyFree(p) == \A m \in ledger : m.key # CommandMove(p).key

\* No attempt can book the command as the tables are: a reason longer than its
\* column, which no handler bounds, a warehouse that does not exist, which the
\* foreign key refuses, or a sum beyond a BIGINT.  respondAdminError answers each
\* with 500.
Unbookable(p) ==
    \/ Column[p.by] = None
    \/ /\ KeyFree(p)
       /\ \/ p.wh \notin Warehouse
          \/ bal[<<p.sku, p.wh>>].onHand + p.qty > MaxBigint

\* Every other command is answered with more than a 500 in the end, also one that
\* took effect in an attempt whose answer was lost ("a lost response can be retried
\* without double-applying").
ScreensSettle ==
    \A p \in Posts : screen[p] = "sent" ~> screen[p] \in Told \/ Unbookable(p)
=============================================================================
