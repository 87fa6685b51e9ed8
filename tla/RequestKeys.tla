---------------------------- MODULE RequestKeys ----------------------------
(***************************************************************************)
(* The texts that stand for a request: the canonical hash that tells a     *)
(* retry from another request under the same id, and the ledger keys       *)
(* res:/rel:/cmt:<id>:<sku> that share one unique column with the command  *)
(* ids of operators.  A text is a sequence of characters; sha256 is taken  *)
(* to be injective, so a hash is the text that is hashed.                  *)
(***************************************************************************)
EXTENDS Naturals, FiniteSets, SequencesExt

CONSTANTS
    Alnum,          \* the characters that every name may have
    SkuText, IdText, RegionText,  \* texts the callers send, valid or not
    CommandText,    \* command ids of the operators
    Quantity,       \* quantities the callers send, valid or not
    SkuRank,        \* byte order of the SKU texts
    MaxItems,       \* lines of one request
    MaxSku, MaxId, MaxRegion, MaxQuantity  \* limits of the handlers

\* Width of inventory_movements.command_id: "186 + 69 = 255 exactly".
KeyColumn == MaxId + MaxSku + 5

ASSUME KeysAssumption ==
    /\ {":", "|"} \cap Alnum = {}
    /\ {"r", "e", "s", "l", "c", "m", "t", "d"} \subseteq Alnum
    /\ {"0", "1", "2", "3", "4", "5", "6", "7", "8", "9"} \subseteq Alnum
    /\ MaxItems \in Nat /\ MaxSku \in Nat /\ MaxId \in Nat /\ MaxQuantity \in Nat
    /\ \A t \in SkuText \cup IdText \cup RegionText \cup CommandText :
          t \in Seq(Alnum \cup {":", "|"})
    /\ Quantity \subseteq Nat
    /\ SkuRank \in [SkuText -> Nat]
    /\ \A s, t \in SkuText : SkuRank[s] = SkuRank[t] => s = t

VARIABLES
    header,   \* header[id]: status, request hash and the request it stands for
    moved,    \* command_id of the ledger rows of reservations
    claimed   \* command_id of the ledger rows of operators' commands

vars == <<header, moved, claimed>>

\* The column command_id, which has one unique index.
ledger == moved \cup claimed

-----------------------------------------------------------------------------
(* Validation at the edge *)

\* Mutant of SkuChar: the SKU pattern admits the separator.
SkuCharWithColon == Alnum \cup {":"}

SkuChar == Alnum

\* Mutant of RegionChar: the region pattern admits the separators.
RegionCharWithSeparators == Alnum \cup {":", "|"}

RegionChar == Alnum
IdChar == Alnum \cup {":"}

ValidSku(t) == t \in Seq(SkuChar) /\ Len(t) \in 1..MaxSku

\* Mutant of ValidId: the cap is the width of the column.
ValidIdToColumn(t) == t \in Seq(IdChar) /\ Len(t) \in 1..KeyColumn

ValidId(t) == t \in Seq(IdChar) /\ Len(t) \in 1..MaxId
ValidRegion(t) == t \in Seq(RegionChar) /\ Len(t) \in 0..MaxRegion

ValidLine(l) == ValidSku(l.sku) /\ l.qty \in 1..MaxQuantity

Line == [sku: SkuText, qty: Quantity]
Requests == [id: IdText, region: RegionText,
             items: UNION {[1..n -> Line] : n \in 1..MaxItems}]

Accepted == {q \in Requests : /\ ValidId(q.id) /\ ValidRegion(q.region)
                              /\ \A i \in DOMAIN q.items : ValidLine(q.items[i])}

-----------------------------------------------------------------------------
(* The canonical hash *)

\* Mutant of AddLine: duplicates are not merged.
AddLineAlways(out, l) == Append(out, l)

\* The line of a SKU that was seen before grows, a new one is appended.
AddLine(out, l) ==
    IF \E i \in DOMAIN out : out[i].sku = l.sku
    THEN [i \in DOMAIN out |-> IF out[i].sku = l.sku
                               THEN [out[i] EXCEPT !.qty = @ + l.qty] ELSE out[i]]
    ELSE Append(out, l)

AggregateLines(items) == FoldLeft(AddLine, <<>>, items)

Before(a, b) == SkuRank[a.sku] < SkuRank[b.sku]

\* sort.Slice: a rearrangement in which no line comes after a later SKU.
Sorted(items) ==
    LET order == CHOOSE p \in Bijection(DOMAIN items, DOMAIN items) :
                    \A i, j \in DOMAIN items : i < j => ~Before(items[p[j]], items[p[i]])
    IN [i \in DOMAIN items |-> items[order[i]]]

\* strconv.FormatInt in base 10, of a quantity.
Digit(d) == <<"0", "1", "2", "3", "4", "5", "6", "7", "8", "9">>[d + 1]
Decimal[n \in Nat] ==
    IF n < 10 THEN <<Digit(n)>>
    ELSE Append(Decimal[n \div 10], Digit(n % 10))

\* One "sku:qty|".
Pair(l) == l.sku \o <<":">> \o Decimal[l.qty] \o <<"|">>

LinesText(items) == FlattenSeq([i \in DOMAIN items |-> Pair(items[i])])

Dest == <<"d", "e", "s", "t", ":">>

\* Mutant of CanonicalText: the lines are not sorted.
CanonicalTextUnsorted(items, region) == LinesText(items) \o Dest \o region

CanonicalText(items, region) == LinesText(Sorted(items)) \o Dest \o region

RequestHash(q) == CanonicalText(AggregateLines(q.items), q.region)
HashOf == [q \in Accepted |-> RequestHash(q)]

SkusOf(q) == {q.items[i].sku : i \in DOMAIN q.items}

\* The units of a SKU that the lines ask for, one element per unit.
Units(items, sku) ==
    {u \in (DOMAIN items) \X (1..MaxQuantity) :
        items[u[1]].sku = sku /\ u[2] <= items[u[1]].qty}

\* What a request asks for: the total of every SKU, and where to.
Want(q) ==
    [lines |-> {<<s, Cardinality(Units(q.items, s))>> : s \in SkusOf(q)},
     region |-> q.region]

-----------------------------------------------------------------------------
(* The ledger keys and the tables *)

Prefix == [reserve |-> <<"r", "e", "s", ":">>,
           release |-> <<"r", "e", "l", ":">>,
           commit |-> <<"c", "m", "t", ":">>]

LedgerKey(op, id, sku) == Prefix[op] \o id \o <<":">> \o sku
LedgerKeys(op, id, skus) == {LedgerKey(op, id, s) : s \in skus}

\* The INSERTs neither break the unique key nor the column's width.
Insertable(keys) == \A k \in keys : k \notin ledger /\ Len(k) <= KeyColumn

NoHeader == [status |-> "none", hash |-> <<>>, skus |-> {},
             want |-> [lines |-> {}, region |-> <<>>]]

Init ==
    /\ header = [id \in IdText |-> NoHeader]
    /\ moved = {} /\ claimed = {}

\* A fresh Reserve; which stock it takes is left to Inventory.
Reserve(q) ==
    /\ header[q.id].status = "none"
    /\ Insertable(LedgerKeys("reserve", q.id, SkusOf(q)))
    /\ moved' = moved \cup LedgerKeys("reserve", q.id, SkusOf(q))
    /\ header' = [header EXCEPT ![q.id] =
          [status |-> "reserved", hash |-> HashOf[q], skus |-> SkusOf(q),
           want |-> Want(q)]]
    /\ UNCHANGED claimed

Settle(op, id) ==
    /\ header[id].status = "reserved"
    /\ Insertable(LedgerKeys(op, id, header[id].skus))
    /\ moved' = moved \cup LedgerKeys(op, id, header[id].skus)
    /\ header' = [header EXCEPT ![id].status =
                     IF op = "commit" THEN "committed" ELSE "released"]
    /\ UNCHANGED claimed

\* claimCommand of an operator's command: Validate bounds the length of its id,
\* not its text.
Command(t) ==
    /\ t \notin ledger
    /\ claimed' = claimed \cup {t}
    /\ UNCHANGED <<header, moved>>

Next ==
    \/ \E q \in Accepted : Reserve(q)
    \/ \E id \in IdText, op \in {"release", "commit"} : Settle(op, id)
    \/ \E t \in CommandText : Command(t)

Spec == Init /\ [][Next]_vars

-----------------------------------------------------------------------------
(* Properties *)

\* Stored keys are texts, and the schema accepts the lines of every header
\* (CHECK (quantity > 0)).
TypeOK ==
    /\ ledger \subseteq Seq(Alnum \cup {":", "|"})
    /\ \A id \in IdText :
          /\ header[id].status \in {"none", "reserved", "committed", "released"}
          /\ header[id].skus \subseteq SkuText
          /\ \A l \in header[id].want.lines : l[1] \in header[id].skus /\ l[2] > 0

\* How replayReservation answers request q.
SameHash(q) == HashOf[q] = header[q.id].hash
Used(q) == header[q.id].status # "none"

\* Equal hashes under one id mean the same quantities of the same SKUs to the
\* same region ("Rejecting the charset at the edge removes the ambiguity
\* entirely"): no other request is taken for a replay.
ReplayIsSameRequest ==
    \A q \in Accepted : Used(q) /\ SameHash(q) => Want(q) = header[q.id].want

\* A retry that lists its lines in another order or splits them is no
\* conflict ("Order-insensitive, quantity- and destination-sensitive").
RetryIsReplay ==
    \A q \in Accepted : Used(q) /\ Want(q) = header[q.id].want => SameHash(q)

\* The keys that the ledger rows of a fresh Reserve need, and those of the
\* Release or Commit of a hold.
NeededKeys ==
    LET fresh == {q \in Accepted : ~Used(q)}
        holds == {id \in IdText : header[id].status = "reserved"}
    IN (UNION {LedgerKeys("reserve", q.id, SkusOf(q)) : q \in fresh})
       \cup (UNION {LedgerKeys(op, id, header[id].skus) :
                      op \in {"release", "commit"}, id \in holds})

\* No reservation takes the key that a line of another one, or a later
\* operation on itself, needs, although ids may contain the separator; and every
\* key that will be needed fits the column ("186 + 69 = 255 exactly"): what was
\* reserved can be settled, unless an operator's command claims the very text, which
\* no code prevents: such a hold stays, its Commit answered with an error for ever.
LinesNeverCollide == \A k \in NeededKeys : k \notin moved /\ Len(k) <= KeyColumn
=============================================================================
