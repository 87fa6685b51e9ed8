------------------------- MODULE RequestKeysProofs -------------------------
(***************************************************************************)
(* The ledger keys of reservations never meet: not within a reservation,   *)
(* not between two, not between its three operations, and each fits its    *)
(* column.  So only an operator's command id can be in a line's way,       *)
(* whatever texts, limits and quantities the constants allow.              *)
(*                                                                         *)
(* The canonical text of a request can be read back: its lines end with a  *)
(* separator that no name and no number contains, numbers are written in   *)
(* one way, and merged lines have one order by SKU.  So two requests have  *)
(* one hash exactly when they ask for the same.                            *)
(***************************************************************************)
EXTENDS RequestKeys, SequenceTheorems, FiniteSetTheorems, WellFoundedInduction, TLAPS

Char == Alnum \cup {":", "|"}
Op == {"reserve", "release", "commit"}

\* A text before a separator and one after it, and a text without separator.
Joined(c, s, t) == s \o <<c>> \o t
Free(c, t) == \A i \in 1..Len(t) : t[i] # c

\* A text joined with one that is free of the separator is split in one way
\* only.
LEMMA SplitOnce ==
    ASSUME NEW C, NEW c \in C,
           NEW s1 \in Seq(C), NEW s2 \in Seq(C), NEW t1 \in Seq(C), NEW t2 \in Seq(C),
           Free(c, t1), Free(c, t2), Joined(c, s1, t1) = Joined(c, s2, t2)
    PROVE  s1 = s2 /\ t1 = t2
<1> DEFINE k1 == s1 \o <<c>> \o t1
           k2 == s2 \o <<c>> \o t2
<1>a. k1 = k2
  BY DEF Joined
<1>1. /\ Len(k1) = Len(s1) + 1 + Len(t1)
      /\ Len(k2) = Len(s2) + 1 + Len(t2)
  OBVIOUS
<1>2. /\ k1[Len(s1) + 1] = c
      /\ k2[Len(s2) + 1] = c
  OBVIOUS
<1>3. /\ \A i \in 1..Len(t1) : k1[Len(s1) + 1 + i] = t1[i]
      /\ \A i \in 1..Len(t2) : k2[Len(s2) + 1 + i] = t2[i]
  OBVIOUS
<1>4. ~(Len(s1) < Len(s2))
  <2> SUFFICES ASSUME Len(s1) < Len(s2) PROVE FALSE
    OBVIOUS
  <2>1. Len(s2) - Len(s1) \in 1..Len(t1)
    BY <1>a, <1>1
  <2>2. k1[Len(s2) + 1] = t1[Len(s2) - Len(s1)]
    <3>1. Len(s1) + 1 + (Len(s2) - Len(s1)) = Len(s2) + 1
      OBVIOUS
    <3> QED BY <2>1, <3>1, <1>3
  <2> QED BY <2>1, <2>2, <1>a, <1>2 DEF Free
<1>5. ~(Len(s2) < Len(s1))
  <2> SUFFICES ASSUME Len(s2) < Len(s1) PROVE FALSE
    OBVIOUS
  <2>1. Len(s1) - Len(s2) \in 1..Len(t2)
    BY <1>a, <1>1
  <2>2. k2[Len(s1) + 1] = t2[Len(s1) - Len(s2)]
    <3>1. Len(s2) + 1 + (Len(s1) - Len(s2)) = Len(s1) + 1
      OBVIOUS
    <3> QED BY <2>1, <3>1, <1>3
  <2> QED BY <2>1, <2>2, <1>a, <1>2 DEF Free
<1>6. Len(s1) = Len(s2) /\ Len(t1) = Len(t2)
  BY <1>a, <1>1, <1>4, <1>5
<1>7. \A i \in 1..Len(s1) : s1[i] = s2[i]
  <2>1. \A i \in 1..Len(s1) : k1[i] = s1[i] /\ k2[i] = s2[i]
    BY <1>6
  <2> QED BY <1>a, <2>1
<1>8. \A i \in 1..Len(t1) : t1[i] = t2[i]
  BY <1>a, <1>3, <1>6
<1>9. s1 = s2
  BY <1>6, <1>7, SeqEqual
<1>10. t1 = t2
  BY <1>6, <1>8, SeqEqual
<1> QED BY <1>9, <1>10

\* Texts with prefixes of equal length are equal only if both parts are.
LEMMA PrefixOnce ==
    ASSUME NEW C, NEW p1 \in Seq(C), NEW p2 \in Seq(C), Len(p1) = Len(p2),
           NEW s1 \in Seq(C), NEW s2 \in Seq(C), p1 \o s1 = p2 \o s2
    PROVE  p1 = p2 /\ s1 = s2
<1> DEFINE k1 == p1 \o s1
           k2 == p2 \o s2
<1>1. Len(s1) = Len(s2)
  <2>1. Len(k1) = Len(p1) + Len(s1)
    BY ConcatProperties
  <2>2. Len(k2) = Len(p2) + Len(s2)
    BY ConcatProperties
  <2>3. Len(p1) \in Nat /\ Len(s1) \in Nat /\ Len(s2) \in Nat
    BY LenProperties
  <2> HIDE DEF k1, k2
  <2>4. k1 = k2
    BY DEF k1, k2
  <2> QED BY <2>1, <2>2, <2>3, <2>4
<1>2. \A i \in 1..Len(p1) : k1[i] = p1[i] /\ k2[i] = p2[i]
  OBVIOUS
<1>3. \A i \in 1..Len(s1) : k1[Len(p1) + i] = s1[i] /\ k2[Len(p1) + i] = s2[i]
  BY <1>1
<1>4. \A i \in 1..Len(p1) : p1[i] = p2[i]
  BY <1>2
<1>5. \A i \in 1..Len(s1) : s1[i] = s2[i]
  BY <1>3
<1>6. p1 = p2
  BY <1>4, SeqEqual
<1>7. s1 = s2
  BY <1>1, <1>5, SeqEqual
<1> QED BY <1>6, <1>7

LEMMA LengthOfKey ==
    ASSUME NEW C, NEW c \in C, NEW p \in Seq(C), NEW s \in Seq(C), NEW t \in Seq(C)
    PROVE  Len(p \o s \o <<c>> \o t) = Len(p) + Len(s) + 1 + Len(t)
OBVIOUS

LEMMA PrefixShape ==
    ASSUME NEW op \in Op
    PROVE  Prefix[op] \in Seq(Char) /\ Len(Prefix[op]) = 4
<1>1. {"r", "e", "s", "l", "c", "m", "t", ":"} \subseteq Char
  BY KeysAssumption DEF Char
<1>2. CASE op = "reserve"
  BY <1>1, <1>2 DEF Prefix
<1>3. CASE op = "release"
  BY <1>1, <1>3 DEF Prefix
<1>4. CASE op = "commit"
  BY <1>1, <1>4 DEF Prefix
<1> QED BY <1>2, <1>3, <1>4 DEF Op

LEMMA PrefixTells ==
    ASSUME NEW op1 \in Op, NEW op2 \in Op, Prefix[op1] = Prefix[op2]
    PROVE  op1 = op2
<1>1. Prefix["reserve"][1] = "r" /\ Prefix["reserve"][3] = "s"
  BY DEF Prefix
<1>2. Prefix["release"][1] = "r" /\ Prefix["release"][3] = "l"
  BY DEF Prefix
<1>3. Prefix["commit"][1] = "c"
  BY DEF Prefix
<1> QED BY <1>1, <1>2, <1>3 DEF Op

\* Names that passed validation are texts, a SKU without the separator.
LEMMA NamesAreTexts ==
    /\ \A id : ValidId(id) => id \in Seq(Char) /\ Len(id) \in 1..MaxId
    /\ \A sku : ValidSku(sku) => /\ sku \in Seq(Char) /\ Len(sku) \in 1..MaxSku
                                /\ Free(":", sku)
<1>1. ASSUME NEW id, ValidId(id) PROVE id \in Seq(Char) /\ Len(id) \in 1..MaxId
  <2>1. IdChar \subseteq Char
    BY DEF IdChar, Char
  <2>2. id \in Seq(IdChar) /\ Len(id) \in 1..MaxId
    BY <1>1 DEF ValidId
  <2> QED BY <2>1, <2>2
<1>2. ASSUME NEW sku, ValidSku(sku)
      PROVE  /\ sku \in Seq(Char) /\ Len(sku) \in 1..MaxSku
             /\ Free(":", sku)
  <2>1. sku \in Seq(Alnum) /\ Len(sku) \in 1..MaxSku
    BY <1>2 DEF ValidSku, SkuChar
  <2>2. Alnum \subseteq Char /\ ":" \notin Alnum
    BY KeysAssumption DEF Char
  <2>3. \A i \in 1..Len(sku) : sku[i] \in Alnum
    BY <2>1
  <2> QED BY <2>1, <2>2, <2>3 DEF Free
<1> QED BY <1>1, <1>2

\* The key of a line tells the operation, the reservation and the SKU although
\* reservation ids may contain the separator (the concatenations in applyReserve,
\* Release and Commit).
THEOREM LedgerKeysDiffer ==
    ASSUME NEW op1 \in Op, NEW op2 \in Op, NEW id1, NEW id2, NEW sku1, NEW sku2,
           ValidId(id1), ValidId(id2), ValidSku(sku1), ValidSku(sku2),
           LedgerKey(op1, id1, sku1) = LedgerKey(op2, id2, sku2)
    PROVE  op1 = op2 /\ id1 = id2 /\ sku1 = sku2
<1>1. /\ id1 \in Seq(Char) /\ id2 \in Seq(Char) /\ sku1 \in Seq(Char) /\ sku2 \in Seq(Char)
      /\ Free(":", sku1) /\ Free(":", sku2)
  BY NamesAreTexts
<1>2. /\ Prefix[op1] \in Seq(Char) /\ Len(Prefix[op1]) = 4
      /\ Prefix[op2] \in Seq(Char) /\ Len(Prefix[op2]) = 4
  BY PrefixShape
<1>3. /\ Prefix[op1] \o id1 \in Seq(Char)
      /\ Prefix[op2] \o id2 \in Seq(Char)
  BY <1>1, <1>2, ConcatProperties
<1>4. Joined(":", Prefix[op1] \o id1, sku1) = Joined(":", Prefix[op2] \o id2, sku2)
  BY DEF LedgerKey, Joined
<1>5. ":" \in Char
  BY DEF Char
<1>6. Prefix[op1] \o id1 = Prefix[op2] \o id2 /\ sku1 = sku2
  BY <1>1, <1>3, <1>4, <1>5, SplitOnce, ZenonT(60)
<1>7. Prefix[op1] = Prefix[op2] /\ id1 = id2
  <2> DEFINE p1 == Prefix[op1]
             p2 == Prefix[op2]
  <2>1. p1 \in Seq(Char) /\ p2 \in Seq(Char) /\ id1 \in Seq(Char) /\ id2 \in Seq(Char)
    BY <1>1, <1>2
  <2>2. Len(p1) = Len(p2)
    BY <1>2
  <2>3. p1 \o id1 = p2 \o id2
    BY <1>6
  <2> HIDE DEF p1, p2
  <2>4. p1 = p2 /\ id1 = id2
    BY <2>1, <2>2, <2>3, PrefixOnce, ZenonT(60)
  <2> QED BY <2>4 DEF p1, p2
<1> QED BY <1>6, <1>7, PrefixTells

\* "186 + 69 = 255 exactly": an id and a SKU that passed validation give a key
\* that fits command_id.
THEOREM LedgerKeysFit ==
    ASSUME NEW op \in Op, NEW id, NEW sku, ValidId(id), ValidSku(sku)
    PROVE  Len(LedgerKey(op, id, sku)) <= KeyColumn
<1>1. /\ id \in Seq(Char) /\ Len(id) \in 1..MaxId
      /\ sku \in Seq(Char) /\ Len(sku) \in 1..MaxSku
  BY NamesAreTexts
<1>2. Prefix[op] \in Seq(Char) /\ Len(Prefix[op]) = 4
  BY PrefixShape
<1>3. ":" \in Char
  BY DEF Char
<1>4. Len(LedgerKey(op, id, sku)) = 4 + Len(id) + 1 + Len(sku)
  <2> DEFINE p == Prefix[op]
             c == ":"
  <2>1. LedgerKey(op, id, sku) = p \o id \o <<c>> \o sku
    BY DEF LedgerKey
  <2>2. c \in Char
    BY <1>3
  <2>3. p \in Seq(Char)
    BY <1>2
  <2>4. id \in Seq(Char) /\ sku \in Seq(Char)
    BY <1>1
  <2>5. Len(p) = 4
    BY <1>2
  <2> HIDE DEF p, c
  <2>6. Len(p \o id \o <<c>> \o sku) = Len(p) + Len(id) + 1 + Len(sku)
    BY <2>2, <2>3, <2>4, LengthOfKey
  <2> QED BY <2>1, <2>5, <2>6
<1> QED BY <1>1, <1>4, KeysAssumption DEF KeyColumn

-----------------------------------------------------------------------------
(* The invariant: every key of a reservation's row has a known origin *)

\* What a header can hold.
StoredHeader ==
    [status: {"none", "reserved", "committed", "released"},
     hash: {HashOf[q] : q \in Accepted} \cup {<<>>},
     skus: SUBSET SkuText,
     want: {Want(q) : q \in Accepted} \cup {[lines |-> {}, region |-> <<>>]}]

\* Headers in use come from requests that passed validation.
HeadersAreValid ==
    /\ header \in [IdText -> StoredHeader]
    /\ \A id \in IdText : header[id].status # "none" =>
          ValidId(id) /\ \A s \in header[id].skus : ValidSku(s)

\* The operation op has been applied to a reservation in status st.
Done(op, st) ==
    \/ op = "reserve" /\ st # "none"
    \/ op = "release" /\ st = "released"
    \/ op = "commit" /\ st = "committed"

\* A key that operation op wrote for a line of reservation id.
Wrote(k, op, id) ==
    /\ Done(op, header[id].status)
    /\ \E s \in header[id].skus : k = LedgerKey(op, id, s)

LedgerIsKnown ==
    /\ \A k \in moved : \E op \in Op, id \in IdText : Wrote(k, op, id)
    /\ claimed \subseteq CommandText

KeysInv == HeadersAreValid /\ LedgerIsKnown

LEMMA InitKeys == Init => KeysInv
<1> SUFFICES ASSUME Init PROVE KeysInv
  OBVIOUS
<1>1. NoHeader \in StoredHeader
  BY DEF NoHeader, StoredHeader
<1>2. HeadersAreValid
  BY <1>1 DEF Init, HeadersAreValid, NoHeader
<1>3. LedgerIsKnown
  BY DEF Init, LedgerIsKnown
<1> QED BY <1>2, <1>3 DEF KeysInv

\* What an accepted request is made of.
LEMMA AcceptedNames ==
    ASSUME NEW q \in Accepted
    PROVE  /\ q.id \in IdText /\ ValidId(q.id)
           /\ SkusOf(q) \subseteq SkuText
           /\ \A s \in SkusOf(q) : ValidSku(s)
<1>1. q \in Requests /\ ValidId(q.id) /\ \A i \in DOMAIN q.items : ValidLine(q.items[i])
  BY DEF Accepted
<1>2. q.id \in IdText /\ q.items \in UNION {[1..n -> Line] : n \in 1..MaxItems}
  BY <1>1 DEF Requests
<1>3. \A i \in DOMAIN q.items : q.items[i] \in Line
  BY <1>2
<1>4. \A i \in DOMAIN q.items : q.items[i].sku \in SkuText /\ ValidSku(q.items[i].sku)
  BY <1>1, <1>3 DEF Line, ValidLine
<1> QED BY <1>1, <1>2, <1>4 DEF SkusOf

\* A step that keeps the SKUs of used headers and undoes no operation keeps
\* the origin of every key.
LEMMA OriginStays ==
    ASSUME LedgerIsKnown,
           \A id \in IdText : header[id].status # "none" => header'[id].skus = header[id].skus,
           \A id \in IdText, op \in Op : Done(op, header[id].status) => Done(op, header'[id].status)
    PROVE  \A k \in moved :
              \E op \in Op, id \in IdText :
                  /\ Done(op, header'[id].status)
                  /\ \E s \in header'[id].skus : k = LedgerKey(op, id, s)
<1> SUFFICES ASSUME NEW k \in moved
             PROVE  \E op \in Op, id \in IdText :
                       /\ Done(op, header'[id].status)
                       /\ \E s \in header'[id].skus : k = LedgerKey(op, id, s)
  OBVIOUS
<1>1. PICK op \in Op, id \in IdText : Wrote(k, op, id)
  BY DEF LedgerIsKnown
<1>2. Done(op, header[id].status) /\ \E s \in header[id].skus : k = LedgerKey(op, id, s)
  BY <1>1 DEF Wrote
<1>3. header[id].status # "none"
  BY <1>2 DEF Done
<1> QED BY <1>2, <1>3

LEMMA ReserveKeepsKeys ==
    ASSUME KeysInv, NEW q \in Accepted, Reserve(q) PROVE KeysInv'
<1> DEFINE h == [status |-> "reserved", hash |-> HashOf[q], skus |-> SkusOf(q), want |-> Want(q)]
<1>1. /\ q.id \in IdText /\ ValidId(q.id) /\ SkusOf(q) \subseteq SkuText
      /\ \A s \in SkusOf(q) : ValidSku(s)
  BY AcceptedNames
<1>2. h \in StoredHeader
  BY <1>1 DEF StoredHeader
<1>3. header' = [header EXCEPT ![q.id] = h] /\ header[q.id].status = "none"
  BY DEF Reserve
<1>4. h.status = "reserved" /\ h.skus = SkusOf(q)
  OBVIOUS
<1> HIDE DEF h
<1>5. /\ header'[q.id] = h
      /\ \A id \in IdText \ {q.id} : header'[id] = header[id]
  BY <1>1, <1>3 DEF KeysInv, HeadersAreValid
<1>6. HeadersAreValid'
  BY <1>1, <1>2, <1>3, <1>4, <1>5 DEF KeysInv, HeadersAreValid
<1>7. \A id \in IdText : header[id].status # "none" => header'[id].skus = header[id].skus
  BY <1>3, <1>5
<1>8. \A id \in IdText, op \in Op : Done(op, header[id].status) => Done(op, header'[id].status)
  BY <1>3, <1>5 DEF Done
<1>9. \A k \in LedgerKeys("reserve", q.id, SkusOf(q)) :
         /\ Done("reserve", header'[q.id].status)
         /\ \E s \in header'[q.id].skus : k = LedgerKey("reserve", q.id, s)
  BY <1>4, <1>5 DEF LedgerKeys, Done
<1>10. LedgerIsKnown'
  BY <1>1, <1>7, <1>8, <1>9, OriginStays DEF KeysInv, LedgerIsKnown, Wrote, Reserve, Op
<1> QED BY <1>6, <1>10 DEF KeysInv

LEMMA SettleKeepsKeys ==
    ASSUME KeysInv, NEW id \in IdText, NEW op \in {"release", "commit"}, Settle(op, id)
    PROVE  KeysInv'
<1> DEFINE st == IF op = "commit" THEN "committed" ELSE "released"
<1>1. header' = [header EXCEPT ![id].status = st] /\ header[id].status = "reserved"
  BY DEF Settle
<1>2. header \in [IdText -> StoredHeader]
  BY DEF KeysInv, HeadersAreValid
<1>3. /\ header'[id].status = st /\ header'[id].skus = header[id].skus
      /\ \A r \in IdText \ {id} : header'[r] = header[r]
  BY <1>1, <1>2 DEF StoredHeader
<1>4. header' \in [IdText -> StoredHeader]
  BY <1>1, <1>2, ZenonT(60) DEF StoredHeader
<1>5. HeadersAreValid'
  BY <1>1, <1>3, <1>4 DEF KeysInv, HeadersAreValid
<1>6. \A r \in IdText : header[r].status # "none" => header'[r].skus = header[r].skus
  BY <1>3
<1>7. \A r \in IdText, o \in Op : Done(o, header[r].status) => Done(o, header'[r].status)
  BY <1>1, <1>3 DEF Done
<1>8. \A k \in LedgerKeys(op, id, header[id].skus) :
         /\ Done(op, header'[id].status)
         /\ \E s \in header'[id].skus : k = LedgerKey(op, id, s)
  BY <1>3 DEF LedgerKeys, Done
<1>9. LedgerIsKnown'
  BY <1>6, <1>7, <1>8, OriginStays DEF KeysInv, LedgerIsKnown, Wrote, Settle, Op
<1> QED BY <1>5, <1>9 DEF KeysInv

LEMMA NextKeepsKeys == KeysInv /\ [Next]_vars => KeysInv'
<1> SUFFICES ASSUME KeysInv, [Next]_vars PROVE KeysInv'
  OBVIOUS
<1>1. ASSUME NEW q \in Accepted, Reserve(q) PROVE KeysInv'
  BY <1>1, ReserveKeepsKeys
<1>2. ASSUME NEW id \in IdText, NEW op \in {"release", "commit"}, Settle(op, id) PROVE KeysInv'
  BY <1>2, SettleKeepsKeys
<1>3. ASSUME NEW t \in CommandText, Command(t) PROVE KeysInv'
  BY <1>3 DEF Command, KeysInv, HeadersAreValid, LedgerIsKnown, Wrote
<1>4. CASE UNCHANGED vars
  BY <1>4 DEF vars, KeysInv, HeadersAreValid, LedgerIsKnown, Wrote
<1> QED BY <1>1, <1>2, <1>3, <1>4 DEF Next

\* No reservation wrote the key of an operation that was not applied yet, and
\* it fits.
LEMMA NewKeysAreFree ==
    ASSUME KeysInv, NEW op \in Op, NEW id \in IdText, ValidId(id),
           ~Done(op, header[id].status), NEW s, ValidSku(s)
    PROVE  LedgerKey(op, id, s) \notin moved /\ Len(LedgerKey(op, id, s)) <= KeyColumn
<1>1. ASSUME NEW o \in Op, NEW r \in IdText, Wrote(LedgerKey(op, id, s), o, r) PROVE FALSE
  <2>1. PICK s2 \in header[r].skus : LedgerKey(op, id, s) = LedgerKey(o, r, s2)
    BY <1>1 DEF Wrote
  <2>2. Done(o, header[r].status)
    BY <1>1 DEF Wrote
  <2>3. ValidId(r) /\ ValidSku(s2)
    BY <2>2 DEF KeysInv, HeadersAreValid, Done
  <2>4. op = o /\ id = r
    BY <2>1, <2>3, LedgerKeysDiffer
  <2> QED BY <2>2, <2>4
<1>2. LedgerKey(op, id, s) \notin moved
  BY <1>1 DEF KeysInv, LedgerIsKnown
<1> QED BY <1>2, LedgerKeysFit

LEMMA KeysInvImplies == KeysInv => LinesNeverCollide
<1> SUFFICES ASSUME KeysInv, NEW k \in NeededKeys
             PROVE  k \notin moved /\ Len(k) <= KeyColumn
  BY DEF LinesNeverCollide
<1>1. ASSUME NEW q \in Accepted, ~Used(q), k \in LedgerKeys("reserve", q.id, SkusOf(q))
      PROVE  k \notin moved /\ Len(k) <= KeyColumn
  <2>1. PICK s \in SkusOf(q) : k = LedgerKey("reserve", q.id, s)
    BY <1>1 DEF LedgerKeys
  <2>2. ~Done("reserve", header[q.id].status)
    BY <1>1 DEF Used, Done
  <2>3. q.id \in IdText /\ ValidId(q.id) /\ ValidSku(s)
    BY AcceptedNames
  <2> QED BY <2>1, <2>2, <2>3, NewKeysAreFree DEF Op
<1>2. ASSUME NEW id \in IdText, header[id].status = "reserved", NEW op \in {"release", "commit"},
             k \in LedgerKeys(op, id, header[id].skus)
      PROVE  k \notin moved /\ Len(k) <= KeyColumn
  <2>1. PICK s \in header[id].skus : k = LedgerKey(op, id, s)
    BY <1>2 DEF LedgerKeys
  <2>2. ~Done(op, header[id].status)
    BY <1>2 DEF Done
  <2>3. ValidId(id) /\ ValidSku(s)
    BY <1>2 DEF KeysInv, HeadersAreValid
  <2> QED BY <2>1, <2>2, <2>3, NewKeysAreFree DEF Op
<1> QED BY <1>1, <1>2 DEF NeededKeys

\* What reservations write never blocks a reservation: for any ids, SKUs and
\* command ids, the key a Reserve, Release or Commit needs was written by no other
\* operation and fits command_id (applyReserve, Release, Commit).
THEOREM LinesNeverMeet == Spec => []LinesNeverCollide
<1>1. KeysInv /\ [Next]_vars => KeysInv'
  BY NextKeepsKeys
<1> QED BY InitKeys, <1>1, KeysInvImplies, PTL DEF Spec

-----------------------------------------------------------------------------
(* Recursive functions *)

LEMMA Least ==
    ASSUME NEW S \in SUBSET Nat, S # {}
    PROVE  \E n \in S : \A k \in S : n <= k
<1> DEFINE R == OpToRel(<, Nat)
<1>1. IsWellFoundedOn(R, Nat)
  BY NatLessThanWellFounded
<1>2. \A k, n \in Nat : k < n => <<k, n>> \in R
  BY DEF OpToRel
<1> HIDE DEF R
<1>3. PICK n \in S : \A k \in S : ~(<<k, n>> \in R)
  BY <1>1, WFMin
<1>4. ASSUME NEW k \in S PROVE n <= k
  <2>1. k \in Nat /\ n \in Nat /\ ~(<<k, n>> \in R)
    BY <1>3
  <2>2. ~(k < n)
    BY <1>2, <2>1
  <2> QED BY <2>1, <2>2
<1> QED BY <1>4

\* G computes the value of a function from S to X at s from the values it has
\* at elements of smaller rank.
Recursive(S, X, rank, G) ==
    /\ X # {} /\ rank \in [S -> Nat] /\ G \in [[S -> X] \X S -> X]
    /\ \A g, h \in [S -> X], s \in S :
           (\A r \in S : rank[r] < rank[s] => g[r] = h[r]) => G[<<g, s>>] = G[<<h, s>>]

Solution(f, S, X, G) == f \in [S -> X] /\ \A s \in S : f[s] = G[<<f, s>>]

\* Such a recursive definition has a solution, which its CHOOSE takes.
LEMMA Recursion ==
    \A S, X, rank, G : Recursive(S, X, rank, G) => \E f : Solution(f, S, X, G)
<1> SUFFICES ASSUME NEW S, NEW X, NEW rank, NEW G, Recursive(S, X, rank, G)
             PROVE  \E f : Solution(f, S, X, G)
  OBVIOUS
<1>t. /\ X # {} /\ rank \in [S -> Nat] /\ G \in [[S -> X] \X S -> X]
      /\ \A g, h \in [S -> X], s \in S :
           (\A r \in S : rank[r] < rank[s] => g[r] = h[r]) => G[<<g, s>>] = G[<<h, s>>]
  BY DEF Recursive
<1> USE <1>t
<1> DEFINE Upto(m) == {h \in [S -> X] : \A s \in S : rank[s] < m => h[s] = G[<<h, s>>]}
<1>1. ASSUME NEW m \in Nat, NEW h \in Upto(m)
      PROVE  Upto(m + 1) # {}
  <2> DEFINE g == [s \in S |-> IF rank[s] < m THEN h[s] ELSE G[<<h, s>>]]
  <2>1. g \in [S -> X]
    OBVIOUS
  <2>2. ASSUME NEW s \in S, rank[s] < m + 1 PROVE g[s] = G[<<g, s>>]
    <3>1. \A r \in S : rank[r] < rank[s] => g[r] = h[r]
      BY <2>2
    <3>2. h \in [S -> X]
      OBVIOUS
    <3> HIDE DEF g
    <3>3. G[<<g, s>>] = G[<<h, s>>]
      BY <2>1, <3>1, <3>2
    <3>4. g[s] = IF rank[s] < m THEN h[s] ELSE G[<<h, s>>]
      BY DEF g
    <3> QED BY <3>3, <3>4
  <2> HIDE DEF g
  <2> QED BY <2>1, <2>2
<1>2. \A m \in Nat : Upto(m) # {}
  <2> DEFINE Bad == {m \in Nat : Upto(m) = {}}
  <2> SUFFICES ASSUME Bad # {} PROVE FALSE
    OBVIOUS
  <2>1. PICK m \in Bad : \A k \in Bad : m <= k
    BY Least
  <2>2. m # 0
    <3>1. PICK x : x \in X
      OBVIOUS
    <3>2. [s \in S |-> x] \in Upto(0)
      BY <3>1
    <3> QED BY <3>2
  <2>3. m - 1 \in Nat /\ m - 1 \notin Bad
    <3>1. m \in Nat /\ \A k \in Bad : k \in Nat
      OBVIOUS
    <3> HIDE DEF Bad
    <3> QED BY <2>1, <2>2, <3>1
  <2>4. PICK h : h \in Upto(m - 1)
    BY <2>3
  <2>5. Upto((m - 1) + 1) # {}
    <3> HIDE DEF Upto
    <3> QED BY <1>1, <2>3, <2>4
  <2>6. (m - 1) + 1 = m
    OBVIOUS
  <2> HIDE DEF Upto
  <2> QED BY <2>1, <2>5, <2>6
<1>3. ASSUME NEW m \in Nat, NEW n \in Nat, NEW g \in Upto(m), NEW h \in Upto(n), NEW s \in S,
             rank[s] < m, rank[s] < n
      PROVE  g[s] = h[s]
  <2> DEFINE Bad == {rank[r] : r \in {r \in S : rank[r] < m /\ rank[r] < n /\ g[r] # h[r]}}
  <2> SUFFICES ASSUME g[s] # h[s] PROVE FALSE
    OBVIOUS
  <2>0. rank[s] \in Bad
    BY <1>3
  <2>1. PICK k \in Bad : \A j \in Bad : k <= j
    <3>1. Bad \in SUBSET Nat
      OBVIOUS
    <3> HIDE DEF Bad
    <3>2. Bad # {}
      BY <2>0
    <3> QED BY <3>1, <3>2, Least
  <2>2. PICK r \in S : k = rank[r] /\ rank[r] < m /\ rank[r] < n /\ g[r] # h[r]
    BY <2>1
  <2>3. ASSUME NEW t \in S, rank[t] < rank[r] PROVE g[t] = h[t]
    <3>1. rank[t] \in Nat /\ rank[r] \in Nat
      OBVIOUS
    <3>2. rank[t] \notin Bad
      <4>1. k = rank[r]
        BY <2>2
      <4> HIDE DEF Bad
      <4>2. rank[t] \in Bad => rank[r] <= rank[t]
        BY <2>1, <4>1
      <4> QED BY <2>3, <3>1, <4>2
    <3>3. rank[t] < m /\ rank[t] < n
      BY <2>2, <2>3, <3>1
    <3> QED BY <3>2, <3>3
  <2>4. g \in [S -> X] /\ h \in [S -> X]
    OBVIOUS
  <2>5. G[<<g, r>>] = G[<<h, r>>]
    BY <2>3, <2>4
  <2>6. g[r] = G[<<g, r>>] /\ h[r] = G[<<h, r>>]
    BY <2>2
  <2> QED BY <2>2, <2>5, <2>6
<1> DEFINE Sol(m) == CHOOSE h : h \in Upto(m)
           f == [s \in S |-> Sol(rank[s] + 1)[s]]
<1>4. ASSUME NEW m \in Nat PROVE Sol(m) \in Upto(m) /\ Sol(m) \in [S -> X]
  <2>1. Sol(m) \in Upto(m)
    <3> HIDE DEF Upto
    <3> QED BY <1>2
  <2> HIDE DEF Sol
  <2> QED BY <2>1
<1>5. f \in [S -> X]
  <2>1. \A s \in S : Sol(rank[s] + 1)[s] \in X
    <3> HIDE DEF Sol
    <3> QED BY <1>4
  <2> QED BY <2>1
<1>6. ASSUME NEW s \in S PROVE f[s] = G[<<f, s>>]
  <2> DEFINE h == Sol(rank[s] + 1)
  <2>1. h \in Upto(rank[s] + 1) /\ h \in [S -> X]
    <3>1. rank[s] + 1 \in Nat
      OBVIOUS
    <3> HIDE DEF Upto, Sol
    <3> QED BY <1>4, <3>1
  <2>2. ASSUME NEW r \in S, rank[r] < rank[s] PROVE f[r] = h[r]
    <3>1. Sol(rank[r] + 1) \in Upto(rank[r] + 1)
      <4>1. rank[r] + 1 \in Nat
        OBVIOUS
      <4> HIDE DEF Upto, Sol
      <4> QED BY <1>4, <4>1
    <3>2. f[r] = Sol(rank[r] + 1)[r]
      OBVIOUS
    <3> HIDE DEF Sol, Upto, f, h
    <3>3. rank[r] < rank[r] + 1 /\ rank[r] < rank[s] + 1 /\ rank[r] + 1 \in Nat /\ rank[s] + 1 \in Nat
      BY <2>2
    <3> QED BY <1>3, <2>1, <3>1, <3>2, <3>3
  <2>3. f[s] = h[s]
    OBVIOUS
  <2>4. h[s] = G[<<h, s>>]
    <3> HIDE DEF h
    <3> QED BY <2>1
  <2> HIDE DEF h, f, Sol, Upto
  <2>5. G[<<f, s>>] = G[<<h, s>>]
    BY <1>5, <2>1, <2>2
  <2> QED BY <2>3, <2>4, <2>5
<1> HIDE DEF f
<1> QED BY <1>5, <1>6 DEF Solution

-----------------------------------------------------------------------------
(* Numbers in decimal *)

LEMMA TenToOne ==
    ASSUME NEW n \in Nat
    PROVE  /\ n \div 10 \in Nat /\ n % 10 \in 0..9 /\ n = 10 * (n \div 10) + (n % 10)
           /\ n >= 10 => n \div 10 < n
OBVIOUS

LEMMA Digits ==
    /\ \A d \in 0..9 : Digit(d) \in Alnum
    /\ \A d, e \in 0..9 : Digit(d) = Digit(e) => d = e
<1>1. /\ Digit(0) = "0" /\ Digit(1) = "1" /\ Digit(2) = "2" /\ Digit(3) = "3" /\ Digit(4) = "4"
      /\ Digit(5) = "5" /\ Digit(6) = "6" /\ Digit(7) = "7" /\ Digit(8) = "8" /\ Digit(9) = "9"
  BY DEF Digit
<1>2. ASSUME NEW d \in 0..9
      PROVE  d \in {0, 1, 2, 3, 4, 5, 6, 7, 8, 9}
  OBVIOUS
<1>3. \A d \in 0..9 : Digit(d) \in Alnum
  BY <1>1, <1>2, KeysAssumption
<1>4. \A d, e \in 0..9 : Digit(d) = Digit(e) => d = e
  BY <1>1, <1>2
<1> QED BY <1>3, <1>4

\* The body of Decimal.
Written(f, n) == IF n < 10 THEN <<Digit(n)>> ELSE Append(f[n \div 10], Digit(n % 10))

\* The recursive definition of Decimal has a solution.
LEMMA DecimalIs == \A n \in Nat : Decimal[n] = Written(Decimal, n)
<1> DEFINE X == Seq(Alnum)
           rank == [n \in Nat |-> n]
           G == [p \in [Nat -> X] \X Nat |-> Written(p[1], p[2])]
           Is(f) == f = [n \in Nat |-> Written(f, n)]
<1>0. \A n \in Nat : n < 10 => Digit(n) \in Alnum
  BY Digits
<1>1. ASSUME NEW f \in [Nat -> X], NEW n \in Nat
      PROVE  G[<<f, n>>] = Written(f, n) /\ G[<<f, n>>] \in X
  <2>1. G[<<f, n>>] = Written(f, n)
    OBVIOUS
  <2> HIDE DEF G
  <2>2. CASE n < 10
    <3>1. Digit(n) \in Alnum
      BY <1>0, <2>2
    <3> QED BY <2>1, <2>2, <3>1 DEF Written
  <2>3. CASE ~(n < 10)
    <3>1. Digit(n % 10) \in Alnum /\ f[n \div 10] \in Seq(Alnum)
      BY TenToOne, Digits
    <3> QED BY <2>1, <2>3, <3>1 DEF Written
  <2> QED BY <2>2, <2>3
<1>2. G \in [[Nat -> X] \X Nat -> X]
  <2>1. \A p \in [Nat -> X] \X Nat : G[p] \in X
    <3> SUFFICES ASSUME NEW p \in [Nat -> X] \X Nat PROVE G[p] \in X
      OBVIOUS
    <3>1. p = <<p[1], p[2]>> /\ p[1] \in [Nat -> X] /\ p[2] \in Nat
      OBVIOUS
    <3> HIDE DEF G, X
    <3> QED BY <1>1, <3>1
  <2>2. G = [p \in [Nat -> X] \X Nat |-> Written(p[1], p[2])]
    OBVIOUS
  <2> HIDE DEF X, G
  <2> QED BY <2>1, <2>2
<1>3. ASSUME NEW g \in [Nat -> X], NEW h \in [Nat -> X], NEW n \in Nat,
             \A r \in Nat : rank[r] < rank[n] => g[r] = h[r]
      PROVE  G[<<g, n>>] = G[<<h, n>>]
  <2>1. n >= 10 => g[n \div 10] = h[n \div 10]
    BY <1>3, TenToOne
  <2>2. G[<<g, n>>] = Written(g, n) /\ G[<<h, n>>] = Written(h, n)
    BY <1>1
  <2>3. Written(g, n) = Written(h, n)
    BY <2>1 DEF Written
  <2> HIDE DEF G
  <2> QED BY <2>2, <2>3
<1>4. X # {}
  <2>1. <<>> \in X
    OBVIOUS
  <2> QED BY <2>1
<1>5. rank \in [Nat -> Nat]
  OBVIOUS
<1>6. PICK f : Solution(f, Nat, X, G)
  <2> HIDE DEF G, X, rank
  <2>1. Recursive(Nat, X, rank, G)
    BY <1>2, <1>3, <1>4, <1>5 DEF Recursive
  <2> QED BY <2>1, Recursion
<1>7. Is(f)
  <2>1. f \in [Nat -> X] /\ \A n \in Nat : f[n] = Written(f, n)
    <3> HIDE DEF G, X
    <3>1. f \in [Nat -> X] /\ \A n \in Nat : f[n] = G[<<f, n>>]
      BY <1>6 DEF Solution
    <3> QED BY <1>1, <3>1
  <2> HIDE DEF X
  <2> QED BY <2>1
<1>8. Is(Decimal)
  <2>1. Decimal = CHOOSE g : Is(g)
    BY DEF Decimal, Written
  <2> HIDE DEF Is
  <2> QED BY <1>7, <2>1
<1> QED BY <1>8

\* A number is written with digits only.
LEMMA DecimalOf ==
    ASSUME NEW n \in Nat
    PROVE  /\ n < 10 => Decimal[n] = <<Digit(n)>>
           /\ n >= 10 => Decimal[n] = Append(Decimal[n \div 10], Digit(n % 10))
<1>1. Decimal[n] = Written(Decimal, n)
  BY DecimalIs
<1> QED BY <1>1 DEF Written

LEMMA DecimalType == \A n \in Nat : Decimal[n] \in Seq(Alnum) /\ Decimal[n] # <<>>
<1> DEFINE Bad == {n \in Nat : ~(Decimal[n] \in Seq(Alnum) /\ Decimal[n] # <<>>)}
<1> SUFFICES ASSUME Bad # {} PROVE FALSE
  OBVIOUS
<1>1. PICK n \in Bad : \A k \in Bad : n <= k
  <2>1. Bad \in SUBSET Nat
    OBVIOUS
  <2> HIDE DEF Bad
  <2> QED BY <2>1, Least
<1>2. n \in Nat
  OBVIOUS
<1>3. CASE n < 10
  <2>1. Decimal[n] = <<Digit(n)>> /\ Digit(n) \in Alnum
    BY <1>2, <1>3, DecimalOf, Digits
  <2>2. <<Digit(n)>> \in Seq(Alnum) /\ <<Digit(n)>> # <<>>
    BY <2>1
  <2> QED BY <2>1, <2>2
<1>4. CASE n >= 10
  <2>1. n \div 10 \notin Bad
    <3>1. n \div 10 \in Nat /\ n \div 10 < n
      BY <1>2, <1>4, TenToOne
    <3> HIDE DEF Bad
    <3>2. n \div 10 \in Bad => n <= n \div 10
      BY <1>1
    <3> QED BY <1>2, <3>1, <3>2
  <2>2. Decimal[n \div 10] \in Seq(Alnum)
    BY <1>2, <2>1, TenToOne
  <2>3. Digit(n % 10) \in Alnum
    BY <1>2, TenToOne, Digits
  <2>4. Decimal[n] = Append(Decimal[n \div 10], Digit(n % 10))
    BY <1>2, <1>4, DecimalOf
  <2>5. Decimal[n] \in Seq(Alnum) /\ Decimal[n] # <<>>
    <3> DEFINE s == Decimal[n \div 10]
               d == Digit(n % 10)
    <3>1. s \in Seq(Alnum) /\ d \in Alnum /\ Decimal[n] = Append(s, d)
      BY <2>2, <2>3, <2>4
    <3> HIDE DEF s, d
    <3>2. Append(s, d) \in Seq(Alnum) /\ Len(Append(s, d)) = Len(s) + 1
      BY <3>1
    <3>3. Append(s, d) # <<>>
      BY <3>1, <3>2
    <3> QED BY <3>1, <3>2, <3>3
  <2> QED BY <2>5
<1> QED BY <1>2, <1>3, <1>4

LEMMA OneOnce == \A a, b : <<a>> = <<b>> => a = b
<1> SUFFICES ASSUME NEW a, NEW b, <<a>> = <<b>> PROVE a = b
  OBVIOUS
<1>1. <<a>>[1] = a /\ <<b>>[1] = b
  OBVIOUS
<1> QED BY <1>1

LEMMA AppendOnce ==
    ASSUME NEW C, NEW s \in Seq(C), NEW t \in Seq(C), NEW c \in C, NEW d \in C,
           Append(s, c) = Append(t, d)
    PROVE  s = t /\ c = d
<1> DEFINE a == Append(s, c)
           b == Append(t, d)
<1>1. /\ Len(a) = Len(s) + 1 /\ a[Len(s) + 1] = c /\ \A i \in 1..Len(s) : a[i] = s[i]
      /\ Len(b) = Len(t) + 1 /\ b[Len(t) + 1] = d /\ \A i \in 1..Len(t) : b[i] = t[i]
  OBVIOUS
<1>2. a = b /\ Len(s) \in Nat /\ Len(t) \in Nat
  OBVIOUS
<1> HIDE DEF a, b
<1>3. Len(s) = Len(t)
  BY <1>1, <1>2
<1>4. s = t
  BY <1>1, <1>2, <1>3, SeqEqual
<1> QED BY <1>1, <1>2, <1>3, <1>4

\* Two numbers are not written alike.
LEMMA DecimalTells ==
    ASSUME NEW m \in Nat, NEW n \in Nat, Decimal[m] = Decimal[n] PROVE m = n
<1> DEFINE Bad == {i \in Nat : \E j \in Nat : Decimal[i] = Decimal[j] /\ i # j}
<1> SUFFICES ASSUME Bad # {} PROVE FALSE
  OBVIOUS
<1>1. PICK i \in Bad : \A k \in Bad : i <= k
  <2>1. Bad \in SUBSET Nat
    OBVIOUS
  <2> HIDE DEF Bad
  <2> QED BY <2>1, Least
<1>2. PICK j \in Nat : Decimal[i] = Decimal[j] /\ i # j
  OBVIOUS
<1>3. i \in Nat
  OBVIOUS
<1>4. j \in Bad
  BY <1>2, <1>3
<1>b. \A m1, m2 \in Nat : Decimal[m1] = Decimal[m2] /\ m1 # m2 => m1 \in Bad
  OBVIOUS
<1> HIDE DEF Bad
<1>5. i < j
  <2>1. i <= j
    BY <1>1, <1>4
  <2> QED BY <1>2, <1>3, <2>1
<1> DEFINE s == Decimal[i \div 10]
           t == Decimal[j \div 10]
<1>6. s \in Seq(Alnum) /\ t \in Seq(Alnum) /\ t # <<>>
  BY <1>3, TenToOne, DecimalType
<1>7. Digit(i % 10) \in Alnum /\ Digit(j % 10) \in Alnum
  BY <1>3, TenToOne, Digits
<1>8. CASE j < 10
  <2>1. Decimal[i] = <<Digit(i)>> /\ Decimal[j] = <<Digit(j)>>
    BY <1>3, <1>5, <1>8, DecimalOf
  <2>2. Digit(i) = Digit(j)
    BY <1>2, <2>1, OneOnce, Zenon
  <2> QED BY <1>3, <1>5, <1>8, <2>2, Digits
<1>9. CASE j >= 10 /\ i < 10
  <2>1. Decimal[i] = <<Digit(i)>> /\ Decimal[j] = Append(t, Digit(j % 10))
    BY <1>3, <1>9, DecimalOf
  <2> HIDE DEF t
  <2>2. Len(Decimal[i]) = 1 /\ Len(Decimal[j]) = Len(t) + 1 /\ Len(t) # 0 /\ Len(t) \in Nat
    BY <1>6, <1>7, <2>1, EmptySeq
  <2>3. Len(Decimal[i]) = Len(Decimal[j])
    BY <1>2
  <2>4. Len(t) + 1 = 1 /\ Len(t) \in Nat
    BY <2>2, <2>3
  <2>5. Len(t) = 0
    BY <2>4
  <2> QED BY <2>2, <2>5
<1>10. CASE i >= 10
  <2>j. j >= 10
    BY <1>3, <1>5, <1>10
  <2>1. Decimal[i] = Append(s, Digit(i % 10)) /\ Decimal[j] = Append(t, Digit(j % 10))
    BY <1>3, <1>10, <2>j, DecimalOf
  <2>2. s = t /\ Digit(i % 10) = Digit(j % 10)
    <3> DEFINE c == Digit(i % 10)
               d == Digit(j % 10)
    <3>1. c \in Alnum /\ d \in Alnum /\ Append(s, c) = Append(t, d)
      BY <1>2, <1>7, <2>1
    <3> HIDE DEF c, d, s, t
    <3>2. s = t /\ c = d
      BY <1>6, <3>1, AppendOnce
    <3> QED BY <3>2 DEF c, d
  <2>3. i % 10 = j % 10
    BY <1>3, <2>2, TenToOne, Digits
  <2>4. i \div 10 # j \div 10
    BY <1>2, <1>3, <2>3, TenToOne
  <2>5. i \div 10 \in Bad
    BY <1>b, <1>3, <2>2, <2>4, TenToOne
  <2>6. i \div 10 < i /\ i \div 10 \in Nat
    BY <1>3, <1>10, TenToOne
  <2>7. i <= i \div 10
    BY <1>1, <2>5
  <2> QED BY <1>3, <2>6, <2>7
<1> QED BY <1>3, <1>8, <1>9, <1>10

-----------------------------------------------------------------------------
(* The canonical text is read in one way only *)

\* Texts of a name or of a number have no separator.
LEMMA NamesAreFree ==
    ASSUME NEW t \in Seq(Alnum)
    PROVE  t \in Seq(Char) /\ Free(":", t) /\ Free("|", t)
<1>1. Alnum \subseteq Char /\ ":" \notin Alnum /\ "|" \notin Alnum
  BY KeysAssumption DEF Char
<1>2. \A i \in 1..Len(t) : t[i] \in Alnum
  OBVIOUS
<1>3. t \in Seq(Char)
  BY <1>1, SeqMonotonic
<1> QED BY <1>1, <1>2, <1>3 DEF Free

LEMMA Separators == ":" \in Char /\ "|" \in Char
BY DEF Char

\* A text after another, and the text of a line.
Glue(x, s) == x \o s
LineText(s, n) == s \o <<":">> \o n \o <<"|">>

\* A text that ends with a line: what is before its two separators.
LEMMA Regroup ==
    ASSUME NEW x \in Seq(Char), NEW s \in Seq(Char), NEW n \in Seq(Char)
    PROVE  /\ Glue(x, LineText(s, n)) = Joined("|", Joined(":", Glue(x, s), n), <<>>)
           /\ Glue(x, s) \in Seq(Char) /\ Joined(":", Glue(x, s), n) \in Seq(Char)
           /\ LineText(s, n) \in Seq(Char) /\ Glue(x, LineText(s, n)) \in Seq(Char)
<1> DEFINE C == Char
           k == <<":">>
           l == <<"|">>
<1>1. k \in Seq(C) /\ l \in Seq(C)
  BY Separators
<1>t. x \in Seq(C) /\ s \in Seq(C) /\ n \in Seq(C)
  OBVIOUS
<1> HIDE DEF k, l, C
<1>2. /\ x \o s \in Seq(C) /\ s \o k \in Seq(C) /\ (s \o k) \o n \in Seq(C)
      /\ (x \o s) \o k \in Seq(C) /\ ((x \o s) \o k) \o n \in Seq(C)
      /\ ((s \o k) \o n) \o l \in Seq(C) /\ (((x \o s) \o k) \o n) \o l \in Seq(C)
  BY <1>1, <1>t, ConcatProperties
<1>3. x \o (((s \o k) \o n) \o l) = (x \o ((s \o k) \o n)) \o l
  <2> DEFINE a == (s \o k) \o n
  <2>1. a \in Seq(C)
    BY <1>2
  <2> HIDE DEF a
  <2>2. x \o (a \o l) = (x \o a) \o l
    BY <1>1, <1>t, <2>1
  <2> QED BY <2>2 DEF a
<1>4. x \o ((s \o k) \o n) = (x \o (s \o k)) \o n
  <2> DEFINE a == s \o k
  <2>1. a \in Seq(C)
    BY <1>2
  <2> HIDE DEF a
  <2>2. x \o (a \o n) = (x \o a) \o n
    BY <1>1, <1>t, <2>1
  <2> QED BY <2>2 DEF a
<1>5. x \o (s \o k) = (x \o s) \o k
  BY <1>1, <1>t
<1>6. ((((x \o s) \o k) \o n) \o l) \o <<>> = (((x \o s) \o k) \o n) \o l
  BY <1>2, ConcatEmptySeq
<1>7. Glue(x, LineText(s, n)) = x \o (((s \o k) \o n) \o l)
  BY DEF Glue, LineText, k, l
<1>8. Joined("|", Joined(":", Glue(x, s), n), <<>>) = ((((x \o s) \o k) \o n) \o l) \o <<>>
  BY DEF Glue, Joined, k, l
<1>9. Joined(":", Glue(x, s), n) = ((x \o s) \o k) \o n /\ LineText(s, n) = ((s \o k) \o n) \o l
  BY DEF Glue, Joined, LineText, k, l
<1>10. Glue(x, s) = x \o s
  BY DEF Glue
<1>11. (((x \o s) \o k) \o n) \o l = x \o (((s \o k) \o n) \o l)
  BY <1>3, <1>4, <1>5
<1> QED BY <1>2, <1>6, <1>7, <1>8, <1>9, <1>10, <1>11 DEF C

\* Nothing, or a text that ends with the separator of lines.
Ended(x) == x = <<>> \/ \E z \in Seq(Char) : x = Joined("|", z, <<>>)

LEMMA EmptyIsFree == \A c : Free(c, <<>>)
BY DEF Free

\* A text of lines is apart from the name that follows it.
LEMMA LinesApart ==
    ASSUME NEW x \in Seq(Char), NEW y \in Seq(Char), Ended(x), Ended(y),
           NEW s \in Seq(Alnum), NEW t \in Seq(Alnum), Glue(x, s) = Glue(y, t)
    PROVE  x = y /\ s = t
<1>1. s \in Seq(Char) /\ t \in Seq(Char) /\ Free("|", s) /\ Free("|", t)
  BY NamesAreFree
<1>2. ASSUME NEW a \in Seq(Char), NEW z \in Seq(Char), a = Joined("|", z, <<>>),
             NEW p \in Seq(Char)
      PROVE  Glue(a, p) = Joined("|", z, p)
  <2> DEFINE l == <<"|">>
  <2>1. l \in Seq(Char)
    BY Separators
  <2> HIDE DEF l
  <2>2. z \o l \in Seq(Char)
    BY <2>1, ConcatProperties
  <2>3. (z \o l) \o <<>> = z \o l
    BY <2>2, ConcatEmptySeq
  <2> QED BY <1>2, <2>3 DEF l, Joined, Glue
<1>3. ASSUME NEW z \in Seq(Char), NEW p \in Seq(Char) PROVE ~Free("|", Joined("|", z, p))
  <2> DEFINE c == "|"
  <2>1. c \in Char
    BY Separators
  <2> HIDE DEF c
  <2>2. Len(z) + 1 \in 1..Len(z \o <<c>> \o p) /\ (z \o <<c>> \o p)[Len(z) + 1] = c
    BY <2>1
  <2> QED BY <2>2 DEF Free, Joined, c
<1>4. CASE x = <<>> /\ y = <<>>
  BY <1>1, <1>4, ConcatEmptySeq DEF Glue
<1>5. ASSUME NEW z \in Seq(Char), x = Joined("|", z, <<>>), y = <<>> PROVE FALSE
  <2>1. Glue(x, s) = Joined("|", z, s)
    BY <1>1, <1>2, <1>5
  <2>2. Glue(y, t) = t
    BY <1>1, <1>5, ConcatEmptySeq DEF Glue
  <2> QED BY <1>1, <1>3, <2>1, <2>2
<1>6. ASSUME NEW z \in Seq(Char), y = Joined("|", z, <<>>), x = <<>> PROVE FALSE
  <2>1. Glue(y, t) = Joined("|", z, t)
    BY <1>1, <1>2, <1>6
  <2>2. Glue(x, s) = s
    BY <1>1, <1>6, ConcatEmptySeq DEF Glue
  <2> QED BY <1>1, <1>3, <2>1, <2>2
<1>7. ASSUME NEW u \in Seq(Char), NEW v \in Seq(Char),
             x = Joined("|", u, <<>>), y = Joined("|", v, <<>>)
      PROVE  x = y /\ s = t
  <2>1. Joined("|", u, s) = Joined("|", v, t)
    <3>1. Glue(x, s) = Joined("|", u, s)
      BY <1>1, <1>2, <1>7
    <3>2. Glue(y, t) = Joined("|", v, t)
      BY <1>1, <1>2, <1>7
    <3> QED BY <3>1, <3>2
  <2>2. u = v /\ s = t
    BY <1>1, <2>1, Separators, SplitOnce, ZenonT(60)
  <2> QED BY <1>7, <2>2
<1> QED BY <1>4, <1>5, <1>6, <1>7 DEF Ended

\* The last line of a text is known, and so is what is before it.
LEMMA LastLine ==
    ASSUME NEW x \in Seq(Char), NEW y \in Seq(Char), Ended(x), Ended(y),
           NEW s \in Seq(Alnum), NEW t \in Seq(Alnum), NEW m \in Seq(Alnum), NEW n \in Seq(Alnum),
           Glue(x, LineText(s, m)) = Glue(y, LineText(t, n))
    PROVE  x = y /\ s = t /\ m = n
<1>1. /\ s \in Seq(Char) /\ t \in Seq(Char) /\ m \in Seq(Char) /\ n \in Seq(Char)
      /\ Free(":", m) /\ Free(":", n) /\ <<>> \in Seq(Char)
  BY NamesAreFree
<1>2. /\ Glue(x, LineText(s, m)) = Joined("|", Joined(":", Glue(x, s), m), <<>>)
      /\ Glue(x, s) \in Seq(Char) /\ Joined(":", Glue(x, s), m) \in Seq(Char)
  BY <1>1, Regroup
<1>3. /\ Glue(y, LineText(t, n)) = Joined("|", Joined(":", Glue(y, t), n), <<>>)
      /\ Glue(y, t) \in Seq(Char) /\ Joined(":", Glue(y, t), n) \in Seq(Char)
  BY <1>1, Regroup
<1> DEFINE a == Joined(":", Glue(x, s), m)
           b == Joined(":", Glue(y, t), n)
<1>4. a = b
  <2>1. Joined("|", a, <<>>) = Joined("|", b, <<>>)
    BY <1>2, <1>3
  <2>2. a \in Seq(Char) /\ b \in Seq(Char)
    BY <1>2, <1>3
  <2> HIDE DEF a, b
  <2> QED BY <1>1, <2>1, <2>2, EmptyIsFree, Separators, SplitOnce, ZenonT(60)
<1>5. Glue(x, s) = Glue(y, t) /\ m = n
  BY <1>1, <1>2, <1>3, <1>4, Separators, SplitOnce, ZenonT(60)
<1> QED BY <1>5, LinesApart

-----------------------------------------------------------------------------
(* Lines as the hash and the tables see them: one per SKU *)

SumLine == [sku: {s \in SkuText : ValidSku(s)}, qty: Nat \ {0}]

LEMMA PairText ==
    ASSUME NEW l \in SumLine
    PROVE  /\ l.sku \in Seq(Alnum) /\ Decimal[l.qty] \in Seq(Alnum)
           /\ Pair(l) \in Seq(Char)
           /\ \A x \in Seq(Char) : Glue(x, Pair(l)) \in Seq(Char) /\ Ended(Glue(x, Pair(l)))
<1>1. l.sku \in Seq(Alnum)
  BY DEF SumLine, ValidSku, SkuChar
<1>2. Decimal[l.qty] \in Seq(Alnum)
  BY DecimalType DEF SumLine
<1>3. l.sku \in Seq(Char) /\ Decimal[l.qty] \in Seq(Char)
  BY <1>1, <1>2, NamesAreFree
<1> DEFINE s == l.sku
           n == Decimal[l.qty]
<1>4. Pair(l) = LineText(s, n)
  BY DEF Pair, LineText
<1>5. s \in Seq(Char) /\ n \in Seq(Char)
  BY <1>3
<1> HIDE DEF s, n
<1>6. ASSUME NEW x \in Seq(Char)
      PROVE  Glue(x, Pair(l)) \in Seq(Char) /\ Ended(Glue(x, Pair(l))) /\ Pair(l) \in Seq(Char)
  <2>1. /\ Glue(x, Pair(l)) = Joined("|", Joined(":", Glue(x, s), n), <<>>)
        /\ Joined(":", Glue(x, s), n) \in Seq(Char) /\ Pair(l) \in Seq(Char)
        /\ Glue(x, Pair(l)) \in Seq(Char)
    BY <1>4, <1>5, Regroup
  <2> QED BY <2>1 DEF Ended
<1>7. <<>> \in Seq(Char)
  OBVIOUS
<1> QED BY <1>1, <1>2, <1>6, <1>7

\* Two texts of lines that are equal have the same last line.
LEMMA PairTells ==
    ASSUME NEW k \in SumLine, NEW l \in SumLine, NEW x \in Seq(Char), NEW y \in Seq(Char),
           Ended(x), Ended(y), Glue(x, Pair(k)) = Glue(y, Pair(l))
    PROVE  x = y /\ k = l
<1>1. /\ k.sku \in Seq(Alnum) /\ Decimal[k.qty] \in Seq(Alnum)
      /\ l.sku \in Seq(Alnum) /\ Decimal[l.qty] \in Seq(Alnum)
  BY PairText
<1> DEFINE s == k.sku
           t == l.sku
           m == Decimal[k.qty]
           n == Decimal[l.qty]
<1>2. Glue(x, LineText(s, m)) = Glue(y, LineText(t, n))
  BY DEF Pair, LineText
<1>3. s \in Seq(Alnum) /\ t \in Seq(Alnum) /\ m \in Seq(Alnum) /\ n \in Seq(Alnum)
  BY <1>1
<1>4. x = y /\ s = t /\ m = n
  <2> HIDE DEF s, t, m, n
  <2> QED BY <1>2, <1>3, LastLine
<1>5. k.qty = l.qty
  BY <1>4, DecimalTells DEF SumLine
<1> QED BY <1>4, <1>5 DEF SumLine

\* A text of lines with one more line is not empty.
LEMMA LineIsThere ==
    ASSUME NEW x \in Seq(Char), NEW l \in SumLine
    PROVE  Glue(x, Pair(l)) # <<>>
<1> DEFINE k == <<":">>
           e == <<"|">>
           n == Decimal[l.qty]
<1>1. l.sku \in Seq(Char) /\ n \in Seq(Char) /\ k \in Seq(Char) /\ e \in Seq(Char) /\ e # <<>>
  BY PairText, NamesAreFree, Separators
<1>2. Glue(x, Pair(l)) = x \o (((l.sku \o k) \o n) \o e)
  BY DEF Glue, Pair
<1> HIDE DEF k, e, n
<1>3. (l.sku \o k) \o n \in Seq(Char)
  BY <1>1
<1> DEFINE a == (l.sku \o k) \o n
<1>4. Len(x \o (a \o e)) = Len(x) + (Len(a) + Len(e)) /\ x \o (a \o e) \in Seq(Char)
  <2>1. a \in Seq(Char)
    BY <1>3
  <2> HIDE DEF a
  <2> QED BY <1>1, <2>1
<1>5. Len(e) # 0 /\ Len(e) \in Nat /\ Len(x) \in Nat /\ Len(a) \in Nat
  BY <1>1, <1>3, EmptySeq, LenProperties
<1>6. Len(x \o (a \o e)) # 0
  <2> HIDE DEF a
  <2> QED BY <1>4, <1>5
<1> QED BY <1>2, <1>6, EmptySeq

\* f holds the texts of the first lines of s, one line, two lines and so on.
Part(s, f, i) == IF i = 1 THEN Pair(s[i]) ELSE Glue(f[i - 1], Pair(s[i]))
Spells(f, s) ==
    f \in [1..Len(s) -> Seq(Char)] /\ \A i \in 1..Len(s) : f[i] = Part(s, f, i)

LEMMA LinesTextIs ==
    ASSUME NEW s \in Seq(SumLine), s # <<>>
    PROVE  \E f : Spells(f, s) /\ LinesText(s) = f[Len(s)]
<1> DEFINE n == Len(s)
           S == 1..n
           X == Seq(Char)
           rank == [i \in S |-> i]
           G == [p \in [S -> X] \X S |-> Part(s, p[1], p[2])]
           Is(f) == f = [i \in S |-> Part(s, f, i)]
<1>0. /\ n \in Nat /\ n # 0 /\ s \in [S -> SumLine]
  BY EmptySeq, LenProperties
<1>1. ASSUME NEW f \in [S -> X], NEW i \in S
      PROVE  G[<<f, i>>] = Part(s, f, i) /\ G[<<f, i>>] \in X
  <2>1. G[<<f, i>>] = Part(s, f, i)
    OBVIOUS
  <2>2. s[i] \in SumLine
    BY <1>0
  <2>3. Pair(s[i]) \in Seq(Char)
    BY <2>2, PairText
  <2>4. ASSUME i # 1 PROVE Glue(f[i - 1], Pair(s[i])) \in Seq(Char)
    <3>1. i - 1 \in S
      BY <1>0, <2>4
    <3>2. f[i - 1] \in Seq(Char)
      BY <3>1
    <3> QED BY <2>2, <3>2, PairText
  <2> HIDE DEF G, n
  <2> QED BY <2>1, <2>3, <2>4 DEF Part
<1>2. G \in [[S -> X] \X S -> X]
  <2>1. \A p \in [S -> X] \X S : G[p] \in X
    <3> SUFFICES ASSUME NEW p \in [S -> X] \X S PROVE G[p] \in X
      OBVIOUS
    <3>1. p = <<p[1], p[2]>> /\ p[1] \in [S -> X] /\ p[2] \in S
      <4> HIDE DEF S, X
      <4> QED OBVIOUS
    <3> HIDE DEF G, X, S
    <3> QED BY <1>1, <3>1
  <2>2. G = [p \in [S -> X] \X S |-> Part(s, p[1], p[2])]
    OBVIOUS
  <2> HIDE DEF X, G, S
  <2> QED BY <2>1, <2>2
<1>3. ASSUME NEW g \in [S -> X], NEW h \in [S -> X], NEW i \in S,
             \A r \in S : rank[r] < rank[i] => g[r] = h[r]
      PROVE  G[<<g, i>>] = G[<<h, i>>]
  <2>1. i # 1 => g[i - 1] = h[i - 1]
    <3> SUFFICES ASSUME i # 1 PROVE g[i - 1] = h[i - 1]
      OBVIOUS
    <3>1. i - 1 \in S /\ i - 1 < i
      BY <1>0
    <3>2. rank[i - 1] < rank[i]
      BY <3>1
    <3> QED BY <1>3, <3>1, <3>2
  <2>2. G[<<g, i>>] = Part(s, g, i) /\ G[<<h, i>>] = Part(s, h, i)
    BY <1>1
  <2>3. Part(s, g, i) = Part(s, h, i)
    BY <2>1 DEF Part
  <2> HIDE DEF G
  <2> QED BY <2>2, <2>3
<1>4. X # {}
  <2>1. <<>> \in X
    OBVIOUS
  <2> QED BY <2>1
<1>5. rank \in [S -> Nat]
  BY <1>0
<1>6. PICK f : Solution(f, S, X, G)
  <2> HIDE DEF G, X, rank, S
  <2>1. Recursive(S, X, rank, G)
    BY <1>2, <1>3, <1>4, <1>5 DEF Recursive
  <2> QED BY <2>1, Recursion
<1>7. f \in [S -> X] /\ \A i \in S : f[i] = Part(s, f, i)
  <2> HIDE DEF G, X, S
  <2>1. f \in [S -> X] /\ \A i \in S : f[i] = G[<<f, i>>]
    BY <1>6 DEF Solution
  <2> QED BY <1>1, <2>1
<1>8. Is(f)
  <2> HIDE DEF X, S
  <2> QED BY <1>7
<1> DEFINE flat == CHOOSE g : Is(g)
<1>9. Is(flat)
  <2> HIDE DEF Is
  <2> QED BY <1>8
<1>10. flat = f
  <2>1. flat = [i \in S |-> Part(s, flat, i)]
    BY <1>9
  <2>d. DOMAIN f = S /\ DOMAIN flat = S
    <3> HIDE DEF flat, S, X
    <3> QED BY <1>7, <2>1
  <2> SUFFICES ASSUME NEW i0 \in S, flat[i0] # f[i0] PROVE FALSE
    <3> HIDE DEF flat, S, X
    <3>1. f = [i \in S |-> f[i]] /\ flat = [i \in S |-> flat[i]]
      BY <1>7, <2>1
    <3> QED BY <3>1
  <2> DEFINE Bad == {i \in S : flat[i] # f[i]}
  <2>2. PICK i \in Bad : \A k \in Bad : i <= k
    <3>1. Bad \in SUBSET Nat /\ i0 \in Bad
      BY <1>0
    <3> HIDE DEF Bad
    <3> QED BY <3>1, Least
  <2>3. i \in S /\ flat[i] # f[i]
    OBVIOUS
  <2>4. i # 1 => flat[i - 1] = f[i - 1]
    <3> SUFFICES ASSUME i # 1 PROVE flat[i - 1] = f[i - 1]
      OBVIOUS
    <3>1. i - 1 \in S /\ ~(i <= i - 1)
      BY <1>0, <2>3
    <3>2. i - 1 \in Bad => i <= i - 1
      <4> HIDE DEF Bad
      <4> QED BY <2>2
    <3> QED BY <3>1, <3>2
  <2>5. flat[i] = Part(s, flat, i) /\ f[i] = Part(s, f, i)
    <3> HIDE DEF flat, S, X, Bad
    <3> QED BY <1>7, <2>1, <2>3
  <2>6. Part(s, flat, i) = Part(s, f, i)
    <3> HIDE DEF flat
    <3> QED BY <2>4 DEF Part
  <2> HIDE DEF flat
  <2> QED BY <2>3, <2>5, <2>6
<1>11. LinesText(s) = flat[n]
  <2> DEFINE w == [i \in DOMAIN s |-> Pair(s[i])]
  <2>1. Len(w) = n /\ DOMAIN w = S /\ \A i \in S : w[i] = Pair(s[i])
    BY <1>0
  <2>2. FlattenSeq(w) = (CHOOSE g : g = [i \in 1..Len(w) |-> IF i = 1 THEN w[i] ELSE g[i-1] \o w[i]])[Len(w)]
    <3> HIDE DEF w
    <3> QED BY <1>0, <2>1 DEF FlattenSeq
  <2>3. \A g : [i \in 1..Len(w) |-> IF i = 1 THEN w[i] ELSE g[i-1] \o w[i]] = [i \in S |-> Part(s, g, i)]
    <3> HIDE DEF w
    <3> QED BY <2>1 DEF Part, Glue
  <2>4. FlattenSeq(w) = flat[n]
    <3> HIDE DEF w
    <3>1. (CHOOSE g : g = [i \in 1..Len(w) |-> IF i = 1 THEN w[i] ELSE g[i-1] \o w[i]]) = flat
      BY <2>3
    <3> QED BY <2>1, <2>2, <3>1
  <2> QED BY <2>4 DEF LinesText
<1> QED
  <2>1. Spells(f, s)
    BY <1>7 DEF Spells
  <2>2. LinesText(s) = f[Len(s)]
    <3> HIDE DEF flat
    <3> QED BY <1>10, <1>11
  <2> QED BY <2>1, <2>2

\* Every text of a spelling is the one before it and one line.
LEMMA SpellsLine ==
    ASSUME NEW s \in Seq(SumLine), NEW f, Spells(f, s), NEW i \in 1..Len(s)
    PROVE  /\ s[i] \in SumLine /\ f[i] \in Seq(Char) /\ f[i] # <<>> /\ Ended(f[i])
           /\ LET x == IF i = 1 THEN <<>> ELSE f[i - 1]
              IN x \in Seq(Char) /\ Ended(x) /\ f[i] = Glue(x, Pair(s[i]))
<1>1. \A j \in 1..Len(s) : s[j] \in SumLine /\ f[j] \in Seq(Char) /\ f[j] = Part(s, f, j)
  BY DEF Spells
<1> DEFINE x(j) == IF j = 1 THEN <<>> ELSE f[j - 1]
<1>2. ASSUME NEW j \in 1..Len(s)
      PROVE  x(j) \in Seq(Char) /\ f[j] = Glue(x(j), Pair(s[j]))
  <2>1. CASE j = 1
    <3>1. Pair(s[j]) \in Seq(Char)
      BY <1>1, PairText
    <3>2. Glue(<<>>, Pair(s[j])) = Pair(s[j])
      BY <3>1, ConcatEmptySeq DEF Glue
    <3> QED BY <1>1, <2>1, <3>2 DEF Part
  <2>2. CASE j # 1
    <3>1. j - 1 \in 1..Len(s)
      BY <2>2, LenProperties
    <3> QED BY <1>1, <2>2, <3>1 DEF Part
  <2> QED BY <2>1, <2>2
<1> HIDE DEF x
<1>3. \A j \in 1..Len(s) : Ended(f[j]) /\ f[j] # <<>>
  BY <1>1, <1>2, PairText, LineIsThere
<1>4. Ended(x(i))
  <2>1. CASE i = 1
    BY <2>1 DEF x, Ended
  <2>2. CASE i # 1
    <3>1. i - 1 \in 1..Len(s)
      BY <2>2, LenProperties
    <3> QED BY <1>3, <2>2, <3>1 DEF x
  <2> QED BY <2>1, <2>2
<1> QED BY <1>1, <1>2, <1>3, <1>4 DEF x

\* The first i lines of s are those of t, and no other number of lines of t.
SameStart(s, t, i, j) == i = j /\ \A k \in 1..i : s[k] = t[k]

\* Texts of lines that are equal have the same lines.
LEMMA SpellingTells ==
    ASSUME NEW s \in Seq(SumLine), NEW t \in Seq(SumLine), NEW f, NEW g,
           Spells(f, s), Spells(g, t),
           NEW i0 \in 1..Len(s), NEW j0 \in 1..Len(t), f[i0] = g[j0]
    PROVE  SameStart(s, t, i0, j0)
<1> DEFINE Bad == {i \in 1..Len(s) : \E j \in 1..Len(t) : f[i] = g[j] /\ ~SameStart(s, t, i, j)}
<1> SUFFICES ASSUME Bad # {} PROVE FALSE
  OBVIOUS
<1>1. PICK i \in Bad : \A k \in Bad : i <= k
  <2>1. Bad \in SUBSET Nat
    OBVIOUS
  <2> HIDE DEF Bad
  <2> QED BY <2>1, Least
<1>2. PICK j \in 1..Len(t) : f[i] = g[j] /\ ~SameStart(s, t, i, j)
  OBVIOUS
<1>3. i \in 1..Len(s) /\ Len(s) \in Nat /\ Len(t) \in Nat
  BY LenProperties
<1>b. \A k \in 1..Len(s), l \in 1..Len(t) : f[k] = g[l] /\ ~SameStart(s, t, k, l) => k \in Bad
  OBVIOUS
<1> HIDE DEF Bad
<1> DEFINE x == IF i = 1 THEN <<>> ELSE f[i - 1]
           y == IF j = 1 THEN <<>> ELSE g[j - 1]
<1>4. s[i] \in SumLine /\ x \in Seq(Char) /\ Ended(x) /\ f[i] = Glue(x, Pair(s[i]))
  BY <1>3, SpellsLine
<1>5. t[j] \in SumLine /\ y \in Seq(Char) /\ Ended(y) /\ g[j] = Glue(y, Pair(t[j]))
  BY <1>3, SpellsLine
<1>6. x = y /\ s[i] = t[j]
  <2> HIDE DEF x, y
  <2> QED BY <1>2, <1>4, <1>5, PairTells
<1>7. i # 1 => i - 1 \in 1..Len(s) /\ f[i - 1] # <<>>
  <2> SUFFICES ASSUME i # 1 PROVE i - 1 \in 1..Len(s) /\ f[i - 1] # <<>>
    OBVIOUS
  <2>1. i - 1 \in 1..Len(s)
    BY <1>3
  <2> QED BY <2>1, SpellsLine
<1>8. j # 1 => j - 1 \in 1..Len(t) /\ g[j - 1] # <<>>
  <2> SUFFICES ASSUME j # 1 PROVE j - 1 \in 1..Len(t) /\ g[j - 1] # <<>>
    OBVIOUS
  <2>1. j - 1 \in 1..Len(t)
    BY <1>3
  <2> QED BY <2>1, SpellsLine
<1>9. CASE i = 1
  <2>1. j = 1
    BY <1>6, <1>8, <1>9
  <2>2. SameStart(s, t, i, j)
    BY <1>6, <1>9, <2>1 DEF SameStart
  <2> QED BY <1>2, <2>2
<1>10. CASE i # 1
  <2>1. j # 1 /\ f[i - 1] = g[j - 1]
    BY <1>6, <1>7, <1>10
  <2>2. i - 1 \notin Bad
    <3>1. i - 1 \in Bad => i <= i - 1
      BY <1>1
    <3> QED BY <1>3, <3>1
  <2>3. SameStart(s, t, i - 1, j - 1)
    BY <1>b, <1>7, <1>8, <1>10, <2>1, <2>2
  <2>4. i = j
    BY <1>3, <2>3 DEF SameStart
  <2>5. \A k \in 1..i : s[k] = t[k]
    <3> SUFFICES ASSUME NEW k \in 1..i PROVE s[k] = t[k]
      OBVIOUS
    <3>1. k = i \/ k \in 1..(i - 1)
      BY <1>3
    <3> QED BY <1>6, <2>3, <2>4, <3>1 DEF SameStart
  <2> QED BY <1>2, <2>4, <2>5 DEF SameStart
<1> QED BY <1>9, <1>10

LEMMA LinesTextTells ==
    ASSUME NEW s \in Seq(SumLine), NEW t \in Seq(SumLine), s # <<>>, t # <<>>,
           LinesText(s) = LinesText(t)
    PROVE  s = t
<1>1. PICK f : Spells(f, s) /\ LinesText(s) = f[Len(s)]
  BY LinesTextIs
<1>2. PICK g : Spells(g, t) /\ LinesText(t) = g[Len(t)]
  BY LinesTextIs
<1>3. Len(s) \in 1..Len(s) /\ Len(t) \in 1..Len(t)
  BY EmptySeq, LenProperties
<1>4. SameStart(s, t, Len(s), Len(t))
  BY <1>1, <1>2, <1>3, SpellingTells
<1> QED BY <1>4, SeqEqual DEF SameStart

LEMMA LinesTextType ==
    ASSUME NEW s \in Seq(SumLine), s # <<>>
    PROVE  LinesText(s) \in Seq(Char)
<1>1. PICK f : Spells(f, s) /\ LinesText(s) = f[Len(s)]
  BY LinesTextIs
<1>2. Len(s) \in 1..Len(s)
  BY EmptySeq, LenProperties
<1> QED BY <1>1, <1>2 DEF Spells

LEMMA RegionApart ==
    ASSUME NEW u \in Seq(Char), NEW v \in Seq(Char), NEW a \in Seq(Char), NEW b \in Seq(Char),
           Free(":", a), Free(":", b), Joined(":", u, a) = Joined(":", v, b)
    PROVE  u = v /\ a = b
BY Separators, SplitOnce, ZenonT(60)

\* The text that is hashed, of sorted lines.
TextOf(lines, region) == LinesText(lines) \o Dest \o region

\* The canonical text gives back its lines, in the order of the SKUs, and the
\* region.
LEMMA CanonicalTells ==
    ASSUME NEW s \in Seq(SumLine), NEW t \in Seq(SumLine), s # <<>>, t # <<>>,
           NEW a, NEW b, ValidRegion(a), ValidRegion(b),
           TextOf(s, a) = TextOf(t, b)
    PROVE  s = t /\ a = b
<1> DEFINE x == LinesText(s)
           y == LinesText(t)
           d == <<"d", "e", "s", "t">>
           c == <<":">>
<1>1. x \in Seq(Char) /\ y \in Seq(Char)
  BY LinesTextType
<1>2. d \in Seq(Char) /\ c \in Seq(Char)
  BY KeysAssumption DEF Char
<1>3. a \in Seq(Alnum) /\ b \in Seq(Alnum)
  BY DEF ValidRegion, RegionChar
<1>4. a \in Seq(Char) /\ b \in Seq(Char) /\ Free(":", a) /\ Free(":", b)
  BY <1>3, NamesAreFree
<1>5. Dest = d \o c
  BY DEF Dest
<1>6. ASSUME NEW z \in Seq(Char) PROVE z \o Dest = (z \o d) \o c /\ z \o d \in Seq(Char)
  <2> HIDE DEF d, c
  <2>1. z \o (d \o c) = (z \o d) \o c
    BY <1>2
  <2>2. z \o d \in Seq(Char)
    BY <1>2, ConcatProperties
  <2> QED BY <1>5, <2>1, <2>2
<1>7. TextOf(s, a) = Joined(":", x \o d, a) /\ TextOf(t, b) = Joined(":", y \o d, b)
  <2>1. x \o Dest = (x \o d) \o c /\ y \o Dest = (y \o d) \o c
    BY <1>1, <1>6
  <2> QED BY <2>1 DEF Joined, TextOf
<1>8. x \o d = y \o d /\ a = b
  <2> DEFINE u == x \o d
             v == y \o d
  <2>1. u \in Seq(Char) /\ v \in Seq(Char) /\ Joined(":", u, a) = Joined(":", v, b)
    BY <1>1, <1>6, <1>7
  <2> HIDE DEF u, v
  <2>2. u = v /\ a = b
    BY <1>4, <2>1, RegionApart
  <2> QED BY <2>2 DEF u, v
<1>9. x = y
  <2>1. ASSUME NEW u \in Seq(Char), NEW v \in Seq(Char), NEW w \in Seq(Char), u \o w = v \o w
        PROVE  u = v
    <3>1. Len(u) + Len(w) = Len(v) + Len(w)
      <4>1. Len(u \o w) = Len(u) + Len(w) /\ Len(v \o w) = Len(v) + Len(w)
        OBVIOUS
      <4> QED BY <2>1, <4>1
    <3>2. Len(u) = Len(v)
      BY <3>1, LenProperties
    <3> QED BY <2>1, <3>2, PrefixOnce
  <2> HIDE DEF x, y, d
  <2> QED BY <1>1, <1>2, <1>8, <2>1
<1> QED BY <1>8, <1>9, LinesTextTells

-----------------------------------------------------------------------------
(* Aggregation, line by line *)

LEMMA MaxIs ==
    ASSUME NEW n \in Nat, NEW S \in SUBSET (1..n), S # {}
    PROVE  Max(S) \in S /\ \A y \in S : Max(S) >= y
<1> DEFINE T == {n - y : y \in S}
<1>1. T \in SUBSET Nat /\ T # {}
  <2>1. \A y \in S : n - y \in Nat
    OBVIOUS
  <2>2. PICK y : y \in S
    OBVIOUS
  <2>3. n - y \in T
    BY <2>2
  <2> QED BY <2>1, <2>3
<1>2. PICK t \in T : \A k \in T : t <= k
  <2> HIDE DEF T
  <2> QED BY <1>1, Least
<1>3. PICK x \in S : t = n - x
  OBVIOUS
<1>4. \A y \in S : x >= y
  <2> SUFFICES ASSUME NEW y \in S PROVE x >= y
    OBVIOUS
  <2>1. n - y \in T
    OBVIOUS
  <2>2. n - x <= n - y
    <3> HIDE DEF T
    <3> QED BY <1>2, <1>3, <2>1
  <2> QED BY <2>2
<1> HIDE DEF T
<1> QED BY <1>4 DEF Max

LEMMA MaxOfPrefix ==
    ASSUME NEW n \in Nat, NEW k \in 1..n
    PROVE  Max(1..k) = k /\ (1..k) \ {Max(1..k)} = 1..(k - 1)
<1>1. 1..k \in SUBSET (1..n) /\ 1..k # {} /\ k \in 1..k
  OBVIOUS
<1>2. Max(1..k) \in 1..k /\ Max(1..k) >= k
  BY <1>1, MaxIs
<1>3. Max(1..k) = k
  BY <1>2
<1> QED BY <1>3

\* One more line does not leave the lines of the tables.
LEMMA AddLineType ==
    ASSUME NEW out \in Seq(SumLine), NEW l \in SumLine
    PROVE  AddLine(out, l) \in Seq(SumLine)
<1>1. CASE \E i \in DOMAIN out : out[i].sku = l.sku
  <2> DEFINE new(i) == IF out[i].sku = l.sku THEN [out[i] EXCEPT !.qty = @ + l.qty] ELSE out[i]
  <2>1. ASSUME NEW i \in 1..Len(out) PROVE new(i) \in SumLine
    <3>1. out[i] \in SumLine
      OBVIOUS
    <3>2. /\ out[i].qty \in Nat \ {0} /\ l.qty \in Nat \ {0}
          /\ out[i].sku \in {s \in SkuText : ValidSku(s)}
      BY <3>1 DEF SumLine
    <3>3. out[i].qty + l.qty \in Nat \ {0}
      BY <3>2
    <3>4. [out[i] EXCEPT !.qty = @ + l.qty] \in SumLine
      BY <3>1, <3>3 DEF SumLine
    <3> QED BY <3>1, <3>4
  <2>2. AddLine(out, l) = [i \in 1..Len(out) |-> new(i)]
    <3>1. DOMAIN out = 1..Len(out)
      OBVIOUS
    <3> QED BY <1>1, <3>1 DEF AddLine
  <2> HIDE DEF new
  <2>3. Len(out) \in Nat
    BY LenProperties
  <2> QED BY <2>1, <2>2, <2>3
<1>2. CASE ~\E i \in DOMAIN out : out[i].sku = l.sku
  BY <1>2 DEF AddLine
<1> QED BY <1>1, <1>2

\* f holds what the lines at some positions add up to.
FoldPart(items, f, s) ==
    IF s = {} THEN <<>> ELSE AddLine(f[s \ {Max(s)}], items[Max(s)])
Folds(f, items) ==
    /\ f \in [SUBSET (1..Len(items)) -> Seq(SumLine)]
    /\ \A s \in SUBSET (1..Len(items)) : f[s] = FoldPart(items, f, s)

LEMMA FoldIs ==
    ASSUME NEW items \in Seq(SumLine)
    PROVE  \E f : Folds(f, items) /\ AggregateLines(items) = f[1..Len(items)]
<1> DEFINE n == Len(items)
           S == SUBSET (1..n)
           X == Seq(SumLine)
           rank == [s \in S |-> Cardinality(s)]
           G == [p \in [S -> X] \X S |-> FoldPart(items, p[1], p[2])]
           Is(f) == f = [s \in S |-> FoldPart(items, f, s)]
<1>0. n \in Nat /\ items \in [1..n -> SumLine] /\ DOMAIN items = 1..n
  BY LenProperties
<1> HIDE DEF n
<1>r. ASSUME NEW s \in S, s # {}
      PROVE  /\ Max(s) \in 1..n /\ items[Max(s)] \in SumLine
             /\ s \ {Max(s)} \in S /\ Cardinality(s \ {Max(s)}) < Cardinality(s)
  <2>1. Max(s) \in s
    BY <1>0, <1>r, MaxIs
  <2>2. IsFiniteSet(s)
    <3>1. IsFiniteSet(1..n)
      BY <1>0, FS_Interval
    <3>2. s \in SUBSET (1..n)
      OBVIOUS
    <3> HIDE DEF S
    <3> QED BY <3>1, <3>2, FS_Subset
  <2>3. Cardinality(s \ {Max(s)}) = Cardinality(s) - 1 /\ Cardinality(s) \in Nat
    BY <2>1, <2>2, FS_RemoveElement, FS_CardinalityType
  <2>4. Cardinality(s \ {Max(s)}) < Cardinality(s)
    BY <2>3
  <2>5. Max(s) \in 1..n /\ s \ {Max(s)} \in S
    BY <2>1
  <2> QED BY <1>0, <2>4, <2>5
<1>1. ASSUME NEW f \in [S -> X], NEW s \in S
      PROVE  G[<<f, s>>] = FoldPart(items, f, s) /\ G[<<f, s>>] \in X
  <2>1. G[<<f, s>>] = FoldPart(items, f, s)
    OBVIOUS
  <2>3. <<>> \in Seq(SumLine)
    OBVIOUS
  <2>4. ASSUME s # {} PROVE AddLine(f[s \ {Max(s)}], items[Max(s)]) \in X
    <3>1. s \ {Max(s)} \in S /\ items[Max(s)] \in SumLine
      BY <1>r, <2>4
    <3>2. f[s \ {Max(s)}] \in Seq(SumLine)
      BY <3>1
    <3> QED BY <3>1, <3>2, AddLineType
  <2> HIDE DEF G
  <2> QED BY <2>1, <2>3, <2>4 DEF FoldPart
<1>2. G \in [[S -> X] \X S -> X]
  <2>1. \A p \in [S -> X] \X S : G[p] \in X
    <3> SUFFICES ASSUME NEW p \in [S -> X] \X S PROVE G[p] \in X
      OBVIOUS
    <3>1. p = <<p[1], p[2]>> /\ p[1] \in [S -> X] /\ p[2] \in S
      <4> HIDE DEF S, X
      <4> QED OBVIOUS
    <3> HIDE DEF G, X, S
    <3> QED BY <1>1, <3>1
  <2>2. G = [p \in [S -> X] \X S |-> FoldPart(items, p[1], p[2])]
    OBVIOUS
  <2> HIDE DEF X, G, S
  <2> QED BY <2>1, <2>2
<1>3. ASSUME NEW g \in [S -> X], NEW h \in [S -> X], NEW s \in S,
             \A r \in S : rank[r] < rank[s] => g[r] = h[r]
      PROVE  G[<<g, s>>] = G[<<h, s>>]
  <2>1. s # {} => g[s \ {Max(s)}] = h[s \ {Max(s)}]
    <3> SUFFICES ASSUME s # {} PROVE g[s \ {Max(s)}] = h[s \ {Max(s)}]
      OBVIOUS
    <3>1. s \ {Max(s)} \in S /\ rank[s \ {Max(s)}] < rank[s]
      BY <1>r
    <3> HIDE DEF rank
    <3> QED BY <1>3, <3>1
  <2>2. G[<<g, s>>] = FoldPart(items, g, s) /\ G[<<h, s>>] = FoldPart(items, h, s)
    BY <1>1
  <2>3. FoldPart(items, g, s) = FoldPart(items, h, s)
    BY <2>1 DEF FoldPart
  <2> HIDE DEF G
  <2> QED BY <2>2, <2>3
<1>4. X # {}
  <2>1. <<>> \in X
    OBVIOUS
  <2> QED BY <2>1
<1>5. rank \in [S -> Nat]
  <2>1. ASSUME NEW s \in S PROVE Cardinality(s) \in Nat
    <3>1. IsFiniteSet(1..n)
      BY <1>0, FS_Interval
    <3> QED BY <3>1, FS_Subset, FS_CardinalityType
  <2> QED BY <2>1
<1>6. PICK f : Solution(f, S, X, G)
  <2> HIDE DEF G, X, rank, S
  <2>1. Recursive(S, X, rank, G)
    BY <1>2, <1>3, <1>4, <1>5 DEF Recursive
  <2> QED BY <2>1, Recursion
<1>7. f \in [S -> X] /\ \A s \in S : f[s] = FoldPart(items, f, s)
  <2> HIDE DEF G, X, S
  <2>1. f \in [S -> X] /\ \A s \in S : f[s] = G[<<f, s>>]
    BY <1>6 DEF Solution
  <2> QED BY <1>1, <2>1
<1>8. Is(f)
  <2> HIDE DEF X, S
  <2> QED BY <1>7
<1> DEFINE iter == CHOOSE g : Is(g)
<1>9. iter = [s \in S |-> FoldPart(items, iter, s)]
  <2>1. Is(iter)
    <3> HIDE DEF Is
    <3> QED BY <1>8
  <2> QED BY <2>1
<1>11. AggregateLines(items) = iter[1..n]
  BY <1>0 DEF AggregateLines, FoldLeft, MapThenFoldSet, FoldPart
<1> HIDE DEF iter
<1>10. iter = f
  <2>d. f = [s \in S |-> f[s]] /\ iter = [s \in S |-> iter[s]]
    <3> HIDE DEF S, X
    <3> QED BY <1>7, <1>9
  <2> SUFFICES ASSUME NEW s0 \in S, iter[s0] # f[s0] PROVE FALSE
    <3> HIDE DEF S, X
    <3> QED BY <2>d
  <2> DEFINE Bad == {rank[s] : s \in {s \in S : iter[s] # f[s]}}
  <2>2. PICK m \in Bad : \A k \in Bad : m <= k
    <3>1. rank[s0] \in Bad
      OBVIOUS
    <3>2. Bad \in SUBSET Nat
      <4> HIDE DEF rank, S
      <4> QED BY <1>5
    <3> HIDE DEF Bad, rank
    <3> QED BY <3>1, <3>2, Least
  <2>3. PICK s \in S : m = rank[s] /\ iter[s] # f[s]
    BY <2>2
  <2>4. s # {} => iter[s \ {Max(s)}] = f[s \ {Max(s)}]
    <3> SUFFICES ASSUME s # {}, iter[s \ {Max(s)}] # f[s \ {Max(s)}] PROVE FALSE
      OBVIOUS
    <3> DEFINE r == s \ {Max(s)}
    <3>1. r \in S /\ rank[r] < rank[s] /\ rank[r] \in Nat /\ rank[s] \in Nat
      BY <1>r, <1>5
    <3>2. rank[r] \in Bad
      <4> HIDE DEF rank
      <4> QED BY <3>1
    <3> HIDE DEF Bad, rank, r
    <3>3. rank[s] <= rank[r]
      BY <2>2, <2>3, <3>2
    <3> QED BY <3>1, <3>3
  <2>5. iter[s] = FoldPart(items, iter, s) /\ f[s] = FoldPart(items, f, s)
    <3>1. s \in S
      OBVIOUS
    <3> HIDE DEF S, X, Bad, rank
    <3> QED BY <1>7, <1>9, <3>1
  <2>6. FoldPart(items, iter, s) = FoldPart(items, f, s)
    BY <2>4 DEF FoldPart
  <2> QED BY <2>3, <2>5, <2>6
<1> QED
  <2>1. Folds(f, items)
    BY <1>7 DEF Folds, n
  <2> QED BY <1>10, <1>11, <2>1 DEF n

\* g holds what the first lines add up to, none, one, two and so on.
Adds(g, items) ==
    /\ g \in [0..Len(items) -> Seq(SumLine)] /\ g[0] = <<>>
    /\ \A k \in 1..Len(items) : g[k] = AddLine(g[k - 1], items[k])

LEMMA AggregateIs ==
    ASSUME NEW items \in Seq(SumLine)
    PROVE  \E g : Adds(g, items) /\ AggregateLines(items) = g[Len(items)]
<1> DEFINE n == Len(items)
<1>1. PICK f : Folds(f, items) /\ AggregateLines(items) = f[1..n]
  BY FoldIs
<1>2. n \in Nat
  BY LenProperties
<1>3. /\ f \in [SUBSET (1..n) -> Seq(SumLine)]
      /\ \A s \in SUBSET (1..n) : f[s] = FoldPart(items, f, s)
  BY <1>1 DEF Folds
<1> HIDE DEF n
<1> DEFINE g == [k \in 0..n |-> f[1..k]]
<1>4. g \in [0..n -> Seq(SumLine)]
  BY <1>2, <1>3
<1>5. g[0] = <<>>
  <2>1. 1..0 = {}
    OBVIOUS
  <2>2. g[0] = f[1..0]
    BY <1>2
  <2>3. f[{}] = <<>>
    BY <1>3 DEF FoldPart
  <2> HIDE DEF g
  <2> QED BY <2>1, <2>2, <2>3
<1>6. ASSUME NEW k \in 1..n PROVE g[k] = AddLine(g[k - 1], items[k])
  <2>1. Max(1..k) = k /\ (1..k) \ {Max(1..k)} = 1..(k - 1)
    BY <1>2, MaxOfPrefix
  <2>2. 1..k \in SUBSET (1..n) /\ k \in 1..k /\ k \in 0..n /\ k - 1 \in 0..n
    <3>1. \A j \in 1..k : j \in 1..n
      BY <1>2
    <3> QED BY <1>2, <3>1
  <2>3. f[1..k] = AddLine(f[1..(k - 1)], items[k])
    BY <1>3, <2>1, <2>2 DEF FoldPart
  <2> QED BY <2>2, <2>3
<1>7. AggregateLines(items) = g[n]
  BY <1>1, <1>2
<1> HIDE DEF g
<1> QED BY <1>4, <1>5, <1>6, <1>7 DEF Adds, n

-----------------------------------------------------------------------------
(* The merged lines are what the request asks for *)

\* A line that passed validation.
AskLine == {l \in SumLine : l.qty <= MaxQuantity}

\* The units of a SKU that the first k lines ask for.
UnitsTo(items, k, s) ==
    {u \in (1..k) \X (1..MaxQuantity) : items[u[1]].sku = s /\ u[2] <= items[u[1]].qty}

LEMMA UnitsAreFinite ==
    ASSUME NEW items, NEW k \in Nat, NEW s
    PROVE  IsFiniteSet(UnitsTo(items, k, s)) /\ Cardinality(UnitsTo(items, k, s)) \in Nat
<1>1. IsFiniteSet(1..k) /\ IsFiniteSet(1..MaxQuantity)
  BY KeysAssumption, FS_Interval
<1>2. IsFiniteSet((1..k) \X (1..MaxQuantity))
  BY <1>1, FS_Product
<1>3. UnitsTo(items, k, s) \subseteq (1..k) \X (1..MaxQuantity)
  BY DEF UnitsTo
<1>4. IsFiniteSet(UnitsTo(items, k, s))
  BY <1>2, <1>3, FS_Subset
<1> QED BY <1>4, FS_CardinalityType

\* The next line adds its quantity to the units of its SKU and to no other.
LEMMA UnitsStep ==
    ASSUME NEW items \in Seq(AskLine), NEW k \in 1..Len(items), NEW s
    PROVE  Cardinality(UnitsTo(items, k, s)) =
              Cardinality(UnitsTo(items, k - 1, s)) +
              (IF items[k].sku = s THEN items[k].qty ELSE 0)
<1> DEFINE q == items[k].qty
           old == UnitsTo(items, k - 1, s)
           new == {k} \X (1..q)
<1>1. q \in 1..MaxQuantity /\ k \in Nat /\ k >= 1 /\ k - 1 \in Nat
  <2>1. items[k] \in AskLine
    OBVIOUS
  <2>2. q \in Nat \ {0} /\ q <= MaxQuantity
    BY <2>1 DEF AskLine, SumLine
  <2>3. k \in Nat /\ k >= 1
    BY LenProperties
  <2> HIDE DEF q
  <2> QED BY <2>2, <2>3, KeysAssumption
<1>2. IsFiniteSet(old) /\ Cardinality(old) \in Nat
  BY <1>1, UnitsAreFinite
<1>3. 1..k = (1..(k - 1)) \cup {k} /\ k \notin 1..(k - 1)
  BY <1>1
<1>4. CASE items[k].sku = s
  <2>1. UnitsTo(items, k, s) = old \cup new
    <3>1. ASSUME NEW i, NEW j
          PROVE  <<i, j>> \in UnitsTo(items, k, s) <=> <<i, j>> \in old \cup new
      <4>1. <<i, j>> \in UnitsTo(items, k, s) <=>
               i \in 1..k /\ j \in 1..MaxQuantity /\ items[i].sku = s /\ j <= items[i].qty
        BY DEF UnitsTo
      <4>2. <<i, j>> \in old <=>
               i \in 1..(k - 1) /\ j \in 1..MaxQuantity /\ items[i].sku = s /\ j <= items[i].qty
        BY DEF UnitsTo
      <4>3. <<i, j>> \in new <=> i = k /\ j \in 1..q
        OBVIOUS
      <4>4. j \in 1..q <=> j \in 1..MaxQuantity /\ j <= items[k].qty
        <5>1. j \in 1..q <=> j \in 1..MaxQuantity /\ j <= q
          <6> HIDE DEF q
          <6> QED BY <1>1, KeysAssumption
        <5> QED BY <5>1
      <4> HIDE DEF old, new, q
      <4> QED BY <1>3, <1>4, <4>1, <4>2, <4>3, <4>4
    <3>2. \A u \in UnitsTo(items, k, s) : u = <<u[1], u[2]>>
      BY DEF UnitsTo
    <3>3. \A u \in old \cup new : u = <<u[1], u[2]>>
      BY DEF UnitsTo
    <3> HIDE DEF old, new
    <3> QED BY <3>1, <3>2, <3>3
  <2>2. old \cap new = {}
    <3>1. \A u \in old : u[1] \in 1..(k - 1)
      BY DEF UnitsTo
    <3>2. \A u \in new : u[1] = k
      OBVIOUS
    <3> HIDE DEF old, new
    <3> QED BY <1>3, <3>1, <3>2
  <2>3. IsFiniteSet(new) /\ Cardinality(new) = q
    <3>1. IsFiniteSet({k}) /\ Cardinality({k}) = 1 /\ IsFiniteSet(1..q) /\ Cardinality(1..q) = q
      <4> HIDE DEF q
      <4>1. Cardinality(1..q) = q /\ IsFiniteSet(1..q)
        BY <1>1, FS_Interval
      <4> QED BY <4>1, FS_Singleton
    <3>2. IsFiniteSet(new) /\ Cardinality(new) = 1 * q
      <4> DEFINE A == {k}
                 B == 1..q
      <4>1. IsFiniteSet(A) /\ Cardinality(A) = 1 /\ IsFiniteSet(B) /\ Cardinality(B) = q
        BY <3>1
      <4> HIDE DEF A, B, q
      <4>2. IsFiniteSet(A \X B) /\ Cardinality(A \X B) = Cardinality(A) * Cardinality(B)
        BY <4>1, FS_Product
      <4> QED BY <4>1, <4>2 DEF A, B
    <3> HIDE DEF new, q
    <3> QED BY <1>1, <3>2
  <2>4. Cardinality(old \cup new) = Cardinality(old) + Cardinality(new) - Cardinality({})
    <3> HIDE DEF old, new
    <3> QED BY <1>2, <2>2, <2>3, FS_Union
  <2>5. Cardinality({}) = 0
    BY FS_EmptySet
  <2> HIDE DEF old, new, q
  <2>6. Cardinality(UnitsTo(items, k, s)) = Cardinality(old) + q
    BY <1>1, <1>2, <2>1, <2>3, <2>4, <2>5
  <2> QED BY <1>4, <2>6 DEF old, q
<1>5. CASE items[k].sku # s
  <2>1. UnitsTo(items, k, s) = old
    BY <1>3, <1>5 DEF UnitsTo
  <2> HIDE DEF old
  <2>2. Cardinality(UnitsTo(items, k, s)) = Cardinality(old) + 0
    BY <1>2, <2>1
  <2> QED BY <1>5, <2>2 DEF old
<1> QED BY <1>4, <1>5

\* out holds what the first k lines ask for, one line per SKU.
Merged(out, items, k) ==
    /\ out \in Seq(SumLine)
    /\ \A i, j \in 1..Len(out) : out[i].sku = out[j].sku => i = j
    /\ \A i \in 1..Len(out) : \E j \in 1..k : out[i].sku = items[j].sku
    /\ \A j \in 1..k : \E i \in 1..Len(out) : out[i].sku = items[j].sku
    /\ \A i \in 1..Len(out) : out[i].qty = Cardinality(UnitsTo(items, k, out[i].sku))

LEMMA NoUnits ==
    ASSUME NEW items, NEW k \in Nat, NEW s, \A j \in 1..k : items[j].sku # s
    PROVE  Cardinality(UnitsTo(items, k, s)) = 0
<1>1. UnitsTo(items, k, s) = {}
  BY DEF UnitsTo
<1> QED BY <1>1, FS_EmptySet

LEMMA MergeStep ==
    ASSUME NEW items \in Seq(AskLine), NEW k \in 1..Len(items), NEW out,
           Merged(out, items, k - 1)
    PROVE  Merged(AddLine(out, items[k]), items, k)
<1> DEFINE l == items[k]
           new == AddLine(out, l)
<1>1. l \in SumLine /\ out \in Seq(SumLine) /\ k \in Nat /\ k >= 1 /\ Len(out) \in Nat
      /\ DOMAIN out = 1..Len(out)
  <2>1. items[k] \in AskLine
    OBVIOUS
  <2>2. out \in Seq(SumLine)
    BY DEF Merged
  <2> QED BY <2>1, <2>2, LenProperties DEF AskLine
<1>2. new \in Seq(SumLine)
  <2> HIDE DEF l
  <2> QED BY <1>1, AddLineType
<1>k. 1..k = (1..(k - 1)) \cup {k}
  BY <1>1
<1>u. \A s : Cardinality(UnitsTo(items, k, s)) =
               Cardinality(UnitsTo(items, k - 1, s)) + (IF l.sku = s THEN l.qty ELSE 0)
  BY UnitsStep
<1>n. \A s : Cardinality(UnitsTo(items, k - 1, s)) \in Nat
  BY <1>1, UnitsAreFinite
<1>q. l.qty \in Nat /\ \A i \in 1..Len(out) : out[i].qty \in Nat
  <2>1. \A i \in 1..Len(out) : out[i] \in SumLine
    BY <1>1
  <2> HIDE DEF l
  <2> QED BY <1>1, <2>1 DEF SumLine
<1>m. /\ \A i, j \in 1..Len(out) : out[i].sku = out[j].sku => i = j
      /\ \A i \in 1..Len(out) : \E j \in 1..(k - 1) : out[i].sku = items[j].sku
      /\ \A j \in 1..(k - 1) : \E i \in 1..Len(out) : out[i].sku = items[j].sku
      /\ \A i \in 1..Len(out) : out[i].qty = Cardinality(UnitsTo(items, k - 1, out[i].sku))
  BY DEF Merged
<1>3. CASE \E i \in DOMAIN out : out[i].sku = l.sku
  <2>1. PICK o \in 1..Len(out) : out[o].sku = l.sku
    BY <1>1, <1>3
  <2>2. new = [i \in 1..Len(out) |-> IF out[i].sku = l.sku
                               THEN [out[i] EXCEPT !.qty = @ + l.qty] ELSE out[i]]
    BY <1>1, <1>3 DEF AddLine
  <2>3. Len(new) = Len(out)
    <3> HIDE DEF new, l
    <3> QED BY <1>1, <1>2, <2>2
  <2>4. ASSUME NEW i \in 1..Len(out)
        PROVE  /\ new[i].sku = out[i].sku
               /\ new[i].qty = out[i].qty + (IF l.sku = out[i].sku THEN l.qty ELSE 0)
    <3>1. new[i] = IF out[i].sku = l.sku THEN [out[i] EXCEPT !.qty = @ + l.qty] ELSE out[i]
      <4> HIDE DEF new
      <4> QED BY <2>2
    <3>2. out[i] \in SumLine
      BY <1>1
    <3> HIDE DEF new, l
    <3> QED BY <1>1, <1>q, <3>1, <3>2 DEF SumLine
  <2> HIDE DEF new, l
  <2>5. ASSUME NEW i \in 1..Len(new)
        PROVE  new[i].qty = Cardinality(UnitsTo(items, k, new[i].sku))
    <3>1. i \in 1..Len(out)
      BY <2>3
    <3>2. out[i].qty = Cardinality(UnitsTo(items, k - 1, out[i].sku))
      BY <1>m, <3>1
    <3>3. Cardinality(UnitsTo(items, k, out[i].sku)) =
             Cardinality(UnitsTo(items, k - 1, out[i].sku)) + (IF l.sku = out[i].sku THEN l.qty ELSE 0)
      BY <1>u
    <3> QED BY <2>4, <3>1, <3>2, <3>3
  <2>6. \A i, j \in 1..Len(new) : new[i].sku = new[j].sku => i = j
    BY <1>m, <2>3, <2>4
  <2>7. \A i \in 1..Len(new) : \E j \in 1..k : new[i].sku = items[j].sku
    BY <1>k, <1>m, <2>3, <2>4
  <2>8. \A j \in 1..k : \E i \in 1..Len(new) : new[i].sku = items[j].sku
    BY <1>k, <1>m, <2>1, <2>3, <2>4 DEF l
  <2> QED BY <1>2, <2>5, <2>6, <2>7, <2>8 DEF Merged, new, l
<1>4. CASE ~\E i \in DOMAIN out : out[i].sku = l.sku
  <2>1. new = Append(out, l)
    BY <1>4 DEF AddLine
  <2>2. \A i \in 1..Len(out) : out[i].sku # l.sku
    BY <1>1, <1>4
  <2>3. \A j \in 1..(k - 1) : items[j].sku # l.sku
    BY <1>m, <2>2
  <2>4. Cardinality(UnitsTo(items, k - 1, l.sku)) = 0
    BY <1>1, <2>3, NoUnits
  <2> HIDE DEF new, l
  <2>5. /\ Len(new) = Len(out) + 1 /\ new[Len(out) + 1] = l
        /\ \A i \in 1..Len(out) : new[i] = out[i]
    BY <1>1, <2>1
  <2>6. \A i \in 1..Len(new) : i \in 1..Len(out) \/ i = Len(out) + 1
    BY <1>1, <2>5
  <2>i. \A i \in 1..Len(out) : i \in 1..Len(new)
    BY <1>1, <2>5
  <2>o. \A i \in 1..Len(out) : out[i].sku # l.sku /\ new[i] = out[i]
    BY <2>2, <2>5
  <2>7. \A i \in 1..Len(new) : new[i].qty = Cardinality(UnitsTo(items, k, new[i].sku))
    <3>1. ASSUME NEW i \in 1..Len(out)
          PROVE  new[i].qty = Cardinality(UnitsTo(items, k, new[i].sku))
      <4>1. Cardinality(UnitsTo(items, k, out[i].sku)) =
               Cardinality(UnitsTo(items, k - 1, out[i].sku)) + 0
        BY <1>u, <2>o
      <4>2. out[i].qty = Cardinality(UnitsTo(items, k - 1, out[i].sku)) /\ new[i] = out[i]
        BY <1>m, <2>o
      <4>3. Cardinality(UnitsTo(items, k - 1, out[i].sku)) \in Nat
        BY <1>n
      <4> QED BY <4>1, <4>2, <4>3
    <3>2. l.qty = Cardinality(UnitsTo(items, k, l.sku))
      BY <1>u, <1>q, <2>4
    <3>3. ASSUME NEW i \in 1..Len(new)
          PROVE  new[i].qty = Cardinality(UnitsTo(items, k, new[i].sku))
      <4>1. CASE i \in 1..Len(out)
        BY <3>1, <4>1
      <4>2. CASE i = Len(out) + 1
        BY <2>5, <3>2, <4>2
      <4> QED BY <2>6, <4>1, <4>2
    <3> QED BY <3>3
  <2>8. ASSUME NEW i \in 1..Len(new), NEW j \in 1..Len(new), new[i].sku = new[j].sku
        PROVE  i = j
    <3>1. CASE i \in 1..Len(out) /\ j \in 1..Len(out)
      <4>1. out[i].sku = out[j].sku
        BY <2>8, <2>o, <3>1
      <4>2. \A x, y \in 1..Len(out) : out[x].sku = out[y].sku => x = y
        BY <1>m
      <4> QED BY <3>1, <4>1, <4>2
    <3>2. CASE i \in 1..Len(out) /\ j = Len(out) + 1
      BY <2>5, <2>8, <2>o, <3>2
    <3>3. CASE i = Len(out) + 1 /\ j \in 1..Len(out)
      BY <2>5, <2>8, <2>o, <3>3
    <3>4. CASE i = Len(out) + 1 /\ j = Len(out) + 1
      BY <3>4
    <3> QED BY <2>6, <3>1, <3>2, <3>3, <3>4
  <2>9. ASSUME NEW i \in 1..Len(new)
        PROVE  \E j \in 1..k : new[i].sku = items[j].sku
    <3>1. CASE i \in 1..Len(out)
      <4>1. PICK j \in 1..(k - 1) : out[i].sku = items[j].sku
        BY <1>m, <3>1
      <4>2. j \in 1..k /\ new[i] = out[i]
        BY <1>k, <2>o, <3>1
      <4> QED BY <4>1, <4>2
    <3>2. CASE i = Len(out) + 1
      BY <1>k, <2>5, <3>2 DEF l
    <3> QED BY <2>6, <3>1, <3>2
  <2>10. ASSUME NEW j \in 1..k
         PROVE  \E i \in 1..Len(new) : new[i].sku = items[j].sku
    <3>1. Len(out) + 1 \in 1..Len(new)
      BY <1>1, <2>5
    <3>2. CASE j = k
      BY <2>5, <3>1, <3>2 DEF l
    <3>3. CASE j \in 1..(k - 1)
      <4>1. PICK i \in 1..Len(out) : out[i].sku = items[j].sku
        BY <1>m, <3>3
      <4> QED BY <2>i, <2>o, <4>1
    <3> QED BY <1>k, <3>2, <3>3
  <2> QED BY <1>2, <2>7, <2>8, <2>9, <2>10 DEF Merged, new, l
<1> QED BY <1>3, <1>4

LEMMA AggregateMerges ==
    ASSUME NEW items \in Seq(AskLine)
    PROVE  Merged(AggregateLines(items), items, Len(items))
<1>1. items \in Seq(SumLine)
  <2>1. AskLine \subseteq SumLine
    BY DEF AskLine
  <2> QED BY <2>1, SeqMonotonic
<1>2. PICK g : Adds(g, items) /\ AggregateLines(items) = g[Len(items)]
  BY <1>1, AggregateIs
<1>3. /\ Len(items) \in Nat /\ g[0] = <<>>
      /\ \A k \in 1..Len(items) : g[k] = AddLine(g[k - 1], items[k])
  BY <1>2, LenProperties DEF Adds
<1> DEFINE Bad == {k \in 0..Len(items) : ~Merged(g[k], items, k)}
<1> SUFFICES Bad = {}
  BY <1>2, <1>3
<1> SUFFICES ASSUME Bad # {} PROVE FALSE
  OBVIOUS
<1>4. PICK k \in Bad : \A j \in Bad : k <= j
  <2>1. Bad \in SUBSET Nat
    OBVIOUS
  <2> HIDE DEF Bad
  <2> QED BY <2>1, Least
<1>5. k \in 0..Len(items) /\ ~Merged(g[k], items, k)
  OBVIOUS
<1>6. k # 0
  <2>1. Merged(<<>>, items, 0)
    <3>1. <<>> \in Seq(SumLine) /\ Len(<<>>) = 0
      OBVIOUS
    <3> QED BY <3>1 DEF Merged
  <2> QED BY <1>3, <1>5, <2>1
<1>7. Merged(g[k - 1], items, k - 1)
  <2>1. k - 1 \in 0..Len(items) /\ ~(k <= k - 1)
    BY <1>3, <1>5, <1>6
  <2>2. k - 1 \notin Bad
    <3> HIDE DEF Bad
    <3> QED BY <1>4, <2>1
  <2> QED BY <2>1, <2>2
<1>8. k \in 1..Len(items)
  BY <1>3, <1>5, <1>6
<1> QED BY <1>3, <1>5, <1>7, <1>8, MergeStep

-----------------------------------------------------------------------------
(* Sorting: merged lines have one order by SKU *)

Distinct(s) == \A i, j \in 1..Len(s) : s[i].sku = s[j].sku => i = j
Rising(s) == \A i, j \in 1..Len(s) : i < j => SkuRank[s[i].sku] < SkuRank[s[j].sku]
Within(s, t) == \A i \in 1..Len(s) : \E j \in 1..Len(t) : s[i] = t[j]

\* The lines of s before line i in the order of the SKUs.
Below(s, i) == {j \in 1..Len(s) : Before(s[j], s[i])}

LEMMA SumLineFields ==
    ASSUME NEW s \in Seq(SumLine), NEW i \in 1..Len(s)
    PROVE  s[i] \in SumLine /\ s[i].sku \in SkuText /\ SkuRank[s[i].sku] \in Nat
<1>1. s[i] \in SumLine
  OBVIOUS
<1>2. s[i].sku \in SkuText
  BY <1>1 DEF SumLine
<1> QED BY <1>1, <1>2, KeysAssumption

LEMMA BelowSize ==
    ASSUME NEW s \in Seq(SumLine), NEW i \in 1..Len(s)
    PROVE  /\ IsFiniteSet(Below(s, i)) /\ Cardinality(Below(s, i)) \in 0..(Len(s) - 1)
           /\ \A j \in 1..Len(s) : Before(s[i], s[j]) =>
                 Cardinality(Below(s, i)) < Cardinality(Below(s, j))
<1> DEFINE n == Len(s)
<1>1. n \in Nat /\ i \in 1..n
  BY LenProperties
<1>2. IsFiniteSet(1..n) /\ Cardinality(1..n) = n
  <2> HIDE DEF n
  <2> QED BY <1>1, FS_Interval
<1>3. \A j \in 1..n : IsFiniteSet(Below(s, j)) /\ Cardinality(Below(s, j)) \in Nat
  <2>1. \A j \in 1..n : Below(s, j) \subseteq 1..n
    BY DEF Below
  <2> QED BY <1>2, <2>1, FS_Subset, FS_CardinalityType
<1>4. \A j \in 1..n : SkuRank[s[j].sku] \in Nat
  BY SumLineFields
<1>5. i \notin Below(s, i)
  BY <1>1, <1>4 DEF Below, Before
<1>6. Cardinality(Below(s, i) \cup {i}) = Cardinality(Below(s, i)) + 1 /\ IsFiniteSet(Below(s, i) \cup {i})
  BY <1>1, <1>3, <1>5, FS_AddElement
<1>7. Below(s, i) \cup {i} \subseteq 1..n
  BY <1>1 DEF Below
<1>8. Cardinality(Below(s, i)) + 1 <= n
  BY <1>2, <1>6, <1>7, FS_Subset
<1>9. ASSUME NEW j \in 1..n, Before(s[i], s[j])
      PROVE  Cardinality(Below(s, i)) < Cardinality(Below(s, j))
  <2>1. Below(s, i) \cup {i} \subseteq Below(s, j)
    <3>1. \A k \in 1..n : Before(s[k], s[i]) => Before(s[k], s[j])
      BY <1>1, <1>4, <1>9 DEF Before
    <3> QED BY <1>1, <1>9, <3>1 DEF Below
  <2>2. Cardinality(Below(s, i)) + 1 <= Cardinality(Below(s, j))
    BY <1>3, <1>6, <2>1, FS_Subset
  <2> QED BY <1>1, <1>3, <2>2
<1> QED BY <1>1, <1>3, <1>8, <1>9

\* Merged lines can be put in order.
LEMMA OrderExists ==
    ASSUME NEW s \in Seq(SumLine), Distinct(s)
    PROVE  \E p \in Bijection(1..Len(s), 1..Len(s)) :
              \A i, j \in 1..Len(s) : i < j => ~Before(s[p[j]], s[p[i]])
<1> DEFINE n == Len(s)
           place == [i \in 1..n |-> Cardinality(Below(s, i)) + 1]
           p == [k \in 1..n |-> CHOOSE i \in 1..n : place[i] = k]
<1>1. n \in Nat
  BY LenProperties
<1>2. \A i \in 1..n : Cardinality(Below(s, i)) \in 0..(n - 1)
  BY BelowSize
<1>3. place \in [1..n -> 1..n]
  <2>1. \A i \in 1..n : Cardinality(Below(s, i)) + 1 \in 1..n
    <3> HIDE DEF n
    <3> QED BY <1>1, <1>2
  <2> QED BY <2>1
<1>4. \A i, j \in 1..n : Before(s[i], s[j]) => place[i] < place[j]
  <2>1. ASSUME NEW i \in 1..n, NEW j \in 1..n, Before(s[i], s[j]) PROVE place[i] < place[j]
    <3>1. Cardinality(Below(s, i)) < Cardinality(Below(s, j))
      BY <2>1, BelowSize
    <3>2. /\ place[i] = Cardinality(Below(s, i)) + 1 /\ Cardinality(Below(s, i)) \in Nat
          /\ place[j] = Cardinality(Below(s, j)) + 1 /\ Cardinality(Below(s, j)) \in Nat
      BY <1>2
    <3> HIDE DEF place
    <3> QED BY <3>1, <3>2
  <2> QED BY <2>1
<1> HIDE DEF place
<1>5. \A i, j \in 1..n : place[i] = place[j] => i = j
  <2> SUFFICES ASSUME NEW i \in 1..n, NEW j \in 1..n, place[i] = place[j], i # j PROVE FALSE
    OBVIOUS
  <2>1. s[i].sku # s[j].sku
    BY DEF Distinct
  <2>2. SkuRank[s[i].sku] # SkuRank[s[j].sku]
    BY <2>1, SumLineFields, KeysAssumption
  <2>3. Before(s[i], s[j]) \/ Before(s[j], s[i])
    BY <2>2, SumLineFields DEF Before
  <2>4. place[i] \in Nat /\ place[j] \in Nat
    BY <1>3
  <2> QED BY <1>4, <2>3, <2>4
<1>6. \A k \in 1..n : \E i \in 1..n : place[i] = k
  <2>1. IsFiniteSet(1..n) /\ Cardinality(1..n) = n
    <3> HIDE DEF n
    <3> QED BY <1>1, FS_Interval
  <2>2. place \in Injection(1..n, 1..n)
    BY <1>3, <1>5 DEF Injection, IsInjective
  <2>3. place \in Surjection(1..n, 1..n)
    <3> HIDE DEF n
    <3> QED BY <2>1, <2>2, FS_Injection
  <2> QED BY <2>3 DEF Surjection
<1>7. \A k \in 1..n : p[k] \in 1..n /\ place[p[k]] = k
  BY <1>6
<1>8. p \in [1..n -> 1..n]
  <2>1. DOMAIN p = 1..n /\ p = [k \in 1..n |-> p[k]]
    OBVIOUS
  <2> HIDE DEF p
  <2> QED BY <1>7, <2>1
<1> HIDE DEF p
<1>9. p \in Bijection(1..n, 1..n)
  <2>1. \A i \in 1..n : p[place[i]] = i
    BY <1>3, <1>5, <1>7
  <2> QED BY <1>3, <1>7, <1>8, <2>1 DEF Bijection, Injection, Surjection, IsInjective
<1>10. ASSUME NEW i \in 1..n, NEW j \in 1..n, i < j PROVE ~Before(s[p[j]], s[p[i]])
  <2>1. place[p[i]] = i /\ place[p[j]] = j /\ p[i] \in 1..n /\ p[j] \in 1..n
    BY <1>7
  <2>2. Before(s[p[j]], s[p[i]]) => j < i
    BY <1>4, <2>1
  <2> QED BY <1>1, <1>10, <2>2
<1> QED BY <1>9, <1>10

\* The sorted lines are the lines, in the order of their SKUs.
LEMMA SortedIs ==
    ASSUME NEW s \in Seq(SumLine), Distinct(s)
    PROVE  /\ Sorted(s) \in Seq(SumLine) /\ Len(Sorted(s)) = Len(s)
           /\ Rising(Sorted(s)) /\ Within(Sorted(s), s) /\ Within(s, Sorted(s))
<1> DEFINE n == Len(s)
           Fits(p) == \A i, j \in DOMAIN s : i < j => ~Before(s[p[j]], s[p[i]])
           order == CHOOSE p \in Bijection(DOMAIN s, DOMAIN s) : Fits(p)
<1>1. n \in Nat /\ DOMAIN s = 1..n
  BY LenProperties
<1>2. order \in Bijection(1..n, 1..n) /\ Fits(order)
  <2>1. \E p \in Bijection(DOMAIN s, DOMAIN s) : Fits(p)
    BY <1>1, OrderExists
  <2> HIDE DEF Fits
  <2>2. order \in Bijection(DOMAIN s, DOMAIN s) /\ Fits(order)
    BY <2>1
  <2> QED BY <1>1, <2>2
<1>3. Sorted(s) = [i \in 1..n |-> s[order[i]]]
  BY <1>1 DEF Sorted
<1> HIDE DEF order
<1>4. /\ order \in [1..n -> 1..n]
      /\ \A i, j \in 1..n : order[i] = order[j] => i = j
      /\ \A k \in 1..n : \E i \in 1..n : order[i] = k
  BY <1>2 DEF Bijection, Injection, Surjection, IsInjective
<1>o. \A i, j \in 1..n : i < j => ~Before(s[order[j]], s[order[i]])
  <2>1. \A i, j \in DOMAIN s : i < j => ~Before(s[order[j]], s[order[i]])
    BY <1>2
  <2> QED BY <1>1, <2>1
<1>5. \A i \in 1..n : s[order[i]] \in SumLine
  BY <1>4, SumLineFields
<1>6. Sorted(s) \in Seq(SumLine) /\ Len(Sorted(s)) = n
  <2> HIDE DEF n
  <2> QED BY <1>1, <1>3, <1>5
<1>7. \A i \in 1..n : Sorted(s)[i] = s[order[i]] /\ order[i] \in 1..n
  BY <1>3, <1>4
<1>8. ASSUME NEW i \in 1..n, NEW j \in 1..n, i < j
      PROVE  SkuRank[s[order[i]].sku] < SkuRank[s[order[j]].sku]
  <2>1. order[i] \in 1..n /\ order[j] \in 1..n /\ order[i] # order[j]
    <3>1. i # j
      BY <1>1, <1>8
    <3>2. order[i] \in 1..n /\ order[j] \in 1..n
      BY <1>7
    <3>3. \A x, y \in 1..n : order[x] = order[y] => x = y
      BY <1>4
    <3> QED BY <3>1, <3>2, <3>3, Zenon
  <2>2. s[order[i]].sku # s[order[j]].sku
    <3> DEFINE u == order[i]
               v == order[j]
    <3>1. u \in 1..n /\ v \in 1..n /\ u # v
      BY <2>1
    <3> HIDE DEF u, v
    <3>2. s[u].sku # s[v].sku
      BY <3>1, Zenon DEF Distinct
    <3> QED BY <3>2 DEF u, v
  <2>3. /\ s[order[i]].sku \in SkuText /\ SkuRank[s[order[i]].sku] \in Nat
        /\ s[order[j]].sku \in SkuText /\ SkuRank[s[order[j]].sku] \in Nat
    BY <2>1, SumLineFields
  <2>4. SkuRank[s[order[i]].sku] # SkuRank[s[order[j]].sku]
    BY <2>2, <2>3, KeysAssumption
  <2>5. ~Before(s[order[j]], s[order[i]])
    BY <1>o, <1>8
  <2> QED BY <2>3, <2>4, <2>5 DEF Before
<1>9. Rising(Sorted(s))
  BY <1>6, <1>7, <1>8 DEF Rising
<1>10. Within(Sorted(s), s)
  BY <1>6, <1>7 DEF Within
<1>11. Within(s, Sorted(s))
  <2> SUFFICES ASSUME NEW k \in 1..n PROVE \E i \in 1..n : s[k] = Sorted(s)[i]
    BY <1>6 DEF Within
  <2>1. PICK i \in 1..n : order[i] = k
    BY <1>4
  <2> QED BY <1>7, <2>1
<1> QED BY <1>6, <1>9, <1>10, <1>11

\* Two rising sequences of the same lines begin alike.
LEMMA RisingStart ==
    ASSUME NEW a \in Seq(SumLine), NEW b \in Seq(SumLine), Rising(a), Rising(b),
           Within(a, b), Within(b, a), NEW k0 \in 1..Len(a)
    PROVE  k0 <= Len(b) /\ a[k0] = b[k0]
<1> DEFINE Bad == {k \in 1..Len(a) : ~(k <= Len(b) /\ a[k] = b[k])}
<1> SUFFICES ASSUME Bad # {} PROVE FALSE
  OBVIOUS
<1>0. Len(a) \in Nat /\ Len(b) \in Nat
  BY LenProperties
<1>1. PICK k \in Bad : \A j \in Bad : k <= j
  <2>1. Bad \in SUBSET Nat
    OBVIOUS
  <2> HIDE DEF Bad
  <2> QED BY <2>1, Least
<1>2. k \in 1..Len(a) /\ ~(k <= Len(b) /\ a[k] = b[k])
  OBVIOUS
<1>3. ASSUME NEW j \in 1..Len(a), j < k PROVE j <= Len(b) /\ a[j] = b[j]
  <2>1. j \in Bad => k <= j
    <3> HIDE DEF Bad
    <3> QED BY <1>1
  <2>2. j \notin Bad
    <3> HIDE DEF Bad
    <3> QED BY <1>0, <1>2, <1>3, <2>1
  <2> QED BY <2>2
<1> HIDE DEF Bad
<1>ra. \A i \in 1..Len(a) : SkuRank[a[i].sku] \in Nat
  BY SumLineFields
<1>rb. \A i \in 1..Len(b) : SkuRank[b[i].sku] \in Nat
  BY SumLineFields
<1>4. PICK m \in 1..Len(b) : a[k] = b[m]
  BY <1>2 DEF Within
<1>5. ~(m < k)
  <2> SUFFICES ASSUME m < k PROVE FALSE
    OBVIOUS
  <2>1. m \in 1..Len(a)
    BY <1>0, <1>2
  <2>2. a[m] = a[k]
    BY <1>3, <1>4, <2>1
  <2>3. SkuRank[a[m].sku] < SkuRank[a[k].sku]
    BY <1>2, <2>1 DEF Rising
  <2> QED BY <1>2, <1>ra, <2>2, <2>3
<1>6. k < m /\ k \in 1..Len(b)
  <2>1. k <= Len(b)
    BY <1>0, <1>2, <1>5
  <2>2. m # k
    BY <1>2, <1>4, <2>1
  <2> QED BY <1>0, <1>2, <1>5, <2>1, <2>2
<1>7. PICK l \in 1..Len(a) : b[k] = a[l]
  BY <1>6 DEF Within
<1>8. ~(l < k)
  <2> SUFFICES ASSUME l < k PROVE FALSE
    OBVIOUS
  <2>1. l \in 1..Len(b) /\ a[l] = b[l]
    BY <1>0, <1>3
  <2>2. SkuRank[b[l].sku] < SkuRank[b[k].sku]
    BY <1>6, <2>1 DEF Rising
  <2> QED BY <1>6, <1>7, <1>rb, <2>1, <2>2
<1>9. k < l
  <2>1. l # k
    BY <1>0, <1>2, <1>6, <1>7
  <2> QED BY <1>0, <1>2, <1>8, <2>1
<1>10. SkuRank[a[k].sku] < SkuRank[a[l].sku] /\ SkuRank[b[k].sku] < SkuRank[b[m].sku]
  BY <1>2, <1>6, <1>9 DEF Rising
<1> QED BY <1>2, <1>4, <1>6, <1>7, <1>10, <1>ra, <1>rb

LEMMA RisingOnce ==
    ASSUME NEW a \in Seq(SumLine), NEW b \in Seq(SumLine), Rising(a), Rising(b),
           Within(a, b), Within(b, a)
    PROVE  a = b
<1>1. \A k \in 1..Len(a) : k <= Len(b) /\ a[k] = b[k]
  BY RisingStart
<1>2. \A k \in 1..Len(b) : k <= Len(a)
  BY RisingStart
<1>3. Len(a) \in Nat /\ Len(b) \in Nat
  BY LenProperties
<1>4. Len(a) = Len(b)
  <2>1. Len(a) <= Len(b)
    <3>1. Len(a) # 0 => Len(a) \in 1..Len(a)
      BY <1>3
    <3> QED BY <1>1, <1>3, <3>1
  <2>2. Len(b) <= Len(a)
    <3>1. Len(b) # 0 => Len(b) \in 1..Len(b)
      BY <1>3
    <3> QED BY <1>2, <1>3, <3>1
  <2> QED BY <1>3, <2>1, <2>2
<1> QED BY <1>1, <1>4, SeqEqual

-----------------------------------------------------------------------------
(* The hash of a request and what the request asks for *)

\* An accepted request has lines that passed validation, and a region.
LEMMA AcceptedLines ==
    ASSUME NEW q \in Accepted
    PROVE  /\ q.items \in Seq(AskLine) /\ q.items # <<>> /\ ValidRegion(q.region)
           /\ DOMAIN q.items = 1..Len(q.items) /\ Len(q.items) \in Nat
<1>1. q \in Requests /\ ValidRegion(q.region) /\ \A i \in DOMAIN q.items : ValidLine(q.items[i])
  BY DEF Accepted
<1>2. PICK n \in 1..MaxItems : q.items \in [1..n -> Line]
  BY <1>1 DEF Requests
<1>3. n \in Nat /\ n >= 1
  BY KeysAssumption
<1>4. \A i \in 1..n : q.items[i] \in AskLine
  <2> SUFFICES ASSUME NEW i \in 1..n PROVE q.items[i] \in AskLine
    OBVIOUS
  <2>1. q.items[i] \in Line /\ ValidLine(q.items[i])
    BY <1>1, <1>2
  <2> DEFINE l == q.items[i]
  <2>2. l \in Line /\ ValidSku(l.sku) /\ l.qty \in 1..MaxQuantity
    BY <2>1 DEF ValidLine
  <2> HIDE DEF l
  <2>3. l.qty \in Nat \ {0} /\ l.qty <= MaxQuantity
    BY <2>2, KeysAssumption
  <2>4. l \in [sku: SkuText, qty: Quantity]
    BY <2>2 DEF Line
  <2>5. l \in SumLine
    BY <2>2, <2>3, <2>4 DEF SumLine
  <2> QED BY <2>3, <2>5 DEF AskLine, l
<1>5. q.items \in Seq(AskLine) /\ Len(q.items) = n
  <2> DEFINE s == q.items
  <2>1. s \in [1..n -> AskLine]
    <3>1. s \in [1..n -> Line]
      BY <1>2
    <3> QED BY <1>4, <3>1
  <2>2. s \in Seq(AskLine) /\ Len(s) = n
    <3> HIDE DEF s
    <3> QED BY <1>3, <2>1
  <2> QED BY <2>2
<1>6. q.items # <<>>
  BY <1>3, <1>5, EmptySeq
<1> QED BY <1>1, <1>2, <1>3, <1>5, <1>6

Sum(q) == AggregateLines(q.items)

\* The merged lines of an accepted request.
LEMMA SumOf ==
    ASSUME NEW q \in Accepted
    PROVE  /\ Sum(q) \in Seq(SumLine) /\ Sum(q) # <<>> /\ Distinct(Sum(q))
           /\ Want(q).lines = {<<Sum(q)[i].sku, Sum(q)[i].qty>> : i \in 1..Len(Sum(q))}
           /\ Want(q).region = q.region
<1> DEFINE items == q.items
           n == Len(items)
           out == Sum(q)
<1>1. items \in Seq(AskLine) /\ items # <<>> /\ DOMAIN items = 1..n /\ n \in Nat
  BY AcceptedLines
<1>2. Merged(out, items, n)
  BY <1>1, AggregateMerges DEF Sum
<1>3. n # 0
  BY <1>1, EmptySeq
<1> HIDE DEF out
<1>4. /\ out \in Seq(SumLine)
      /\ \A i, j \in 1..Len(out) : out[i].sku = out[j].sku => i = j
      /\ \A i \in 1..Len(out) : \E j \in 1..n : out[i].sku = items[j].sku
      /\ \A j \in 1..n : \E i \in 1..Len(out) : out[i].sku = items[j].sku
      /\ \A i \in 1..Len(out) : out[i].qty = Cardinality(UnitsTo(items, n, out[i].sku))
  BY <1>2 DEF Merged
<1>5. out # <<>>
  <2>1. PICK i \in 1..Len(out) : out[i].sku = items[n].sku
    BY <1>1, <1>3, <1>4
  <2> SUFFICES ASSUME out = <<>> PROVE FALSE
    OBVIOUS
  <2>2. Len(out) = 0
    OBVIOUS
  <2> QED BY <2>1, <2>2
<1>6. \A s : Units(items, s) = UnitsTo(items, n, s)
  BY <1>1 DEF Units, UnitsTo
<1>7. Want(q).lines = {<<s, Cardinality(Units(items, s))>> : s \in SkusOf(q)}
      /\ Want(q).region = q.region
  BY DEF Want
<1>8. SkusOf(q) = {items[j].sku : j \in 1..n}
  BY <1>1 DEF SkusOf
<1>9. SkusOf(q) = {out[i].sku : i \in 1..Len(out)}
  <2>1. ASSUME NEW s \in SkusOf(q) PROVE \E i \in 1..Len(out) : s = out[i].sku
    <3>1. PICK j \in 1..n : s = items[j].sku
      BY <1>8
    <3>2. PICK i \in 1..Len(out) : out[i].sku = items[j].sku
      BY <1>4
    <3> QED BY <3>1, <3>2
  <2>2. ASSUME NEW i \in 1..Len(out) PROVE out[i].sku \in SkusOf(q)
    <3>1. PICK j \in 1..n : out[i].sku = items[j].sku
      BY <1>4
    <3> QED BY <1>8, <3>1
  <2> QED BY <2>1, <2>2
<1>10. Want(q).lines = {<<out[i].sku, out[i].qty>> : i \in 1..Len(out)}
  <2> HIDE DEF n, items
  <2>1. ASSUME NEW s \in SkusOf(q)
        PROVE  \E i \in 1..Len(out) :
                  <<s, Cardinality(Units(items, s))>> = <<out[i].sku, out[i].qty>>
    <3>1. PICK i \in 1..Len(out) : s = out[i].sku
      BY <1>9
    <3>2. out[i].qty = Cardinality(UnitsTo(items, n, out[i].sku))
      BY <1>4
    <3> QED BY <1>6, <3>1, <3>2
  <2>2. ASSUME NEW i \in 1..Len(out)
        PROVE  \E s \in SkusOf(q) :
                  <<s, Cardinality(Units(items, s))>> = <<out[i].sku, out[i].qty>>
    <3>1. out[i].qty = Cardinality(UnitsTo(items, n, out[i].sku))
      BY <1>4
    <3>2. out[i].sku \in SkusOf(q)
      BY <1>9
    <3> QED BY <1>6, <3>1, <3>2
  <2> QED BY <1>7, <2>1, <2>2
<1> QED BY <1>4, <1>5, <1>7, <1>10 DEF Distinct, out

\* The text that is hashed.
LEMMA HashOfIs ==
    ASSUME NEW q \in Accepted
    PROVE  /\ HashOf[q] = TextOf(Sorted(Sum(q)), q.region)
           /\ Sorted(Sum(q)) \in Seq(SumLine) /\ Sorted(Sum(q)) # <<>>
           /\ Rising(Sorted(Sum(q))) /\ Within(Sorted(Sum(q)), Sum(q))
           /\ Within(Sum(q), Sorted(Sum(q))) /\ ValidRegion(q.region)
<1>1. Sum(q) \in Seq(SumLine) /\ Sum(q) # <<>> /\ Distinct(Sum(q))
  BY SumOf
<1>2. /\ Sorted(Sum(q)) \in Seq(SumLine) /\ Len(Sorted(Sum(q))) = Len(Sum(q))
      /\ Rising(Sorted(Sum(q))) /\ Within(Sorted(Sum(q)), Sum(q))
      /\ Within(Sum(q), Sorted(Sum(q)))
  BY <1>1, SortedIs
<1>3. Sorted(Sum(q)) # <<>>
  BY <1>1, <1>2, EmptySeq
<1>4. HashOf[q] = TextOf(Sorted(Sum(q)), q.region)
  BY DEF HashOf, RequestHash, CanonicalText, Sum, TextOf
<1> QED BY <1>2, <1>3, <1>4, AcceptedLines

LEMMA WithinChain ==
    ASSUME NEW a, NEW b, NEW c, Within(a, b), Within(b, c) PROVE Within(a, c)
<1> SUFFICES ASSUME NEW i \in 1..Len(a) PROVE \E k \in 1..Len(c) : a[i] = c[k]
  BY DEF Within
<1>1. PICK j \in 1..Len(b) : a[i] = b[j]
  BY DEF Within
<1>2. PICK k \in 1..Len(c) : b[j] = c[k]
  BY DEF Within
<1> QED BY <1>1, <1>2

LEMMA LinesWithin ==
    ASSUME NEW q \in Accepted, NEW r \in Accepted, Want(q).lines \subseteq Want(r).lines
    PROVE  Within(Sum(q), Sum(r))
<1> DEFINE a == Sum(q)
           b == Sum(r)
<1>1. a \in Seq(SumLine) /\ b \in Seq(SumLine)
  BY SumOf
<1>2. /\ Want(q).lines = {<<a[i].sku, a[i].qty>> : i \in 1..Len(a)}
      /\ Want(r).lines = {<<b[i].sku, b[i].qty>> : i \in 1..Len(b)}
  BY SumOf
<1> HIDE DEF a, b
<1> SUFFICES ASSUME NEW i \in 1..Len(a) PROVE \E j \in 1..Len(b) : a[i] = b[j]
  BY DEF Within, a, b
<1>3. PICK j \in 1..Len(b) : <<a[i].sku, a[i].qty>> = <<b[j].sku, b[j].qty>>
  BY <1>2
<1>4. a[i].sku = b[j].sku /\ a[i].qty = b[j].qty
  BY <1>3
<1>5. a[i] \in SumLine /\ b[j] \in SumLine
  BY <1>1
<1>6. a[i] = b[j]
  BY <1>4, <1>5 DEF SumLine
<1> QED BY <1>6

LEMMA WithinLines ==
    ASSUME NEW q \in Accepted, NEW r \in Accepted, Within(Sum(q), Sum(r))
    PROVE  Want(q).lines \subseteq Want(r).lines
<1> DEFINE a == Sum(q)
           b == Sum(r)
<1>2. /\ Want(q).lines = {<<a[i].sku, a[i].qty>> : i \in 1..Len(a)}
      /\ Want(r).lines = {<<b[i].sku, b[i].qty>> : i \in 1..Len(b)}
  BY SumOf
<1>3. \A i \in 1..Len(a) : \E j \in 1..Len(b) : a[i] = b[j]
  BY DEF Within
<1> HIDE DEF a, b
<1> QED BY <1>2, <1>3

LEMMA WantIs ==
    ASSUME NEW q \in Accepted, NEW r \in Accepted,
           Want(q).lines = Want(r).lines, q.region = r.region
    PROVE  Want(q) = Want(r)
BY DEF Want

\* The canonical hash tells requests apart exactly when they ask for different
\* things: equal hashes mean equal quantities of equal SKUs to one region, in
\* whatever order and however split the lines were (CanonicalHash).
THEOREM HashTellsRequests ==
    ASSUME NEW q \in Accepted, NEW r \in Accepted
    PROVE  HashOf[q] = HashOf[r] <=> Want(q) = Want(r)
<1> DEFINE a == Sorted(Sum(q))
           b == Sorted(Sum(r))
<1>1. /\ HashOf[q] = TextOf(a, q.region)
      /\ a \in Seq(SumLine) /\ a # <<>> /\ Rising(a)
      /\ Within(a, Sum(q)) /\ Within(Sum(q), a) /\ ValidRegion(q.region)
  BY HashOfIs
<1>2. /\ HashOf[r] = TextOf(b, r.region)
      /\ b \in Seq(SumLine) /\ b # <<>> /\ Rising(b)
      /\ Within(b, Sum(r)) /\ Within(Sum(r), b) /\ ValidRegion(r.region)
  BY HashOfIs
<1> HIDE DEF a, b
<1>3. ASSUME HashOf[q] = HashOf[r] PROVE Want(q) = Want(r)
  <2>1. a = b /\ q.region = r.region
    <3>1. TextOf(a, q.region) = TextOf(b, r.region)
      BY <1>1, <1>2, <1>3
    <3> QED BY <1>1, <1>2, <3>1, CanonicalTells
  <2>2. Within(Sum(q), Sum(r)) /\ Within(Sum(r), Sum(q))
    <3>1. Within(Sum(q), a) /\ Within(a, Sum(r)) /\ Within(Sum(r), a) /\ Within(a, Sum(q))
      BY <1>1, <1>2, <2>1
    <3> QED BY <3>1, WithinChain
  <2>3. Want(q).lines = Want(r).lines
    <3>1. Want(q).lines \subseteq Want(r).lines
      BY <2>2, WithinLines
    <3>2. Want(r).lines \subseteq Want(q).lines
      BY <2>2, WithinLines
    <3> QED BY <3>1, <3>2
  <2> QED BY <2>1, <2>3, WantIs
<1>4. ASSUME Want(q) = Want(r) PROVE HashOf[q] = HashOf[r]
  <2>1. q.region = r.region /\ Want(q).lines = Want(r).lines
    BY <1>4, SumOf
  <2>2. Within(Sum(q), Sum(r)) /\ Within(Sum(r), Sum(q))
    BY <2>1, LinesWithin
  <2>3. Within(a, b) /\ Within(b, a)
    <3>1. Within(a, Sum(r)) /\ Within(b, Sum(q))
      BY <1>1, <1>2, <2>2, WithinChain
    <3> QED BY <1>1, <1>2, <3>1, WithinChain
  <2>4. a = b
    BY <1>1, <1>2, <2>3, RisingOnce
  <2> QED BY <1>1, <1>2, <2>1, <2>4
<1> QED BY <1>3, <1>4

-----------------------------------------------------------------------------
(* A header stands for a request that was accepted *)

StandsFor(h, id) ==
    \E q \in Accepted : /\ q.id = id /\ h.hash = HashOf[q]
                        /\ h.want = Want(q) /\ h.skus = SkusOf(q)

HeadersTell ==
    \A id \in IdText : IF header[id].status = "none" THEN header[id] = NoHeader
                       ELSE StandsFor(header[id], id)

RequestInv == KeysInv /\ HeadersTell

LEMMA InitRequests == Init => RequestInv
<1> SUFFICES ASSUME Init PROVE RequestInv
  OBVIOUS
<1>1. HeadersTell
  BY DEF Init, HeadersTell, NoHeader
<1> QED BY <1>1, InitKeys DEF RequestInv

LEMMA NextKeepsRequests == RequestInv /\ [Next]_vars => RequestInv'
<1> SUFFICES ASSUME RequestInv, [Next]_vars PROVE RequestInv'
  OBVIOUS
<1>0. KeysInv' /\ HeadersTell /\ header \in [IdText -> StoredHeader]
  BY NextKeepsKeys DEF RequestInv, KeysInv, HeadersAreValid
<1>1. ASSUME NEW q \in Accepted, Reserve(q) PROVE HeadersTell'
  <2> DEFINE h == [status |-> "reserved", hash |-> HashOf[q], skus |-> SkusOf(q),
                   want |-> Want(q)]
  <2>1. q.id \in IdText /\ header' = [header EXCEPT ![q.id] = h]
    BY <1>1, AcceptedNames DEF Reserve
  <2>2. h.status # "none" /\ StandsFor(h, q.id)
    BY DEF StandsFor
  <2> HIDE DEF h
  <2>3. header'[q.id] = h /\ \A id \in IdText \ {q.id} : header'[id] = header[id]
    BY <1>0, <2>1
  <2> QED BY <1>0, <2>2, <2>3 DEF HeadersTell
<1>2. ASSUME NEW id \in IdText, NEW op \in {"release", "commit"}, Settle(op, id)
      PROVE  HeadersTell'
  <2> DEFINE st == IF op = "commit" THEN "committed" ELSE "released"
  <2>1. header' = [header EXCEPT ![id].status = st] /\ header[id].status = "reserved"
    BY <1>2 DEF Settle
  <2>2. /\ header'[id].status = st /\ header'[id].hash = header[id].hash
        /\ header'[id].skus = header[id].skus /\ header'[id].want = header[id].want
        /\ \A r \in IdText \ {id} : header'[r] = header[r]
    BY <1>0, <2>1 DEF StoredHeader
  <2>3. st # "none"
    OBVIOUS
  <2> HIDE DEF st
  <2>4. StandsFor(header[id], id)
    BY <1>0, <2>1 DEF HeadersTell
  <2>5. StandsFor(header'[id], id)
    BY <2>2, <2>4 DEF StandsFor
  <2> QED BY <1>0, <2>2, <2>3, <2>5 DEF HeadersTell
<1>3. ASSUME NEW t \in CommandText, Command(t) PROVE HeadersTell'
  BY <1>0, <1>3 DEF Command, HeadersTell
<1>4. ASSUME UNCHANGED vars PROVE HeadersTell'
  BY <1>0, <1>4 DEF vars, HeadersTell
<1>5. HeadersTell'
  BY <1>1, <1>2, <1>3, <1>4 DEF Next
<1> QED BY <1>0, <1>5 DEF RequestInv

LEMMA RequestsKept == Spec => []RequestInv
BY InitRequests, NextKeepsRequests, PTL DEF Spec

\* A used header answers a request by the request it was made from.
LEMMA HeaderTells ==
    ASSUME RequestInv, NEW q \in Accepted, Used(q)
    PROVE  SameHash(q) <=> Want(q) = header[q.id].want
<1>1. q.id \in IdText
  BY AcceptedNames
<1>2. StandsFor(header[q.id], q.id)
  BY <1>1 DEF RequestInv, HeadersTell, Used
<1>3. PICK r \in Accepted : header[q.id].hash = HashOf[r] /\ header[q.id].want = Want(r)
  BY <1>2 DEF StandsFor
<1> QED BY <1>3, HashTellsRequests DEF SameHash

\* No request is taken for the replay of another one (replayReservation).
THEOREM ReplayIsAlwaysTheSameRequest == Spec => []ReplayIsSameRequest
<1>1. RequestInv => ReplayIsSameRequest
  BY HeaderTells DEF ReplayIsSameRequest
<1> QED BY <1>1, RequestsKept, PTL

\* A retry is no conflict, whatever the order of its lines (replayReservation).
THEOREM RetryIsAlwaysAReplay == Spec => []RetryIsReplay
<1>1. RequestInv => RetryIsReplay
  BY HeaderTells DEF RetryIsReplay
<1> QED BY <1>1, RequestsKept, PTL

LEMMA KeyIsText ==
    ASSUME NEW op \in Op, NEW id, NEW sku, ValidId(id), ValidSku(sku)
    PROVE  LedgerKey(op, id, sku) \in Seq(Char)
<1> DEFINE p == Prefix[op]
           c == <<":">>
<1>1. p \in Seq(Char) /\ c \in Seq(Char) /\ id \in Seq(Char) /\ sku \in Seq(Char)
  BY PrefixShape, NamesAreTexts, Separators
<1> HIDE DEF p, c
<1>2. ((p \o id) \o c) \o sku \in Seq(Char)
  BY <1>1, ConcatProperties
<1> QED BY <1>2 DEF LedgerKey, p, c

LEMMA RequestTypes == RequestInv => TypeOK
<1> SUFFICES ASSUME RequestInv PROVE TypeOK
  OBVIOUS
<1>1. ASSUME NEW k \in ledger PROVE k \in Seq(Char)
  <2>1. CASE k \in claimed
    BY <2>1, KeysAssumption DEF RequestInv, KeysInv, LedgerIsKnown, Char
  <2>2. ASSUME NEW op \in Op, NEW id \in IdText, Wrote(k, op, id) PROVE k \in Seq(Char)
    <3>1. PICK s \in header[id].skus : k = LedgerKey(op, id, s)
      BY <2>2 DEF Wrote
    <3>2. header[id].status # "none"
      BY <2>2 DEF Wrote, Done
    <3>3. ValidId(id) /\ ValidSku(s)
      BY <3>2 DEF RequestInv, KeysInv, HeadersAreValid
    <3> QED BY <3>1, <3>3, KeyIsText
  <2> QED BY <2>1, <2>2 DEF RequestInv, KeysInv, LedgerIsKnown, ledger
<1>2. ASSUME NEW id \in IdText
      PROVE  /\ header[id].status \in {"none", "reserved", "committed", "released"}
             /\ header[id].skus \subseteq SkuText
  <2>1. header[id] \in StoredHeader
    BY DEF RequestInv, KeysInv, HeadersAreValid
  <2> QED BY <2>1 DEF StoredHeader
<1>3. ASSUME NEW id \in IdText, NEW l \in header[id].want.lines
      PROVE  l[1] \in header[id].skus /\ l[2] > 0
  <2>1. header[id].status # "none"
    <3> SUFFICES ASSUME header[id].status = "none" PROVE FALSE
      OBVIOUS
    <3>1. header[id] = NoHeader
      BY DEF RequestInv, HeadersTell
    <3> QED BY <1>3, <3>1 DEF NoHeader
  <2>2. PICK q \in Accepted : header[id].want = Want(q) /\ header[id].skus = SkusOf(q)
    BY <2>1 DEF RequestInv, HeadersTell, StandsFor
  <2>3. l[1] \in SkusOf(q)
    BY <1>3, <2>2 DEF Want
  <2> DEFINE out == Sum(q)
  <2>4. out \in Seq(SumLine) /\ Want(q).lines = {<<out[i].sku, out[i].qty>> : i \in 1..Len(out)}
    BY SumOf
  <2> HIDE DEF out
  <2>5. PICK i \in 1..Len(out) : l = <<out[i].sku, out[i].qty>>
    BY <1>3, <2>2, <2>4
  <2>6. out[i] \in SumLine
    BY <2>4
  <2>7. out[i].qty \in Nat \ {0}
    BY <2>6 DEF SumLine
  <2> QED BY <2>2, <2>3, <2>5, <2>7
<1> QED BY <1>1, <1>2, <1>3 DEF TypeOK, Char

\* Keys of the ledger are texts and every stored line has a positive quantity
\* (CHECK (quantity > 0) of inventory_reservation_lines).
THEOREM StoredTexts == Spec => []TypeOK
BY RequestsKept, RequestTypes, PTL
=============================================================================
