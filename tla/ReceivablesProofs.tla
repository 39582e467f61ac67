-------------------------- MODULE ReceivablesProofs --------------------------
(***************************************************************************)
(* The proofs about Receivables: that the payments taken from a contact    *)
(* stay within what it owed, that the statement, the balance and the       *)
(* reports agree, and that a contact is archived settled.                  *)
(*                                                                         *)
(* First computeDirection over invoices and payments already read; then    *)
(* what each way the transactions may change keeps; then the inductive     *)
(* invariant, one lemma to an action.                                      *)
(***************************************************************************)
EXTENDS Receivables, SumsProofs

(***************************************************************************)
(* Columns of the transactions, and their sums.                            *)
(***************************************************************************)
Rows(rows) == IsFiniteSet(DOMAIN rows) /\ \A i \in DOMAIN rows : rows[i] \in Row

Amount(rows) == [i \in DOMAIN rows |-> rows[i].amount]
Invoice(rows, d) == [i \in DOMAIN rows |-> Original(rows[i], d)]
Sign(rows) == [i \in DOMAIN rows |-> Signed(rows[i])]

LEMMA RowFields ==
    ASSUME NEW row \in Row, NEW d
    PROVE  /\ row.amount \in Nat /\ row.amount > 0 /\ row.date \in Int /\ row.seq \in Nat
           /\ Original(row, d) \in Nat /\ Original(row, d) <= row.amount
           /\ Signed(row) \in Int
           /\ row.entry \in {"DEBIT", "CREDIT"} /\ row.account \in {"AR", "AP"}
           /\ row.type \in Type /\ row.status \in {"POSTED", "VOIDED"}
           /\ row.due \in Int \cup {NoDue} /\ row.raw \in BOOLEAN
BY DEF Row, Original, Signed

LEMMA Columns ==
    ASSUME NEW rows, Rows(rows), NEW ids \in SUBSET DOMAIN rows, NEW d
    PROVE  /\ IsFiniteSet(ids)
           /\ Ints(Amount(rows), ids) /\ Amounts(rows, ids) = SumOver(Amount(rows), ids)
           /\ Ints(Invoice(rows, d), ids) /\ Invoiced(rows, ids, d) = SumOver(Invoice(rows, d), ids)
           /\ Ints(Sign(rows), ids) /\ SignedSum(rows, ids) = SumOver(Sign(rows), ids)
           /\ \A i \in ids : Amount(rows)[i] >= 0 /\ Invoice(rows, d)[i] >= 0
<1>1. IsFiniteSet(ids)
  BY FS_Subset DEF Rows
<1>2. \A i \in ids : /\ Amount(rows)[i] = rows[i].amount
                     /\ Invoice(rows, d)[i] = Original(rows[i], d)
                     /\ Sign(rows)[i] = Signed(rows[i])
  BY DEF Amount, Invoice, Sign
<1>3. \A i \in ids : /\ rows[i].amount \in Nat /\ Original(rows[i], d) \in Nat
                     /\ Signed(rows[i]) \in Int
  BY RowFields DEF Rows
<1>4. Ints(Amount(rows), ids) /\ Ints(Invoice(rows, d), ids) /\ Ints(Sign(rows), ids)
  BY <1>1, <1>2, <1>3 DEF Ints
<1> DEFINE a == [i \in ids |-> rows[i].amount]
           o == [i \in ids |-> Original(rows[i], d)]
           s == [i \in ids |-> Signed(rows[i])]
<1>5. /\ \A i \in ids : Amount(rows)[i] = a[i]
      /\ \A i \in ids : Invoice(rows, d)[i] = o[i]
      /\ \A i \in ids : Sign(rows)[i] = s[i]
  BY <1>2
<1>6. /\ Amounts(rows, ids) = SumOver(a, ids)
      /\ Invoiced(rows, ids, d) = SumOver(o, ids)
      /\ SignedSum(rows, ids) = SumOver(s, ids)
  BY DEF Amounts, Invoiced, SignedSum
<1> HIDE DEF a, o, s
<1>7. /\ SumOver(Amount(rows), ids) = SumOver(a, ids)
      /\ SumOver(Invoice(rows, d), ids) = SumOver(o, ids)
      /\ SumOver(Sign(rows), ids) = SumOver(s, ids)
  BY <1>4, <1>5, SumAgrees
<1>8. \A i \in ids : Amount(rows)[i] >= 0 /\ Invoice(rows, d)[i] >= 0
  BY <1>2, <1>3
<1> QED BY <1>1, <1>4, <1>6, <1>7, <1>8

(***************************************************************************)
(* What a pool leaves open of invoices, the oldest first.                  *)
(***************************************************************************)
Older(ids, i) == {j \in ids : Before(j, i)}

Ordered(ids) ==
    /\ ids \subseteq DOMAIN tx
    /\ \A i \in ids : tx[i].date \in Int /\ tx[i].seq \in Int
    /\ \A i, j \in ids : tx[i].seq = tx[j].seq => i = j

Takes(open, pool, ids, i) == Min({open[i], Max({0, pool - SumOver(open, Older(ids, i))})})

LEMMA BeforeOrders ==
    ASSUME NEW ids, Ordered(ids)
    PROVE  /\ \A i \in ids : ~Before(i, i)
           /\ \A i, j \in ids : i = j \/ Before(i, j) \/ Before(j, i)
           /\ \A i, j \in ids : Before(i, j) => ~Before(j, i)
           /\ \A i, j, k \in ids : Before(i, j) /\ Before(j, k) => Before(i, k)
BY DEF Ordered, Before

(* There is a latest invoice.                                              *)
LEMMA LatestOf ==
    ASSUME NEW ids, Ordered(ids), IsFiniteSet(ids), ids # {}
    PROVE  \E m \in ids : \A j \in ids \ {m} : Before(j, m)
<1> DEFINE good == {T \in SUBSET ids : T # {} => \E m \in T : \A j \in T \ {m} : Before(j, m)}
<1>1. ASSUME NEW T \in SUBSET ids, \A U \in SUBSET T : U # T => U \in good
      PROVE  T \in good
  <2>1. CASE T # {}
    <3>1. PICK e \in T : TRUE
      BY <2>1
    <3>2. CASE T = {e}
      BY <3>2
    <3>3. CASE T # {e}
      <4>1. T \ {e} \in good /\ T \ {e} # {}
        BY <1>1, <3>1, <3>3
      <4>2. PICK m \in T \ {e} : \A j \in (T \ {e}) \ {m} : Before(j, m)
        BY <4>1
      <4>3. CASE Before(e, m)
        BY <4>2, <4>3
      <4>4. CASE ~Before(e, m)
        <5>1. Before(m, e)
          BY <3>1, <4>2, <4>4, BeforeOrders
        <5>2. \A j \in T \ {e} : Before(j, e)
          BY <3>1, <4>2, <5>1, BeforeOrders
        <5> QED BY <5>2
      <4> QED BY <4>3, <4>4
    <3> QED BY <3>2, <3>3
  <2> QED BY <2>1
<1>2. ids \in good
  <2> HIDE DEF good
  <2> QED BY <1>1, InductOnSubsets
<1> QED BY <1>2

(* The pool is given out until it is empty, or nothing is open.            *)
LEMMA PoolGivenOut ==
    ASSUME NEW ids, Ordered(ids), NEW open, Ints(open, ids), \A i \in ids : open[i] >= 0,
           NEW pool \in Nat, NEW takes, \A i \in ids : takes[i] = Takes(open, pool, ids, i)
    PROVE  /\ Ints(takes, ids)
           /\ SumOver(takes, ids) = Min({pool, SumOver(open, ids)})
<1> DEFINE tk(T) == [i \in ids |-> Takes(open, pool, T, i)]
           good == {T \in SUBSET ids : SumOver(tk(T), T) = Min({pool, SumOver(open, T)})}
<1>0. ASSUME NEW T \in SUBSET ids PROVE Ints(tk(T), T)
  <2>1. ASSUME NEW i \in T PROVE tk(T)[i] \in Int
    <3>1. open[i] \in Int
      BY DEF Ints
    <3>2. SumOver(open, Older(T, i)) \in Int
      <4>1. Older(T, i) \in SUBSET ids
        BY DEF Older
      <4> QED BY <4>1, IntsBelow, SumInt
    <3>3. tk(T)[i] = Takes(open, pool, T, i)
      OBVIOUS
    <3> HIDE DEF tk
    <3> DEFINE s == SumOver(open, Older(T, i))
               x == Max({0, pool - s})
    <3>4. x \in Int
      <4> HIDE DEF s
      <4>1. pool - s \in Int
        BY <3>2 DEF s
      <4> QED BY <4>1, MaxOfTwo
    <3>5. tk(T)[i] = Min({open[i], x})
      BY <3>3 DEF Takes
    <3> HIDE DEF x
    <3> QED BY <3>1, <3>4, <3>5, MinOfTwo
  <2>2. IsFiniteSet(T)
    BY FS_Subset DEF Ints
  <2> HIDE DEF tk
  <2> QED BY <2>1, <2>2 DEF Ints
<1>1. ASSUME NEW T \in SUBSET ids, \A U \in SUBSET T : U # T => U \in good
      PROVE  T \in good
  <2>1. CASE T = {}
    <3>1. SumOver(tk(T), T) = 0 /\ SumOver(open, T) = 0
      BY <2>1, SumOfNone
    <3>2. Min({pool, 0}) = 0
      BY MinOfTwo
    <3> HIDE DEF tk
    <3> QED BY <3>1, <3>2
  <2>2. CASE T # {}
    <3>0. Ordered(T) /\ IsFiniteSet(T)
      BY FS_Subset DEF Ordered, Ints
    <3>1. PICK m \in T : \A j \in T \ {m} : Before(j, m)
      BY <2>2, <3>0, LatestOf
    <3> DEFINE U == T \ {m}
               s == SumOver(open, U)
    <3>2. U \in good
      BY <1>1
    <3>3. Older(T, m) = U
      BY <3>0, <3>1, BeforeOrders DEF Older
    <3>4. \A i \in U : Older(T, i) = Older(U, i)
      BY <3>0, <3>1, BeforeOrders DEF Older
    <3>5. \A i \in U : tk(T)[i] = tk(U)[i]
      BY <3>4 DEF Takes
    <3>6. tk(T)[m] = Takes(open, pool, T, m)
      OBVIOUS
    <3>7. U \in SUBSET ids /\ m \in ids /\ T = U \cup {m} /\ m \notin U /\ m \in T
      OBVIOUS
    <3>8. SumOver(tk(U), U) = Min({pool, s})
      BY <3>2
    <3>9. Ints(tk(T), T) /\ Ints(tk(T), U) /\ Ints(tk(U), U)
      <4> HIDE DEF tk, U
      <4>1. Ints(tk(T), T) /\ Ints(tk(U), U)
        BY <1>0, <3>7
      <4>2. U \in SUBSET T
        BY <3>7
      <4> QED BY <4>1, <4>2, IntsBelow
    <3> HIDE DEF tk
    <3>10. SumOver(tk(T), T) = tk(T)[m] + SumOver(tk(T), U)
      BY <3>9, SumSplits
    <3>11. SumOver(tk(T), U) = SumOver(tk(U), U)
      <4> HIDE DEF U
      <4> QED BY <3>5, <3>9, SumAgrees
    <3>12. /\ SumOver(open, T) = open[m] + s /\ s \in Int /\ open[m] \in Int
      <4>1. Ints(open, T)
        BY IntsBelow
      <4> QED BY <4>1, SumSplits
    <3>13. s >= 0
      <4>1. U \in SUBSET ids
        BY <3>7
      <4> HIDE DEF U
      <4> QED BY <4>1, SumOfFewer
    <3>14. tk(T)[m] = Min({open[m], Max({0, pool - s})})
      BY <3>3, <3>6 DEF Takes
    <3>15. open[m] >= 0
      BY <3>7
    <3> DEFINE o == open[m]
               full == SumOver(tk(T), T)
               all == SumOver(open, T)
               x == Max({0, pool - s})
    <3>16. full = Min({o, x}) + Min({pool, s}) /\ all = o + s
      BY <3>8, <3>10, <3>11, <3>12, <3>14
    <3>17. o \in Int /\ s \in Int /\ o >= 0 /\ s >= 0
      BY <3>12, <3>13, <3>15
    <3> HIDE DEF o, s, x, full, all
    <3>18. x = IF 0 >= pool - s THEN 0 ELSE pool - s
      BY <3>17, MaxOfTwo DEF x
    <3>19. Min({o, x}) = IF o <= x THEN o ELSE x
      BY <3>17, <3>18, MinOfTwo
    <3>20. Min({pool, s}) = IF pool <= s THEN pool ELSE s
      BY <3>17, MinOfTwo
    <3>21. Min({pool, all}) = IF pool <= all THEN pool ELSE all
      BY <3>16, <3>17, MinOfTwo
    <3>22. full = Min({pool, all})
      BY <3>16, <3>17, <3>18, <3>19, <3>20, <3>21
    <3> QED BY <3>22 DEF full, all
  <2> QED BY <2>1, <2>2
<1>2. ids \in good
  <2> HIDE DEF good
  <2> QED BY <1>1, InductOnSubsets DEF Ints
<1>3. Ints(tk(ids), ids) /\ \A i \in ids : tk(ids)[i] = takes[i]
  BY <1>0
<1> HIDE DEF tk
<1>4. SumOver(tk(ids), ids) = SumOver(takes, ids)
  BY <1>3, SumAgrees
<1>5. Ints(takes, ids)
  BY <1>3 DEF Ints
<1> QED BY <1>2, <1>4, <1>5

(* What an invoice finds in the pool.                                      *)
Found(open, pool, ids, i) == Max({0, pool - SumOver(open, Older(ids, i))})

(* Allocate is computeDirection's loop: the oldest invoice finds the whole *)
(* pool, and each next one what the one before it did not take.            *)
THEOREM AllocationLoops ==
    ASSUME NEW ids, Ordered(ids), NEW open, Ints(open, ids), \A i \in ids : open[i] >= 0,
           NEW pool \in Nat
    PROVE  /\ \A i \in ids : Older(ids, i) = {} => Found(open, pool, ids, i) = pool
           /\ \A i, m \in ids :
                Older(ids, m) = Older(ids, i) \cup {i} =>
                  Found(open, pool, ids, m) = Found(open, pool, ids, i) - Takes(open, pool, ids, i)
<1>1. ASSUME NEW i \in ids, Older(ids, i) = {}
      PROVE  Found(open, pool, ids, i) = pool
  <2>1. Found(open, pool, ids, i) = Max({0, pool - 0})
    BY <1>1, SumOfNone DEF Found
  <2>2. Max({0, pool - 0}) = pool
    BY MaxOfTwo
  <2> QED BY <2>1, <2>2
<1>2. ASSUME NEW i \in ids, NEW m \in ids, Older(ids, m) = Older(ids, i) \cup {i}
      PROVE  Found(open, pool, ids, m) = Found(open, pool, ids, i) - Takes(open, pool, ids, i)
  <2> DEFINE older == Older(ids, i)
             s == SumOver(open, older)
             o == open[i]
             x == Found(open, pool, ids, i)
             y == Found(open, pool, ids, m)
             take == Takes(open, pool, ids, i)
  <2>1. i \notin older /\ older \cup {i} \in SUBSET ids
    BY BeforeOrders DEF Older
  <2> HIDE DEF older
  <2>2. Ints(open, older \cup {i})
    BY <2>1, IntsBelow
  <2>3. SumOver(open, older \cup {i}) = s + o /\ s \in Int /\ o \in Int /\ o >= 0
    BY <2>1, <2>2, SumGrows
  <2>4. /\ x = Max({0, pool - s}) /\ y = Max({0, pool - (s + o)})
        /\ take = Min({o, Max({0, pool - s})})
    BY <1>2, <2>3 DEF Found, Takes, older
  <2> HIDE DEF s, o, x, y, take
  <2>5. x = IF 0 >= pool - s THEN 0 ELSE pool - s
    BY <2>3, <2>4, MaxOfTwo
  <2>6. y = IF 0 >= pool - (s + o) THEN 0 ELSE pool - (s + o)
    BY <2>3, <2>4, MaxOfTwo
  <2>7. take = IF o <= x THEN o ELSE x
    BY <2>3, <2>4, <2>5, MinOfTwo
  <2>8. y = x - take
    BY <2>3, <2>5, <2>6, <2>7
  <2> QED BY <2>8 DEF x, y, take
<1> QED BY <1>1, <1>2

(***************************************************************************)
(* computeDirection().                                                     *)
(***************************************************************************)
AppliedOn(invoices, payments) == [i \in invoices |-> AppliedTo(i, payments)]

OpenOn(invoices, d, payments) ==
    [i \in invoices |-> Max({0, Original(tx[i], d) - AppliedTo(i, payments)})]

General(invoices, payments) == Total({p \in payments : tx[p].applied \notin invoices})

Opened(c, d, invoices, payments) == Min({General(invoices, payments), OpeningOwed(c, d)})

Pool(c, d, invoices, payments) ==
    General(invoices, payments) - Opened(c, d, invoices, payments)

(* What has been read.                                                     *)
Read(c, d, invoices, payments) ==
    /\ Rows(tx) /\ Numbered(tx) /\ c \in Contact /\ d \in Direction
    /\ invoices \subseteq DOMAIN tx /\ payments \subseteq DOMAIN tx

LEMMA OwedAtOpening ==
    ASSUME NEW c \in Contact, NEW d
    PROVE  OpeningOwed(c, d) \in Nat
<1>1. Opening[c] \in Int
  BY StartAssumption
<1> DEFINE o == IF d = "RECEIVABLE" THEN Opening[c] ELSE -Opening[c]
<1>2. o \in Int
  BY <1>1
<1> HIDE DEF o
<1>3. Max({0, o}) \in Nat
  BY <1>2, MaxOfTwo
<1> QED BY <1>3 DEF OpeningOwed, o

LEMMA PartsTyped ==
    ASSUME NEW c, NEW d, NEW invoices, NEW payments, Read(c, d, invoices, payments)
    PROVE  /\ General(invoices, payments) \in Nat
           /\ Opened(c, d, invoices, payments) \in Nat
           /\ Opened(c, d, invoices, payments) <= OpeningOwed(c, d)
           /\ Opened(c, d, invoices, payments) <= General(invoices, payments)
           /\ Pool(c, d, invoices, payments) \in Nat
           /\ Pool(c, d, invoices, payments) > 0
                => Opened(c, d, invoices, payments) = OpeningOwed(c, d)
           /\ OpeningOwed(c, d) \in Nat
           /\ Total(payments) \in Nat
           /\ Ints(AppliedOn(invoices, payments), invoices)
           /\ Ints(OpenOn(invoices, d, payments), invoices)
           /\ Ints(Invoice(tx, d), invoices)
           /\ Invoiced(tx, invoices, d) = SumOver(Invoice(tx, d), invoices)
           /\ Ordered(invoices)
           /\ \A i \in invoices :
                /\ AppliedTo(i, payments) \in Nat
                /\ Original(tx[i], d) \in Nat /\ Invoice(tx, d)[i] = Original(tx[i], d)
                /\ OpenOn(invoices, d, payments)[i] =
                     IF Original(tx[i], d) >= AppliedTo(i, payments)
                     THEN Original(tx[i], d) - AppliedTo(i, payments) ELSE 0
           /\ Total(payments) = SumOver(AppliedOn(invoices, payments), invoices)
                                  + General(invoices, payments)
<1>0. Rows(tx) /\ invoices \in SUBSET DOMAIN tx /\ payments \in SUBSET DOMAIN tx /\ c \in Contact
  BY DEF Read
<1>1. ASSUME NEW S \in SUBSET payments
      PROVE  Total(S) \in Nat /\ Total(S) = SumOver(Amount(tx), S) /\ Ints(Amount(tx), S)
  <2>1. /\ Ints(Amount(tx), S) /\ Amounts(tx, S) = SumOver(Amount(tx), S)
        /\ \A i \in S : Amount(tx)[i] >= 0
    BY <1>0, Columns
  <2>2. SumOver(Amount(tx), S) \in Int /\ 0 <= SumOver(Amount(tx), S)
    BY <2>1, SumInt, SumOfFewer
  <2> QED BY <2>1, <2>2 DEF Total
<1>2. General(invoices, payments) \in Nat /\ Total(payments) \in Nat
  BY <1>1 DEF General
<1>3. OpeningOwed(c, d) \in Nat
  BY <1>0, OwedAtOpening
<1>4. Opened(c, d, invoices, payments) =
        IF General(invoices, payments) <= OpeningOwed(c, d)
        THEN General(invoices, payments) ELSE OpeningOwed(c, d)
  BY <1>2, <1>3, MinOfTwo DEF Opened
<1>5. \A i \in invoices : AppliedTo(i, payments) \in Nat
  BY <1>1 DEF AppliedTo
<1>6. /\ Ints(Invoice(tx, d), invoices) /\ IsFiniteSet(invoices)
      /\ Invoiced(tx, invoices, d) = SumOver(Invoice(tx, d), invoices)
  BY <1>0, Columns
<1>7. ASSUME NEW i \in invoices
      PROVE  /\ Original(tx[i], d) \in Nat /\ Invoice(tx, d)[i] = Original(tx[i], d)
             /\ OpenOn(invoices, d, payments)[i] =
                     IF Original(tx[i], d) >= AppliedTo(i, payments)
                     THEN Original(tx[i], d) - AppliedTo(i, payments) ELSE 0
             /\ OpenOn(invoices, d, payments)[i] \in Int
             /\ AppliedOn(invoices, payments)[i] \in Int
  <2>1. Original(tx[i], d) \in Nat /\ Invoice(tx, d)[i] = Original(tx[i], d)
    BY <1>0, RowFields DEF Rows, Invoice
  <2>2. AppliedTo(i, payments) \in Nat
    BY <1>5
  <2> DEFINE o == Original(tx[i], d)
             a == AppliedTo(i, payments)
  <2>3. OpenOn(invoices, d, payments)[i] = Max({0, o - a}) /\ AppliedOn(invoices, payments)[i] = a
    BY DEF OpenOn, AppliedOn
  <2>4. o \in Nat /\ a \in Nat
    BY <2>1, <2>2
  <2> HIDE DEF o, a
  <2>5. Max({0, o - a}) = IF o >= a THEN o - a ELSE 0
    <3>1. o - a \in Int /\ (0 >= o - a <=> a >= o)
      BY <2>4
    <3>2. Max({0, o - a}) = IF 0 >= o - a THEN 0 ELSE o - a
      BY <3>1, MaxOfTwo
    <3> QED BY <2>4, <3>1, <3>2
  <2> QED BY <2>1, <2>3, <2>4, <2>5 DEF o, a
<1>8. Ints(AppliedOn(invoices, payments), invoices) /\ Ints(OpenOn(invoices, d, payments), invoices)
  BY <1>6, <1>7 DEF Ints
<1>9. Ordered(invoices)
  <2>1. \A i \in invoices : tx[i].date \in Int /\ tx[i].seq \in Int
    BY <1>0, RowFields DEF Rows
  <2> QED BY <1>0, <2>1 DEF Read, Ordered, Numbered
<1>10. Total(payments) = SumOver(AppliedOn(invoices, payments), invoices)
                                  + General(invoices, payments)
  <2> DEFINE of == [p \in payments |-> tx[p].applied]
  <2>1. \A k \in invoices : {p \in payments : of[p] = k} = {p \in payments : tx[p].applied = k}
    OBVIOUS
  <2>2. {p \in payments : of[p] \notin invoices} = {p \in payments : tx[p].applied \notin invoices}
    OBVIOUS
  <2>3. \A k \in invoices : AppliedOn(invoices, payments)[k]
                              = SumOver(Amount(tx), {p \in payments : of[p] = k})
    <3>1. \A k \in invoices : AppliedOn(invoices, payments)[k]
                              = Total({p \in payments : tx[p].applied = k})
      BY DEF AppliedOn, AppliedTo
    <3> QED BY <1>1, <2>1, <3>1
  <2>4. General(invoices, payments) = SumOver(Amount(tx), {p \in payments : of[p] \notin invoices})
    BY <1>1, <2>2 DEF General
  <2>5. Total(payments) = SumOver(Amount(tx), payments) /\ Ints(Amount(tx), payments)
    BY <1>1
  <2> HIDE DEF of
  <2>6. SumOver(Amount(tx), payments)
          = SumOver(AppliedOn(invoices, payments), invoices)
            + SumOver(Amount(tx), {p \in payments : of[p] \notin invoices})
    BY <1>6, <2>3, <2>5, SumOfGroups
  <2> QED BY <2>4, <2>5, <2>6
<1> QED BY <1>2, <1>3, <1>4, <1>5, <1>6, <1>7, <1>8, <1>9, <1>10 DEF Pool

(* An invoice has what was open of it, less what it takes from the pool.   *)
LEMMA LeftOf ==
    ASSUME NEW c, NEW d, NEW invoices, NEW payments, Read(c, d, invoices, payments),
           NEW i \in invoices
    PROVE  LET b == Breakdown(c, d, invoices, payments)
               open == OpenOn(invoices, d, payments)
               pool == Pool(c, d, invoices, payments)
               take == Takes(open, pool, invoices, i)
               older == SumOver(open, Older(invoices, i))
           IN  /\ DOMAIN b.left = invoices
               /\ b.left[i] = open[i] - take
               /\ take \in Nat /\ take <= open[i] /\ open[i] \in Nat
               /\ older \in Nat
               /\ take = IF pool <= older THEN 0
                         ELSE IF open[i] <= pool - older THEN open[i] ELSE pool - older
<1> DEFINE b == Breakdown(c, d, invoices, payments)
           open == OpenOn(invoices, d, payments)
           pool == Pool(c, d, invoices, payments)
           take == Takes(open, pool, invoices, i)
           older == SumOver(open, Older(invoices, i))
           orig == Original(tx[i], d)
           a == AppliedTo(i, payments)
<1>1. /\ open[i] = IF orig >= a THEN orig - a ELSE 0
      /\ orig \in Nat /\ a \in Nat /\ pool \in Nat
  BY PartsTyped
<1>2. older \in Nat
  <2>1. Ints(open, invoices) /\ \A j \in invoices : open[j] >= 0
    <3>1. \A j \in invoices : /\ Original(tx[j], d) \in Nat /\ AppliedTo(j, payments) \in Nat
                              /\ open[j] = IF Original(tx[j], d) >= AppliedTo(j, payments)
                                 THEN Original(tx[j], d) - AppliedTo(j, payments) ELSE 0
      BY PartsTyped
    <3>2. Ints(open, invoices)
      BY PartsTyped
    <3> HIDE DEF open
    <3> QED BY <3>1, <3>2
  <2>2. Older(invoices, i) \in SUBSET invoices
    BY DEF Older
  <2> HIDE DEF open
  <2>3. older \in Int /\ 0 <= older
    BY <2>1, <2>2, IntsBelow, SumInt, SumOfFewer
  <2> QED BY <2>3
<1>3. /\ DOMAIN b.left = invoices
      /\ b.left[i] = Max({0, orig - (a + Min({open[i], Max({0, pool - older})}))})
  BY Zenon DEF Breakdown, Allocate, OpeningPaid, OpenOn, Opened, Pool, General, Older
<1>4. take = Min({open[i], Max({0, pool - older})})
  BY DEF Takes
<1> DEFINE o == open[i]
           x == Max({0, pool - older})
<1>5. o = (IF orig >= a THEN orig - a ELSE 0) /\ take = Min({o, x})
      /\ b.left[i] = Max({0, orig - (a + Min({o, x}))})
  BY <1>1, <1>3, <1>4
<1> HIDE DEF b, open, pool, take, older, orig, a, o, x
<1>6. x = IF pool <= older THEN 0 ELSE pool - older
  <2>1. pool - older \in Int /\ (0 >= pool - older <=> pool <= older)
    BY <1>1, <1>2
  <2> QED BY <1>1, <1>2, <2>1, MaxOfTwo DEF x
<1>7. x \in Nat /\ o \in Nat
  BY <1>1, <1>2, <1>5, <1>6
<1>8. take = IF o <= x THEN o ELSE x
  BY <1>5, <1>7, MinOfTwo
<1>9. b.left[i] = o - take
  <2>1. orig - (a + take) \in Int
    BY <1>1, <1>7, <1>8
  <2>2. Max({0, orig - (a + take)}) = IF 0 >= orig - (a + take) THEN 0 ELSE orig - (a + take)
    BY <2>1, MaxOfTwo
  <2>3. b.left[i] = Max({0, orig - (a + take)})
    BY <1>5
  <2>4. b.left[i] = IF 0 >= orig - (a + take) THEN 0 ELSE orig - (a + take)
    BY <2>2, <2>3
  <2>5. o = (IF orig >= a THEN orig - a ELSE 0) /\ take = (IF o <= x THEN o ELSE x)
    BY <1>5, <1>8
  <2>6. CASE orig >= a
    BY <1>1, <1>7, <2>4, <2>5, <2>6
  <2>7. CASE ~(orig >= a)
    <3>1. o = 0 /\ take = 0
      BY <1>7, <2>5, <2>7
    <3> QED BY <1>1, <2>4, <2>7, <3>1
  <2> QED BY <1>1, <2>6, <2>7
<1>10. /\ take \in Nat /\ take <= o
       /\ take = IF pool <= older THEN 0 ELSE IF o <= pool - older THEN o ELSE pool - older
  BY <1>1, <1>2, <1>6, <1>7, <1>8
<1> QED BY <1>2, <1>3, <1>7, <1>9, <1>10 DEF b, open, pool, take, older, o

(* What is left is what was open less the pool, or nothing.                *)
LEMMA LeftInAll ==
    ASSUME NEW c, NEW d, NEW invoices, NEW payments, Read(c, d, invoices, payments)
    PROVE  LET b == Breakdown(c, d, invoices, payments)
               open == SumOver(OpenOn(invoices, d, payments), invoices)
               pool == Pool(c, d, invoices, payments)
           IN  /\ open \in Nat
               /\ Ints(b.left, invoices) /\ \A i \in invoices : b.left[i] >= 0
               /\ SumOver(b.left, invoices) = IF pool <= open THEN open - pool ELSE 0
<1> DEFINE b == Breakdown(c, d, invoices, payments)
           open == OpenOn(invoices, d, payments)
           pool == Pool(c, d, invoices, payments)
           takes == [i \in invoices |-> Takes(open, pool, invoices, i)]
           left == b.left
<1>1. ASSUME NEW i \in invoices
      PROVE  left[i] = open[i] - takes[i] /\ takes[i] \in Nat /\ takes[i] <= open[i] /\ open[i] \in Nat
  <2>1. takes[i] = Takes(open, pool, invoices, i)
    OBVIOUS
  <2>2. /\ left[i] = open[i] - Takes(open, pool, invoices, i)
        /\ Takes(open, pool, invoices, i) \in Nat /\ Takes(open, pool, invoices, i) <= open[i]
        /\ open[i] \in Nat
    BY LeftOf
  <2> QED BY <2>1, <2>2
<1>2. \A i \in invoices : takes[i] = Takes(open, pool, invoices, i)
  OBVIOUS
<1>3. Ints(open, invoices) /\ Ordered(invoices) /\ pool \in Nat
  BY PartsTyped
<1> HIDE DEF b, open, pool, takes, left
<1>4. Ints(takes, invoices) /\ SumOver(takes, invoices) = Min({pool, SumOver(open, invoices)})
  <2>1. \A i \in invoices : open[i] >= 0
    BY <1>1
  <2> QED BY <1>2, <1>3, <2>1, PoolGivenOut
<1>5. Ints(left, invoices) /\ \A i \in invoices : left[i] >= 0
  BY <1>1, <1>3 DEF Ints
<1>6. \A i \in invoices : open[i] = left[i] + takes[i]
  BY <1>1
<1>7. SumOver(open, invoices) = SumOver(left, invoices) + SumOver(takes, invoices)
  BY <1>4, <1>5, <1>6, SumOfSums
<1>8. SumOver(open, invoices) \in Nat /\ SumOver(left, invoices) \in Int
  <2>1. \A i \in invoices : open[i] >= 0
    BY <1>1
  <2>2. 0 <= SumOver(open, invoices) /\ SumOver(open, invoices) \in Int
    BY <1>3, <2>1, SumOfFewer, SumInt
  <2>3. SumOver(left, invoices) \in Int
    BY <1>5, SumInt
  <2> QED BY <2>2, <2>3
<1>9. Min({pool, SumOver(open, invoices)})
        = IF pool <= SumOver(open, invoices) THEN pool ELSE SumOver(open, invoices)
  BY <1>3, <1>8, MinOfTwo
<1>10. SumOver(left, invoices)
         = IF pool <= SumOver(open, invoices) THEN SumOver(open, invoices) - pool ELSE 0
  BY <1>3, <1>4, <1>7, <1>8, <1>9
<1> QED BY <1>5, <1>8, <1>10 DEF b, open, pool, left

(* While an invoice has something left, so much is left in all.            *)
LEMMA LeftIsOwed ==
    ASSUME NEW c, NEW d, NEW invoices, NEW payments, Read(c, d, invoices, payments),
           NEW t \in invoices, Breakdown(c, d, invoices, payments).left[t] > 0
    PROVE  Breakdown(c, d, invoices, payments).left[t]
             <= SumOver(OpenOn(invoices, d, payments), invoices) - Pool(c, d, invoices, payments)
<1> DEFINE open == OpenOn(invoices, d, payments)
           pool == Pool(c, d, invoices, payments)
           take == Takes(open, pool, invoices, t)
           before == Older(invoices, t)
           older == SumOver(open, before)
           left == Breakdown(c, d, invoices, payments).left[t]
<1>1. /\ left = open[t] - take /\ take \in Nat /\ take <= open[t] /\ open[t] \in Nat
      /\ older \in Nat
      /\ take = IF pool <= older THEN 0
                ELSE IF open[t] <= pool - older THEN open[t] ELSE pool - older
  BY LeftOf
<1>2. Ints(open, invoices) /\ pool \in Nat /\ Ordered(invoices)
  BY PartsTyped
<1>3. \A i \in invoices : open[i] >= 0
  <2>1. \A i \in invoices : open[i] \in Nat
    BY LeftOf
  <2> HIDE DEF open
  <2> QED BY <2>1
<1>4. t \notin before /\ before \cup {t} \in SUBSET invoices
  BY <1>2, BeforeOrders DEF Older
<1>5. left > 0
  OBVIOUS
<1> HIDE DEF open, pool, take, before, left, older
<1>6. Ints(open, before \cup {t})
  BY <1>2, <1>4, IntsBelow
<1>7. SumOver(open, before \cup {t}) = older + open[t]
  BY <1>4, <1>6, SumGrows DEF older
<1>8. SumOver(open, before \cup {t}) <= SumOver(open, invoices) /\ SumOver(open, invoices) \in Int
  BY <1>2, <1>3, <1>4, SumOfFewer, SumInt
<1>9. left <= SumOver(open, invoices) - pool
  BY <1>1, <1>2, <1>5, <1>7, <1>8
<1> QED BY <1>9 DEF left, open, pool

(* An amount that can be taken on top of what has been.                    *)
FitsOwed(rows, c, d, amount, t) ==
    LET taken == Taken(rows, c, d)
    IN  /\ amount + Amounts(rows, taken) <= OpeningOwed(c, d) + Invoiced(rows, Ever(rows, c, d), d)
        /\ t # NoRow =>
             /\ t \in DOMAIN rows
             /\ amount + Amounts(rows, {p \in taken : rows[p].applied = t}) <= Original(rows[t], d)

LEMMA LessTaken ==
    ASSUME NEW rows, Rows(rows), NEW ids \in SUBSET DOMAIN rows, NEW fewer \in SUBSET ids, NEW d
    PROVE  /\ Amounts(rows, fewer) \in Nat /\ Amounts(rows, ids) \in Nat
           /\ Amounts(rows, fewer) <= Amounts(rows, ids)
           /\ Invoiced(rows, fewer, d) \in Nat /\ Invoiced(rows, ids, d) \in Nat
           /\ Invoiced(rows, fewer, d) <= Invoiced(rows, ids, d)
<1>1. fewer \in SUBSET DOMAIN rows
  OBVIOUS
<1>2. /\ Ints(Amount(rows), ids) /\ Amounts(rows, ids) = SumOver(Amount(rows), ids)
      /\ Ints(Invoice(rows, d), ids) /\ Invoiced(rows, ids, d) = SumOver(Invoice(rows, d), ids)
      /\ \A i \in ids : Amount(rows)[i] >= 0
      /\ \A i \in ids : Invoice(rows, d)[i] >= 0
  BY Columns
<1>3. /\ Amounts(rows, fewer) = SumOver(Amount(rows), fewer)
      /\ Invoiced(rows, fewer, d) = SumOver(Invoice(rows, d), fewer)
  BY <1>1, Columns
<1>4. /\ 0 <= SumOver(Amount(rows), fewer)
      /\ SumOver(Amount(rows), fewer) <= SumOver(Amount(rows), ids)
      /\ SumOver(Amount(rows), fewer) \in Int /\ SumOver(Amount(rows), ids) \in Int
  BY <1>2, SumOfFewer, IntsBelow, SumInt
<1>5. /\ 0 <= SumOver(Invoice(rows, d), fewer)
      /\ SumOver(Invoice(rows, d), fewer) <= SumOver(Invoice(rows, d), ids)
      /\ SumOver(Invoice(rows, d), fewer) \in Int /\ SumOver(Invoice(rows, d), ids) \in Int
  BY <1>2, SumOfFewer, IntsBelow, SumInt
<1> QED BY <1>2, <1>3, <1>4, <1>5

(* What validatePaymentAmount lets pass: also with invoices that have been *)
(* voided since they were read, and with payments posted by hand.          *)
LEMMA CheckedFits ==
    ASSUME NEW c \in Contact, NEW d \in Direction, NEW invoices, Rows(tx), Numbered(tx),
           WithinOwed(tx, c, d), invoices \subseteq Ever(tx, c, d),
           NEW amount \in Nat, amount > 0, NEW t,
           Fits(amount, t, Breakdown(c, d, invoices, Payments(c, d)))
    PROVE  FitsOwed(tx, c, d, amount, t)
<1> DEFINE payments == Payments(c, d)
           taken == Taken(tx, c, d)
           ever == Ever(tx, c, d)
           b == Breakdown(c, d, invoices, payments)
           owed == OpeningOwed(c, d)
<1>1. /\ payments \in SUBSET DOMAIN tx /\ taken \in SUBSET payments /\ ever \in SUBSET DOMAIN tx
  BY DEF Payments, Counted, Taken, Ever, Named
<1>2. Read(c, d, invoices, payments) /\ Read(c, d, invoices, taken)
  BY <1>1 DEF Read
<1>3. /\ Amounts(tx, taken) \in Nat /\ Amounts(tx, taken) <= Amounts(tx, payments)
      /\ Amounts(tx, payments) \in Nat
      /\ Invoiced(tx, invoices, d) \in Nat /\ Invoiced(tx, ever, d) \in Nat
      /\ Invoiced(tx, invoices, d) <= Invoiced(tx, ever, d)
  <2>1. invoices \in SUBSET ever
    OBVIOUS
  <2> HIDE DEF payments, taken, ever
  <2> QED BY <1>1, <2>1, LessTaken
<1>4. owed \in Nat
  BY OwedAtOpening
<1>5. CASE t = NoRow
  <2>1. amount <= b.remaining + b.openingRemaining
    BY <1>5 DEF Fits
  <2> DEFINE opened == Opened(c, d, invoices, payments)
  <2>2. /\ b.remaining = Invoiced(tx, invoices, d) - (Total(payments) - opened)
        /\ b.openingRemaining = owed - opened
    BY Zenon DEF Breakdown, OpeningPaid, Opened, General
  <2>3. opened \in Nat
    BY <1>2, PartsTyped
  <2>4. Total(payments) = Amounts(tx, payments)
    BY DEF Total
  <2> HIDE DEF opened, payments, taken, ever, b, owed
  <2>5. amount + Amounts(tx, taken) <= owed + Invoiced(tx, ever, d)
    BY <1>3, <1>4, <2>1, <2>2, <2>3, <2>4
  <2> QED BY <1>5, <2>5 DEF FitsOwed, taken, owed, ever
<1>6. CASE t # NoRow
  <2>1. t \in DOMAIN b.left /\ amount <= b.left[t]
    BY <1>6 DEF Fits
  <2>2. PICK j \in invoices : TRUE
    <3>1. invoices # {}
      <4>1. SUFFICES ASSUME invoices = {} PROVE FALSE
        OBVIOUS
      <4>2. DOMAIN b.left = invoices
        BY Zenon DEF Breakdown
      <4> QED BY <2>1, <4>1, <4>2
    <3> QED BY <3>1
  <2>3. DOMAIN b.left = invoices
    BY Zenon DEF Breakdown
  <2>4. t \in invoices
    BY <2>1, <2>3
  <2> DEFINE open == OpenOn(invoices, d, payments)
             pool == Pool(c, d, invoices, payments)
             orig == Invoice(tx, d)
             all == AppliedOn(invoices, taken)
             still == [i \in invoices |-> orig[i] - all[i]]
             general == General(invoices, taken)
             left == b.left[t]
  <2>5. /\ left \in Int /\ left <= open[t] /\ left > 0 /\ open[t] \in Nat
    <3>1. /\ left = open[t] - Takes(open, pool, invoices, t) /\ open[t] \in Nat
          /\ Takes(open, pool, invoices, t) \in Nat
          /\ Takes(open, pool, invoices, t) <= open[t]
      BY <1>2, <2>4, LeftOf
    <3>2. amount <= left
      BY <2>1
    <3> HIDE DEF left, open
    <3> QED BY <3>1, <3>2
  <2>6. left <= SumOver(open, invoices) - pool
    BY <1>2, <2>4, <2>5, LeftIsOwed
  <2>7. ASSUME NEW i \in invoices
        PROVE  /\ orig[i] \in Nat /\ orig[i] = Original(tx[i], d)
               /\ all[i] \in Nat /\ all[i] = Amounts(tx, {p \in taken : tx[p].applied = i})
               /\ all[i] <= orig[i]
               /\ all[i] <= AppliedTo(i, payments) /\ AppliedTo(i, payments) \in Nat
               /\ open[i] = IF orig[i] >= AppliedTo(i, payments)
                            THEN orig[i] - AppliedTo(i, payments) ELSE 0
    <3>1. i \in DOMAIN tx
      BY <1>1
    <3>2. /\ orig[i] = Original(tx[i], d) /\ Original(tx[i], d) \in Nat
          /\ AppliedTo(i, payments) \in Nat
          /\ open[i] = IF Original(tx[i], d) >= AppliedTo(i, payments)
                       THEN Original(tx[i], d) - AppliedTo(i, payments) ELSE 0
      BY <1>2, PartsTyped
    <3>3. all[i] = Amounts(tx, {p \in taken : tx[p].applied = i})
      BY DEF AppliedOn, AppliedTo, Total
    <3>4. Amounts(tx, {p \in taken : tx[p].applied = i}) <= Original(tx[i], d)
      BY <3>1 DEF WithinOwed
    <3>5. /\ Amounts(tx, {p \in taken : tx[p].applied = i}) \in Nat
          /\ Amounts(tx, {p \in taken : tx[p].applied = i}) <= AppliedTo(i, payments)
      <4> DEFINE few == {p \in taken : tx[p].applied = i}
                 more == {p \in payments : tx[p].applied = i}
      <4>1. few \in SUBSET more /\ more \in SUBSET DOMAIN tx
        BY <1>1
      <4>2. AppliedTo(i, payments) = Amounts(tx, more)
        BY DEF AppliedTo, Total
      <4> HIDE DEF few, more
      <4>3. Amounts(tx, few) \in Nat /\ Amounts(tx, few) <= Amounts(tx, more)
        BY <4>1, LessTaken
      <4> QED BY <4>2, <4>3 DEF few
    <3> HIDE DEF orig, all, open, payments, taken
    <3> QED BY <3>2, <3>3, <3>4, <3>5
  <2>8. /\ Ints(orig, invoices) /\ Ints(all, invoices) /\ Ints(open, invoices) /\ pool \in Nat
        /\ Invoiced(tx, invoices, d) = SumOver(orig, invoices)
    BY <1>2, PartsTyped
  <2>9. /\ Total(taken) = SumOver(all, invoices) + general /\ general \in Nat
        /\ Total(taken) \in Nat
    BY <1>2, PartsTyped
  <2>10. general <= pool + owed
    <3>1. general <= General(invoices, payments)
      <4> DEFINE few == {p \in taken : tx[p].applied \notin invoices}
                 more == {p \in payments : tx[p].applied \notin invoices}
      <4>1. few \in SUBSET more /\ more \in SUBSET DOMAIN tx
        BY <1>1
      <4>2. General(invoices, payments) = Amounts(tx, more) /\ general = Amounts(tx, few)
        BY DEF General, Total
      <4> HIDE DEF few, more, general
      <4> QED BY <4>1, <4>2, LessTaken
    <3>2. /\ General(invoices, payments) \in Nat /\ Opened(c, d, invoices, payments) \in Nat
          /\ Opened(c, d, invoices, payments) <= owed
      BY <1>2, PartsTyped
    <3>3. pool = General(invoices, payments) - Opened(c, d, invoices, payments)
      BY DEF Pool
    <3> HIDE DEF general, pool, payments, owed
    <3> QED BY <1>4, <2>9, <3>1, <3>2, <3>3
  <2>11. /\ Ints(still, invoices)
         /\ SumOver(orig, invoices) = SumOver(still, invoices) + SumOver(all, invoices)
         /\ SumOver(open, invoices) <= SumOver(still, invoices)
    <3>1. \A i \in invoices : still[i] = orig[i] - all[i]
      OBVIOUS
    <3> HIDE DEF still, orig, all, open, payments
    <3>2. ASSUME NEW i \in invoices
          PROVE  still[i] \in Int /\ orig[i] = still[i] + all[i] /\ open[i] <= still[i]
      <4> DEFINE a == AppliedTo(i, payments)
      <4>1. /\ orig[i] \in Nat /\ all[i] \in Nat /\ all[i] <= orig[i] /\ all[i] <= a /\ a \in Nat
            /\ open[i] = IF orig[i] >= a THEN orig[i] - a ELSE 0
        BY <2>7
      <4>2. still[i] = orig[i] - all[i]
        BY <3>1
      <4> HIDE DEF a
      <4> QED BY <4>1, <4>2
    <3>3. Ints(still, invoices)
      BY <2>8, <3>2 DEF Ints
    <3>4. SumOver(open, invoices) <= SumOver(still, invoices)
      BY <2>8, <3>2, <3>3, SumOrder
    <3>5. SumOver(orig, invoices) = SumOver(still, invoices) + SumOver(all, invoices)
      BY <2>8, <3>2, <3>3, SumOfSums
    <3> QED BY <3>3, <3>4, <3>5
  <2>12. /\ SumOver(orig, invoices) \in Int /\ SumOver(all, invoices) \in Int
         /\ SumOver(still, invoices) \in Int /\ SumOver(open, invoices) \in Int
    <3> HIDE DEF still, orig, all, open
    <3> QED BY <2>8, <2>11, SumInt
  <2>13. amount <= left
    BY <2>1
  <2>14. amount + Amounts(tx, taken) <= owed + Invoiced(tx, ever, d)
    <3>1. Total(taken) = Amounts(tx, taken)
      BY DEF Total
    <3> HIDE DEF still, orig, all, open, general, pool, left, taken, owed, ever, payments
    <3> QED BY <1>3, <1>4, <2>5, <2>6, <2>8, <2>9, <2>10, <2>11, <2>12, <2>13, <3>1
  <2>15. amount + Amounts(tx, {p \in taken : tx[p].applied = t}) <= Original(tx[t], d)
    <3>1. /\ orig[t] \in Nat /\ orig[t] = Original(tx[t], d)
          /\ all[t] \in Nat /\ all[t] = Amounts(tx, {p \in taken : tx[p].applied = t})
          /\ all[t] <= AppliedTo(t, payments) /\ AppliedTo(t, payments) \in Nat
          /\ open[t] = IF orig[t] >= AppliedTo(t, payments)
                            THEN orig[t] - AppliedTo(t, payments) ELSE 0
      BY <2>4, <2>7
    <3> HIDE DEF orig, all, open, left, payments, taken
    <3> QED BY <2>5, <2>13, <3>1
  <2>16. t \in DOMAIN tx
    BY <1>1, <2>4
  <2> HIDE DEF still, orig, all, open, general, pool, left, payments
  <2> QED BY <2>14, <2>15, <2>16 DEF FitsOwed
<1> QED BY <1>5, <1>6

(***************************************************************************)
(* What the reads of one moment say of each other.                         *)
(***************************************************************************)
AllShaped(rows) == \A i \in DOMAIN rows : Live(rows[i]) => Shaped(rows[i])

Booked ==
    Rows(tx) /\ Numbered(tx) /\ AllShaped(tx) /\ VoidsCancel(tx) /\ PaymentsWithinOwed

LEMMA ReadNow ==
    ASSUME Rows(tx), Numbered(tx), NEW c \in Contact, NEW d \in Direction
    PROVE  Read(c, d, Invoices(c, d), Payments(c, d))
BY DEF Read, Invoices, Payments, Counted, Named

(* What an older invoice has left goes before a younger one.               *)
LEMMA OldestPaid ==
    ASSUME Rows(tx), Numbered(tx)
    PROVE  PaidOldestFirst
<1> SUFFICES ASSUME NEW c \in Contact, NEW d \in Direction
             PROVE  LET b == BreakdownNow(c, d)
                        given(i) == Original(tx[i], d) - b.left[i] - AppliedTo(i, Payments(c, d))
                    IN  \A j \in DOMAIN b.left :
                          given(j) > 0 =>
                             /\ b.openingRemaining = 0
                             /\ \A i \in DOMAIN b.left : Before(i, j) => b.left[i] = 0
  BY DEF PaidOldestFirst
<1> DEFINE invoices == Invoices(c, d)
           payments == Payments(c, d)
           b == Breakdown(c, d, invoices, payments)
           open == OpenOn(invoices, d, payments)
           pool == Pool(c, d, invoices, payments)
           opened == Opened(c, d, invoices, payments)
           older(i) == SumOver(open, Older(invoices, i))
           takes(i) == Takes(open, pool, invoices, i)
           paid(i) == AppliedTo(i, payments)
<1>1. Read(c, d, invoices, payments)
  BY ReadNow
<1>2. DOMAIN b.left = invoices /\ b.openingRemaining = OpeningOwed(c, d) - opened
  BY Zenon DEF Breakdown, OpeningPaid, Opened, General
<1>3. ASSUME NEW j \in invoices, Original(tx[j], d) - b.left[j] - paid(j) > 0
      PROVE  b.openingRemaining = 0 /\ \A i \in invoices : Before(i, j) => b.left[i] = 0
  <2>1. /\ b.left[j] = open[j] - takes(j) /\ takes(j) \in Nat /\ takes(j) <= open[j]
        /\ open[j] \in Nat /\ older(j) \in Nat
        /\ takes(j) = IF pool <= older(j) THEN 0
                      ELSE IF open[j] <= pool - older(j) THEN open[j] ELSE pool - older(j)
    BY <1>1, LeftOf
  <2>2. /\ pool \in Nat /\ opened \in Nat /\ OpeningOwed(c, d) \in Nat
        /\ pool > 0 => opened = OpeningOwed(c, d)
        /\ Ints(open, invoices) /\ Ordered(invoices)
        /\ paid(j) \in Nat /\ Original(tx[j], d) \in Nat
        /\ open[j] = IF Original(tx[j], d) >= paid(j) THEN Original(tx[j], d) - paid(j) ELSE 0
    BY <1>1, PartsTyped
  <2> DEFINE o == Original(tx[j], d)
             a == paid(j)
             l == b.left[j]
             t == takes(j)
             p == open[j]
             w == older(j)
  <2>3. pool > w
    <3>1. o - l - a > 0
      BY <1>3
    <3>2. /\ l = p - t /\ t \in Nat /\ t <= p /\ p \in Nat /\ w \in Nat /\ pool \in Nat
          /\ pool <= w => t = 0
          /\ a \in Nat /\ o \in Nat /\ p = IF o >= a THEN o - a ELSE 0
      BY <2>1, <2>2
    <3> HIDE DEF o, a, l, t, p, w, pool
    <3> QED BY <3>1, <3>2
  <2>4. b.openingRemaining = 0
    <3> HIDE DEF b, pool, opened, w
    <3>1. w \in Nat
      BY <2>1 DEF w
    <3> QED BY <1>2, <2>2, <2>3, <3>1
  <2>5. ASSUME NEW i \in invoices, Before(i, j) PROVE b.left[i] = 0
    <3>1. /\ b.left[i] = open[i] - takes(i) /\ takes(i) \in Nat /\ takes(i) <= open[i]
          /\ open[i] \in Nat /\ older(i) \in Nat
          /\ takes(i) = IF pool <= older(i) THEN 0
                        ELSE IF open[i] <= pool - older(i) THEN open[i] ELSE pool - older(i)
      BY <1>1, LeftOf
    <3>2. /\ i \notin Older(invoices, i) /\ Older(invoices, j) \in SUBSET invoices
          /\ Older(invoices, i) \cup {i} \in SUBSET Older(invoices, j)
      BY <2>2, <2>5, BeforeOrders DEF Older
    <3>3. \A k \in invoices : open[k] >= 0
      <4>1. \A k \in invoices : open[k] \in Nat
        BY <1>1, LeftOf
      <4> HIDE DEF open
      <4> QED BY <4>1
    <3> HIDE DEF b, open, pool, invoices, payments
    <3>4. Ints(open, Older(invoices, j)) /\ Ints(open, Older(invoices, i) \cup {i})
      <4>1. Older(invoices, i) \cup {i} \in SUBSET invoices
        BY <3>2
      <4> QED BY <2>2, <3>2, <4>1, IntsBelow
    <3>5. SumOver(open, Older(invoices, i) \cup {i}) = older(i) + open[i]
      BY <3>2, <3>4, SumGrows
    <3>6. SumOver(open, Older(invoices, i) \cup {i}) <= older(j)
      <4>1. \A k \in Older(invoices, j) : open[k] >= 0
        BY <3>2, <3>3
      <4> QED BY <3>2, <3>4, <4>1, SumOfFewer
    <3>7. older(j) \in Nat
      BY <2>1
    <3> HIDE DEF older, takes
    <3>8. older(i) + open[i] < pool
      BY <2>2, <2>3, <3>1, <3>5, <3>6, <3>7 DEF w
    <3> QED BY <2>2, <3>1, <3>8
  <2> QED BY <2>4, <2>5
<1> HIDE DEF invoices, payments
<1> QED BY <1>2, <1>3 DEF BreakdownNow, invoices, payments

LEMMA BucketOf ==
    ASSUME NEW due \in Int \cup {NoDue}
    PROVE  /\ Bucket(due) \in {"current", "days1to30", "days31to60", "over60"}
           /\ Bucket(due) = "current" <=> due = NoDue \/ due >= Today
<1>1. Today \in Int
  BY StartAssumption
<1>2. DaysLate(due) \in {"days1to30", "days31to60", "over60"}
  BY DEF DaysLate
<1> QED BY <1>2 DEF Bucket

(* On what no raw posting names, the payments that count are those taken.  *)
LEMMA PlainPayments ==
    ASSUME NEW c \in Contact, NEW d \in Direction, Plain(c)
    PROVE  Payments(c, d) = Taken(tx, c, d) /\ Invoices(c, d) \subseteq Ever(tx, c, d)
BY DEF Plain, Payments, Invoices, Counted, Taken, Ever, Named, Live

(* The reports of getAging, getOverdue and getDueSoon.                     *)
LEMMA ReportsAdd ==
    ASSUME Booked
    PROVE  ReportsAgree
<1> SUFFICES ASSUME NEW c \in Contact, NEW d \in Direction, Plain(c)
             PROVE  LET row == AgingRow(c, d)
                        left == BreakdownNow(c, d).left
                        sums(ids) == SumOver(left, ids)
                        late == row.buckets.days1to30 + row.buckets.days31to60 + row.buckets.over60
                    IN  /\ Max({0, row.total}) = row.buckets.current + late
                        /\ sums(Overdue(c, d)) = late
                        /\ sums(DueSoon(c, d, 7)) <= row.buckets.current
  BY DEF ReportsAgree
<1> DEFINE invoices == Invoices(c, d)
           payments == Payments(c, d)
           b == Breakdown(c, d, invoices, payments)
           left == b.left
           in(k) == {i \in invoices : Bucket(tx[i].due) = k}
           open == OpenOn(invoices, d, payments)
           pool == Pool(c, d, invoices, payments)
           opened == Opened(c, d, invoices, payments)
           orig == Invoice(tx, d)
           all == AppliedOn(invoices, payments)
           total == SumOver(left, invoices)
           cur == SumOver(left, in("current"))
           d1 == SumOver(left, in("days1to30"))
           d2 == SumOver(left, in("days31to60"))
           d3 == SumOver(left, in("over60"))
<1>1. Rows(tx) /\ Numbered(tx) /\ Read(c, d, invoices, payments)
  BY ReadNow DEF Booked
<1>2. /\ DOMAIN left = invoices
      /\ b.remaining = Invoiced(tx, invoices, d) - (Total(payments) - opened)
  BY Zenon DEF Breakdown, OpeningPaid, Opened, General
<1>3. /\ Ints(left, invoices) /\ \A i \in invoices : left[i] >= 0
      /\ SumOver(open, invoices) \in Nat
      /\ total = IF pool <= SumOver(open, invoices) THEN SumOver(open, invoices) - pool ELSE 0
  BY <1>1, LeftInAll
<1>4. SumOver(orig, invoices) = SumOver(open, invoices) + SumOver(all, invoices)
  <2>1. ASSUME NEW i \in invoices PROVE orig[i] = open[i] + all[i]
    <3>1. /\ orig[i] = Original(tx[i], d) /\ orig[i] \in Nat /\ AppliedTo(i, payments) \in Nat
          /\ open[i] = IF orig[i] >= AppliedTo(i, payments) THEN orig[i] - AppliedTo(i, payments) ELSE 0
      BY <1>1, PartsTyped
    <3>2. all[i] = AppliedTo(i, payments)
      BY DEF AppliedOn
    <3>3. AppliedTo(i, payments) <= Original(tx[i], d)
      <4>1. i \in DOMAIN tx
        BY DEF Invoices, Counted, Named
      <4>2. WithinOwed(tx, c, d)
        BY DEF Booked, PaymentsWithinOwed
      <4>3. AppliedTo(i, payments) = Amounts(tx, {p \in Taken(tx, c, d) : tx[p].applied = i})
        BY PlainPayments DEF AppliedTo, Total
      <4> QED BY <4>1, <4>2, <4>3 DEF WithinOwed
    <3> HIDE DEF orig, open, all, payments
    <3> QED BY <3>1, <3>2, <3>3
  <2>2. Ints(open, invoices) /\ Ints(all, invoices)
    BY <1>1, PartsTyped
  <2> HIDE DEF orig, open, all, invoices
  <2> QED BY <2>1, <2>2, SumOfSums
<1>5. b.remaining = SumOver(open, invoices) - pool /\ pool \in Nat
  <2>1. /\ Total(payments) = SumOver(all, invoices) + General(invoices, payments)
        /\ Invoiced(tx, invoices, d) = SumOver(orig, invoices)
        /\ Ints(all, invoices)
        /\ General(invoices, payments) \in Nat /\ opened \in Nat /\ pool \in Nat
    BY <1>1, PartsTyped
  <2>2. SumOver(all, invoices) \in Int
    <3> HIDE DEF all
    <3> QED BY <2>1, SumInt
  <2>3. pool = General(invoices, payments) - opened
    BY DEF Pool
  <2> HIDE DEF all, orig, open, pool, opened, b, invoices, payments
  <2> QED BY <1>2, <1>3, <1>4, <2>1, <2>2, <2>3
<1>6. Max({0, b.remaining}) = total
  <2> HIDE DEF b, total, open, pool, invoices, payments
  <2>1. b.remaining \in Int
    BY <1>3, <1>5
  <2>2. Max({0, b.remaining}) = IF 0 >= b.remaining THEN 0 ELSE b.remaining
    BY <2>1, MaxOfTwo
  <2> QED BY <1>3, <1>5, <2>2
<1>7. ASSUME NEW i \in invoices
      PROVE  /\ tx[i].due \in Int \cup {NoDue}
             /\ Bucket(tx[i].due) \in {"current", "days1to30", "days31to60", "over60"}
             /\ Bucket(tx[i].due) = "current" <=> tx[i].due = NoDue \/ tx[i].due >= Today
  <2>1. i \in DOMAIN tx
    BY DEF Invoices, Counted, Named
  <2>2. tx[i].due \in Int \cup {NoDue}
    BY <1>1, <2>1, RowFields DEF Rows
  <2> QED BY <2>2, BucketOf
<1> DEFINE late == in("days1to30") \cup (in("days31to60") \cup in("over60"))
<1> HIDE DEF left, b, invoices, payments, open, pool, opened, orig, all
<1>8. /\ in("current") \cap late = {} /\ in("current") \cup late = invoices
      /\ in("days1to30") \cap (in("days31to60") \cup in("over60")) = {}
      /\ in("days31to60") \cap in("over60") = {}
      /\ late \in SUBSET invoices
      /\ in("days31to60") \cup in("over60") \in SUBSET invoices
      /\ \A k \in {"current", "days1to30", "days31to60", "over60"} : in(k) \in SUBSET invoices
  BY <1>7
<1>9. /\ cur \in Int /\ d1 \in Int /\ d2 \in Int /\ d3 \in Int
      /\ SumOver(left, late) = d1 + (d2 + d3)
      /\ total = cur + SumOver(left, late)
  <2> HIDE DEF in
  <2>1. SumOver(left, late) = d1 + SumOver(left, in("days31to60") \cup in("over60"))
    BY <1>3, <1>8, IntsBelow, SumOfUnion
  <2>2. SumOver(left, in("days31to60") \cup in("over60")) = d2 + d3
    BY <1>3, <1>8, IntsBelow, SumOfUnion
  <2>3. total = cur + SumOver(left, late)
    <3> HIDE DEF late
    <3> QED BY <1>3, <1>8, SumOfUnion
  <2>4. cur \in Int /\ d1 \in Int /\ d2 \in Int /\ d3 \in Int
    BY <1>3, <1>8, IntsBelow, SumInt
  <2> QED BY <2>1, <2>2, <2>3, <2>4
<1> DEFINE over == {i \in invoices : tx[i].due # NoDue /\ tx[i].due < Today /\ left[i] > 0}
           soon == {i \in invoices : /\ tx[i].due # NoDue /\ i \notin over
                                     /\ tx[i].due <= Today + 7 /\ left[i] > 0}
<1>10. BreakdownNow(c, d) = b /\ Overdue(c, d) = over /\ DueSoon(c, d, 7) = soon
  <2>1. BreakdownNow(c, d) = b
    BY DEF BreakdownNow, b, invoices, payments
  <2>2. Overdue(c, d) = over
    BY <1>2, <2>1 DEF Overdue, left
  <2> QED BY <1>2, <2>1, <2>2 DEF DueSoon, left
<1>11. /\ AgingRow(c, d).total = b.remaining
       /\ AgingRow(c, d).buckets.current = cur
       /\ AgingRow(c, d).buckets.days1to30 = d1
       /\ AgingRow(c, d).buckets.days31to60 = d2
       /\ AgingRow(c, d).buckets.over60 = d3
  <2>1. AgingRow(c, d) = [total |-> b.remaining,
          buckets |-> [k \in {"current", "days1to30", "days31to60", "over60"} |-> SumOver(left, in(k))]]
    BY <1>2, <1>10, Zenon DEF AgingRow, left
  <2> HIDE DEF in
  <2> QED BY <2>1
<1>12. Today \in Int
  BY StartAssumption
<1>13. over \in SUBSET late /\ \A i \in late \ over : left[i] = 0
  <2>1. ASSUME NEW i \in invoices
        PROVE  /\ i \in over => i \in late
               /\ i \in late /\ i \notin over => left[i] = 0
    <3>1. left[i] \in Int /\ left[i] >= 0
      BY <1>3 DEF Ints
    <3>2. i \in late <=> Bucket(tx[i].due) # "current"
      BY <1>7
    <3> HIDE DEF late
    <3> QED BY <1>7, <1>12, <3>1, <3>2
  <2>2. over \in SUBSET invoices
    OBVIOUS
  <2> HIDE DEF late, over, in
  <2> QED BY <1>8, <2>1, <2>2
<1>14. SumOver(left, over) = SumOver(left, late)
  <2> HIDE DEF late, over, in
  <2>1. Ints(left, late)
    BY <1>3, <1>8, IntsBelow
  <2>2. over \cup (late \ over) = late /\ over \cap (late \ over) = {} /\ late \ over \in SUBSET late
    BY <1>13
  <2>3. SumOver(left, late) = SumOver(left, over) + SumOver(left, late \ over)
    BY <2>1, <2>2, SumOfUnion
  <2>4. SumOver(left, late \ over) = 0
    <3>1. IsFiniteSet(late \ over)
      BY <2>1, <2>2, IntsBelow DEF Ints
    <3> QED BY <1>13, <3>1, SumOfNothing
  <2>5. SumOver(left, over) \in Int
    BY <1>13, <2>1, IntsBelow, SumInt
  <2> QED BY <2>3, <2>4, <2>5
<1>15. SumOver(left, soon) <= cur
  <2>1. soon \in SUBSET in("current")
    <3>1. ASSUME NEW i \in soon PROVE Bucket(tx[i].due) = "current"
      <4>1. i \in invoices /\ tx[i].due # NoDue /\ i \notin over /\ left[i] > 0
        BY <3>1
      <4> HIDE DEF soon
      <4>2. ~(tx[i].due < Today)
        BY <4>1
      <4> HIDE DEF over
      <4> QED BY <1>7, <1>12, <4>1, <4>2
    <3> HIDE DEF over
    <3> QED BY <3>1
  <2>2. Ints(left, in("current")) /\ \A i \in in("current") : left[i] >= 0
    <3>1. in("current") \in SUBSET invoices
      OBVIOUS
    <3> HIDE DEF in
    <3> QED BY <1>3, <3>1, IntsBelow
  <2> HIDE DEF soon, in
  <2> QED BY <2>1, <2>2, SumOfFewer
<1> HIDE DEF cur, d1, d2, d3, total, late, over, soon
<1> QED BY <1>6, <1>9, <1>10, <1>11, <1>14, <1>15 DEF left

LEMMA BalanceNow ==
    ASSUME NEW c, NEW d
    PROVE  BreakdownNow(c, d).balance
             = Invoiced(tx, Invoices(c, d), d) - Amounts(tx, Payments(c, d))
BY Zenon DEF BreakdownNow, Breakdown, Total

(* The closing balance of the statement.                                   *)
LEMMA StatementAdds ==
    ASSUME Booked
    PROVE  StatementAgrees
<1> SUFFICES ASSUME NEW c \in Contact, Plain(c)
             PROVE  StatementClosing(c) = CurrentBalance(c)
  BY DEF StatementAgrees
<1> DEFINE named == Named(tx, c)
           live == {i \in named : Live(tx[i])}
           dead == {i \in named : ~Live(tx[i])}
           sr == Invoices(c, "RECEIVABLE")
           sp == Invoices(c, "PAYABLE")
           pr == Payments(c, "RECEIVABLE")
           pp == Payments(c, "PAYABLE")
           sign == Sign(tx)
           s(ids) == SumOver(sign, ids)
<1>1. Rows(tx) /\ named \in SUBSET DOMAIN tx /\ dead \in SUBSET DOMAIN tx
  BY DEF Booked, Named
<1>2. ASSUME NEW i \in live
      PROVE  /\ tx[i] \in Row /\ ~tx[i].raw
             /\ \/ i \in sr /\ i \notin sp \cup pr \cup pp /\ tx[i].account = "AR" /\ tx[i].entry = "DEBIT"
                \/ i \in sp /\ i \notin sr \cup pr \cup pp /\ tx[i].account = "AP" /\ tx[i].entry = "CREDIT"
                \/ i \in pr /\ i \notin sr \cup sp \cup pp /\ tx[i].account = "AR" /\ tx[i].entry = "CREDIT"
                \/ i \in pp /\ i \notin sr \cup sp \cup pr /\ tx[i].account = "AP" /\ tx[i].entry = "DEBIT"
  <2>1. i \in DOMAIN tx /\ tx[i].contact = c /\ Live(tx[i])
    BY DEF Named
  <2>2. tx[i] \in Row /\ ~tx[i].raw /\ Shaped(tx[i])
    BY <1>1, <2>1 DEF Rows, Plain, Booked, AllShaped
  <2>3. \/ tx[i].type = "SALE" /\ tx[i].account = "AR" /\ tx[i].entry = "DEBIT"
        \/ tx[i].type = "PURCHASE" /\ tx[i].account = "AP" /\ tx[i].entry = "CREDIT"
        \/ tx[i].type = "PAYMENT" /\ tx[i].account = "AR" /\ tx[i].entry = "CREDIT"
        \/ tx[i].type = "PAYMENT" /\ tx[i].account = "AP" /\ tx[i].entry = "DEBIT"
    BY <2>2 DEF Shaped
  <2> QED BY <2>1, <2>2, <2>3 DEF Invoices, Payments, Counted, Named, InvoiceType, AccountOf
<1>3. /\ sr \in SUBSET live /\ sp \in SUBSET live /\ pr \in SUBSET live /\ pp \in SUBSET live
  BY DEF Invoices, Payments, Counted
<1>4. /\ live = sr \cup (sp \cup (pr \cup pp)) /\ sr \cap (sp \cup (pr \cup pp)) = {}
      /\ sp \cap (pr \cup pp) = {} /\ pr \cap pp = {}
  <2> HIDE DEF live, sr, sp, pr, pp
  <2> QED BY <1>2, <1>3
<1>5. Ints(sign, named) /\ SignedSum(tx, named) = s(named) /\ SignedSum(tx, dead) = s(dead)
  BY <1>1, Columns
<1>6. s(named) = s(live) + s(dead) /\ s(live) \in Int
  <2>1. live \cup dead = named /\ live \cap dead = {} /\ live \in SUBSET named
    OBVIOUS
  <2> HIDE DEF live, dead, named, sign
  <2> QED BY <1>5, <2>1, IntsBelow, SumOfUnion, SumInt
<1>7. s(dead) = 0
  BY <1>5 DEF Booked, VoidsCancel
<1>8. s(live) = s(sr) + (s(sp) + (s(pr) + s(pp)))
  <2>1. live \in SUBSET named
    OBVIOUS
  <2> HIDE DEF live, named, sign, sr, sp, pr, pp
  <2>2. Ints(sign, live) /\ Ints(sign, sp \cup (pr \cup pp)) /\ Ints(sign, pr \cup pp)
    <3>1. sp \cup (pr \cup pp) \in SUBSET live /\ pr \cup pp \in SUBSET live
      BY <1>4
    <3> QED BY <1>5, <2>1, <3>1, IntsBelow
  <2>3. s(pr \cup pp) = s(pr) + s(pp)
    BY <1>4, <2>2, SumOfUnion
  <2>4. s(sp \cup (pr \cup pp)) = s(sp) + s(pr \cup pp)
    BY <1>4, <2>2, SumOfUnion
  <2>5. s(live) = s(sr) + s(sp \cup (pr \cup pp))
    <3>1. Ints(sign, sr \cup (sp \cup (pr \cup pp)))
      BY <1>4, <2>2
    <3> QED BY <1>4, <3>1, SumOfUnion
  <2> QED BY <2>3, <2>4, <2>5
<1>9. ASSUME NEW ids \in SUBSET live
      PROVE  /\ ids \in SUBSET DOMAIN tx /\ Ints(sign, ids) /\ Ints(Amount(tx), ids)
             /\ Amounts(tx, ids) = SumOver(Amount(tx), ids)
             /\ \A d : Ints(Invoice(tx, d), ids) /\ Invoiced(tx, ids, d) = SumOver(Invoice(tx, d), ids)
             /\ \A i \in ids : /\ sign[i] = Signed(tx[i]) /\ Amount(tx)[i] = tx[i].amount
                               /\ \A d : Invoice(tx, d)[i] = Original(tx[i], d)
  <2>1. ids \in SUBSET DOMAIN tx
    BY <1>1
  <2> HIDE DEF live
  <2> QED BY <1>1, <2>1, Columns DEF Amount, Invoice, Sign
<1>10. s(sr) = Invoiced(tx, sr, "RECEIVABLE") /\ s(sr) \in Int
  <2>1. ASSUME NEW i \in sr PROVE sign[i] = Invoice(tx, "RECEIVABLE")[i]
    <3>1. i \in live /\ i \in sr
      BY <1>3
    <3> HIDE DEF live, sr, sp, pr, pp, sign
    <3>2. i \notin sp \cup pr \cup pp
      BY <1>4, <3>1
    <3>3. tx[i].account = "AR" /\ tx[i].entry = "DEBIT"
      BY <1>2, <3>1, <3>2
    <3>4. sign[i] = Signed(tx[i]) /\ Invoice(tx, "RECEIVABLE")[i] = Original(tx[i], "RECEIVABLE")
      BY <1>9, <1>3
    <3> QED BY <3>3, <3>4 DEF Signed, Original, AccountOf
  <2>2. Ints(sign, sr) /\ Ints(Invoice(tx, "RECEIVABLE"), sr) /\ Invoiced(tx, sr, "RECEIVABLE") = SumOver(Invoice(tx, "RECEIVABLE"), sr)
    BY <1>3, <1>9
  <2> HIDE DEF sr, sign, live
  <2> QED BY <2>1, <2>2, SumAgrees
<1>11. s(pp) = Amounts(tx, pp) /\ s(pp) \in Int
  <2>1. ASSUME NEW i \in pp PROVE sign[i] = Amount(tx)[i]
    <3>1. i \in live /\ i \in pp
      BY <1>3
    <3> HIDE DEF live, sr, sp, pr, pp, sign
    <3>2. i \notin sr \cup sp \cup pr
      BY <1>4, <3>1
    <3>3. tx[i].account = "AP" /\ tx[i].entry = "DEBIT"
      BY <1>2, <3>1, <3>2
    <3>4. sign[i] = Signed(tx[i]) /\ Amount(tx)[i] = tx[i].amount
      BY <1>9, <1>3
    <3> QED BY <3>3, <3>4 DEF Signed
  <2>2. Ints(sign, pp) /\ Ints(Amount(tx), pp) /\ Amounts(tx, pp) = SumOver(Amount(tx), pp)
    BY <1>3, <1>9
  <2> HIDE DEF pp, sign, live
  <2> QED BY <2>1, <2>2, SumAgrees
<1>12. s(sp) = -Invoiced(tx, sp, "PAYABLE") /\ Invoiced(tx, sp, "PAYABLE") \in Int
  <2>1. ASSUME NEW i \in sp PROVE sign[i] = -Invoice(tx, "PAYABLE")[i]
    <3>1. i \in live /\ i \in sp
      BY <1>3
    <3> HIDE DEF live, sr, sp, pr, pp, sign
    <3>2. i \notin sr \cup pr \cup pp
      BY <1>4, <3>1
    <3>3. tx[i].account = "AP" /\ tx[i].entry = "CREDIT"
      BY <1>2, <3>1, <3>2
    <3>4. sign[i] = Signed(tx[i]) /\ Invoice(tx, "PAYABLE")[i] = Original(tx[i], "PAYABLE")
      BY <1>9, <1>3
    <3> QED BY <3>3, <3>4 DEF Signed, Original, AccountOf
  <2>2. Ints(sign, sp) /\ Ints(Invoice(tx, "PAYABLE"), sp) /\ Invoiced(tx, sp, "PAYABLE") = SumOver(Invoice(tx, "PAYABLE"), sp)
    BY <1>3, <1>9
  <2> HIDE DEF sp, sign, live
  <2> QED BY <2>1, <2>2, SumOfNegated, SumInt
<1>13. s(pr) = -Amounts(tx, pr) /\ Amounts(tx, pr) \in Int
  <2>1. ASSUME NEW i \in pr PROVE sign[i] = -Amount(tx)[i]
    <3>1. i \in live /\ i \in pr
      BY <1>3
    <3> HIDE DEF live, sr, sp, pr, pp, sign
    <3>2. i \notin sr \cup sp \cup pp
      BY <1>4, <3>1
    <3>3. tx[i].account = "AR" /\ tx[i].entry = "CREDIT"
      BY <1>2, <3>1, <3>2
    <3>4. sign[i] = Signed(tx[i]) /\ Amount(tx)[i] = tx[i].amount
      BY <1>9, <1>3
    <3> QED BY <3>3, <3>4 DEF Signed
  <2>2. Ints(sign, pr) /\ Ints(Amount(tx), pr) /\ Amounts(tx, pr) = SumOver(Amount(tx), pr)
    BY <1>3, <1>9
  <2> HIDE DEF pr, sign, live
  <2> QED BY <2>1, <2>2, SumOfNegated, SumInt
<1>14. /\ StatementClosing(c) = Opening[c] + SignedSum(tx, named)
       /\ CurrentBalance(c) = Opening[c] + (Invoiced(tx, sr, "RECEIVABLE") - Amounts(tx, pr))
                                - (Invoiced(tx, sp, "PAYABLE") - Amounts(tx, pp))
  BY BalanceNow DEF StatementClosing, CurrentBalance
<1>15. Opening[c] \in Int
  BY StartAssumption
<1> HIDE DEF named, live, dead, sr, sp, pr, pp, sign, s
<1> QED BY <1>5, <1>6, <1>7, <1>8, <1>10, <1>11, <1>12, <1>13, <1>14, <1>15

(***************************************************************************)
(* How the transactions change.                                            *)
(***************************************************************************)
AllLinked(rows) == \A i \in DOMAIN rows : rows[i].applied \in DOMAIN rows \cup {NoRow}

Kept(old, new) ==
    \A i \in DOMAIN old : /\ i \in DOMAIN new
                          /\ new[i].amount = old[i].amount /\ new[i].account = old[i].account
                          /\ new[i].applied = old[i].applied

(* A row of a request is added; an earlier one may become a voided one.    *)
Grown(old, new, r) ==
    /\ Rows(old) /\ Rows(new)
    /\ r \in Request /\ r \notin DOMAIN old /\ DOMAIN new = DOMAIN old \cup {r}
    /\ \A i \in DOMAIN old :
         /\ new[i].type = old[i].type /\ new[i].contact = old[i].contact
         /\ new[i].account = old[i].account /\ new[i].entry = old[i].entry
         /\ new[i].amount = old[i].amount /\ new[i].applied = old[i].applied
         /\ new[i].reversalOf = old[i].reversalOf /\ new[i].seq = old[i].seq
         /\ new[i].raw = old[i].raw
         /\ new[i].status = old[i].status \/ new[i].status = "VOIDED"
    /\ new[r].seq = Cardinality(DOMAIN old) + 1
    /\ new[r].applied \in DOMAIN old \cup {NoRow}
    /\ Live(new[r]) => Shaped(new[r])

(* A contact's rows lose it.                                               *)
Erased(old, new, c) ==
    /\ Rows(old) /\ Rows(new) /\ c # Nobody
    /\ DOMAIN new = DOMAIN old
    /\ \A i \in DOMAIN old :
         /\ new[i].type = old[i].type /\ new[i].entry = old[i].entry
         /\ new[i].account = old[i].account /\ new[i].amount = old[i].amount
         /\ new[i].applied = old[i].applied /\ new[i].reversalOf = old[i].reversalOf
         /\ new[i].seq = old[i].seq /\ new[i].raw = old[i].raw /\ new[i].status = old[i].status
         /\ IF old[i].contact = c THEN new[i].contact = Nobody ELSE new[i] = old[i]

LEMMA GrownBy ==
    ASSUME NEW old, NEW new, NEW r, Grown(old, new, r)
    PROVE  /\ Cardinality(DOMAIN new) = Cardinality(DOMAIN old) + 1
           /\ Cardinality(DOMAIN old) \in Nat
           /\ Numbered(old) => Numbered(new)
           /\ AllShaped(old) => AllShaped(new)
           /\ AllLinked(old) => AllLinked(new)
           /\ Kept(old, new)
           /\ \A c, d : /\ Ever(old, c, d) \subseteq Ever(new, c, d)
                        /\ Taken(new, c, d) \subseteq Taken(old, c, d) \cup {r}
<1>1. /\ Cardinality(DOMAIN new) = Cardinality(DOMAIN old) + 1 /\ Cardinality(DOMAIN old) \in Nat
  BY FS_AddElement, FS_CardinalityType DEF Grown, Rows
<1>2. ASSUME Numbered(old) PROVE Numbered(new)
  <2>1. \A i \in DOMAIN old : new[i].seq \in Nat /\ new[i].seq <= Cardinality(DOMAIN old)
    BY <1>2, RowFields DEF Numbered, Grown, Rows
  <2>2. new[r].seq = Cardinality(DOMAIN old) + 1 /\ DOMAIN new = DOMAIN old \cup {r}
    BY DEF Grown
  <2>3. \A i, j \in DOMAIN old : new[i].seq = new[j].seq => i = j
    BY <1>2 DEF Numbered, Grown
  <2> QED BY <1>1, <2>1, <2>2, <2>3 DEF Numbered
<1>3. ASSUME AllShaped(old) PROVE AllShaped(new)
  <2>1. ASSUME NEW i \in DOMAIN new, Live(new[i]) PROVE Shaped(new[i])
    <3>1. CASE i = r
      BY <2>1, <3>1 DEF Grown
    <3>2. CASE i # r
      <4>1. i \in DOMAIN old
        BY <3>2 DEF Grown
      <4>2. Live(old[i])
        BY <2>1, <4>1 DEF Grown, Live
      <4>3. Shaped(old[i])
        BY <1>3, <4>1, <4>2 DEF AllShaped
      <4> QED BY <4>1, <4>3 DEF Grown, Shaped
    <3> QED BY <3>1, <3>2
  <2> QED BY <2>1 DEF AllShaped
<1>4. AllLinked(old) => AllLinked(new)
  BY DEF AllLinked, Grown
<1>5. Kept(old, new)
  BY DEF Kept, Grown
<1>6. ASSUME NEW c, NEW d
      PROVE  Ever(old, c, d) \subseteq Ever(new, c, d)
  BY DEF Ever, Named, Grown
<1>7. ASSUME NEW c, NEW d
      PROVE  Taken(new, c, d) \subseteq Taken(old, c, d) \cup {r}
  BY DEF Taken, Named, Live, Grown
<1> QED BY <1>1, <1>2, <1>3, <1>4, <1>5, <1>6, <1>7

LEMMA ErasedSame ==
    ASSUME NEW old, NEW new, NEW e, Erased(old, new, e)
    PROVE  /\ Numbered(old) => Numbered(new)
           /\ AllShaped(old) => AllShaped(new)
           /\ AllLinked(old) => AllLinked(new)
           /\ Kept(old, new)
           /\ Named(new, e) = {}
           /\ \A c : c # e /\ c # Nobody =>
                /\ Named(new, c) = Named(old, c)
                /\ \A i \in Named(old, c) : i \in DOMAIN old /\ i \in DOMAIN new /\ new[i] = old[i]
           /\ \A c, d : c # e /\ c # Nobody =>
                Ever(new, c, d) = Ever(old, c, d) /\ Taken(new, c, d) = Taken(old, c, d)
<1>1. (Numbered(old) => Numbered(new)) /\ (AllLinked(old) => AllLinked(new)) /\ Kept(old, new)
  BY DEF Numbered, AllLinked, Kept, Erased
<1>2. AllShaped(old) => AllShaped(new)
  BY DEF AllShaped, Live, Shaped, Erased
<1>3. Named(new, e) = {}
  BY DEF Named, Erased
<1>4. ASSUME NEW c, c # e, c # Nobody
      PROVE  /\ Named(new, c) = Named(old, c)
             /\ \A i \in Named(old, c) : i \in DOMAIN old /\ i \in DOMAIN new /\ new[i] = old[i]
  BY <1>4 DEF Named, Erased
<1>5. ASSUME NEW c, NEW d, c # e, c # Nobody
      PROVE  Ever(new, c, d) = Ever(old, c, d) /\ Taken(new, c, d) = Taken(old, c, d)
  BY <1>4, <1>5 DEF Ever, Taken
<1> QED BY <1>1, <1>2, <1>3, <1>4, <1>5

LEMMA SumsKept ==
    ASSUME NEW old, NEW new, Kept(old, new), NEW ids \in SUBSET DOMAIN old, NEW d
    PROVE  Amounts(new, ids) = Amounts(old, ids) /\ Invoiced(new, ids, d) = Invoiced(old, ids, d)
<1>1. [i \in ids |-> new[i].amount] = [i \in ids |-> old[i].amount]
  BY DEF Kept
<1>2. [i \in ids |-> Original(new[i], d)] = [i \in ids |-> Original(old[i], d)]
  BY DEF Kept, Original
<1> QED BY <1>1, <1>2 DEF Amounts, Invoiced

(* What the contact owed, and what was taken.                              *)
LEMMA TakenKept ==
    ASSUME NEW old, NEW new, Rows(old), Rows(new), Kept(old, new), NEW c, NEW d,
           Taken(new, c, d) \subseteq Taken(old, c, d), Ever(old, c, d) \subseteq Ever(new, c, d)
    PROVE  /\ Amounts(new, Taken(new, c, d)) <= Amounts(old, Taken(old, c, d))
           /\ Amounts(new, Taken(new, c, d)) \in Nat /\ Amounts(old, Taken(old, c, d)) \in Nat
           /\ Invoiced(old, Ever(old, c, d), d) <= Invoiced(new, Ever(new, c, d), d)
           /\ Invoiced(old, Ever(old, c, d), d) \in Nat /\ Invoiced(new, Ever(new, c, d), d) \in Nat
<1> DEFINE tn == Taken(new, c, d)
           to == Taken(old, c, d)
           en == Ever(new, c, d)
           eo == Ever(old, c, d)
<1>1. to \in SUBSET DOMAIN old /\ eo \in SUBSET DOMAIN old /\ tn \in SUBSET DOMAIN new
      /\ en \in SUBSET DOMAIN new /\ tn \in SUBSET to /\ eo \in SUBSET en /\ tn \in SUBSET DOMAIN old
  BY DEF Taken, Ever, Named
<1>2. \A p \in tn : new[p].applied = old[p].applied
  BY <1>1 DEF Kept
<1> HIDE DEF tn, to, en, eo
<1>3. Amounts(new, tn) = Amounts(old, tn) /\ Invoiced(new, eo, d) = Invoiced(old, eo, d)
  BY <1>1, SumsKept
<1>4. /\ Amounts(old, tn) <= Amounts(old, to) /\ Amounts(old, tn) \in Nat /\ Amounts(old, to) \in Nat
  BY <1>1, LessTaken
<1>5. /\ Invoiced(new, eo, d) <= Invoiced(new, en, d)
      /\ Invoiced(new, eo, d) \in Nat /\ Invoiced(new, en, d) \in Nat
  BY <1>1, LessTaken
<1> QED BY <1>3, <1>4, <1>5 DEF tn, to, en, eo

(* And on one invoice.                                                     *)
On(rows, c, d, t) == Amounts(rows, {p \in Taken(rows, c, d) : rows[p].applied = t})

LEMMA TakenKeptOn ==
    ASSUME NEW old, NEW new, Rows(old), Kept(old, new), NEW c, NEW d, NEW t,
           Taken(new, c, d) \subseteq Taken(old, c, d)
    PROVE  /\ On(new, c, d, t) \in Nat /\ On(old, c, d, t) \in Nat
           /\ On(new, c, d, t) <= On(old, c, d, t)
           /\ t \in DOMAIN old =>
                /\ t \in DOMAIN new /\ Original(new[t], d) = Original(old[t], d)
                /\ Original(old[t], d) \in Nat
<1> DEFINE few == {p \in Taken(new, c, d) : new[p].applied = t}
           more == {p \in Taken(old, c, d) : old[p].applied = t}
<1>1. few \in SUBSET more /\ more \in SUBSET DOMAIN old /\ few \in SUBSET DOMAIN old
  <2>1. Taken(old, c, d) \in SUBSET DOMAIN old
    BY DEF Taken, Named
  <2> QED BY <2>1 DEF Kept
<1>2. ASSUME t \in DOMAIN old
      PROVE  /\ t \in DOMAIN new /\ Original(new[t], d) = Original(old[t], d)
             /\ Original(old[t], d) \in Nat
  <2>1. Original(old[t], d) \in Nat
    BY <1>2, RowFields DEF Rows
  <2> QED BY <1>2, <2>1 DEF Kept, Original
<1> HIDE DEF few, more
<1>3. Amounts(new, few) = Amounts(old, few)
  BY <1>1, SumsKept
<1>4. Amounts(old, few) \in Nat /\ Amounts(old, more) \in Nat /\ Amounts(old, few) <= Amounts(old, more)
  BY <1>1, LessTaken
<1> QED BY <1>2, <1>3, <1>4 DEF few, more, On

(* An amount still fits.                                                   *)
LEMMA FitsKept ==
    ASSUME NEW old, NEW new, Rows(old), Rows(new), Kept(old, new), NEW c \in Contact, NEW d,
           Taken(new, c, d) \subseteq Taken(old, c, d), Ever(old, c, d) \subseteq Ever(new, c, d),
           NEW amount \in Nat, NEW t, FitsOwed(old, c, d, amount, t)
    PROVE  FitsOwed(new, c, d, amount, t)
<1>1. OpeningOwed(c, d) \in Nat
  BY OwedAtOpening
<1>2. /\ Amounts(new, Taken(new, c, d)) <= Amounts(old, Taken(old, c, d))
      /\ Amounts(new, Taken(new, c, d)) \in Nat /\ Amounts(old, Taken(old, c, d)) \in Nat
      /\ Invoiced(old, Ever(old, c, d), d) <= Invoiced(new, Ever(new, c, d), d)
      /\ Invoiced(old, Ever(old, c, d), d) \in Nat /\ Invoiced(new, Ever(new, c, d), d) \in Nat
  BY TakenKept
<1>3. amount + Amounts(new, Taken(new, c, d)) <= OpeningOwed(c, d) + Invoiced(new, Ever(new, c, d), d)
  BY <1>1, <1>2 DEF FitsOwed
<1>4. ASSUME t # NoRow
      PROVE  /\ t \in DOMAIN new
             /\ amount + Amounts(new, {p \in Taken(new, c, d) : new[p].applied = t})
                  <= Original(new[t], d)
  <2> DEFINE n == On(new, c, d, t)
             o == On(old, c, d, t)
  <2>1. /\ t \in DOMAIN old
        /\ amount + o <= Original(old[t], d)
    BY <1>4 DEF FitsOwed, On
  <2>2. n \in Nat /\ o \in Nat /\ n <= o
    BY TakenKeptOn
  <2>3. t \in DOMAIN new /\ Original(new[t], d) = Original(old[t], d) /\ Original(old[t], d) \in Nat
    BY <2>1, TakenKeptOn
  <2> HIDE DEF n, o
  <2>4. amount + n <= Original(new[t], d)
    BY <2>1, <2>2, <2>3
  <2> QED BY <2>3, <2>4 DEF n, On
<1> QED BY <1>3, <1>4 DEF FitsOwed

LEMMA NothingAmounts ==
    ASSUME NEW rows, NEW ids, ids = {}, NEW d
    PROVE  Amounts(rows, ids) = 0 /\ Invoiced(rows, ids, d) = 0 /\ SignedSum(rows, ids) = 0
BY SumOfNone DEF Amounts, Invoiced, SignedSum

(* What was taken stays within what was owed when no more is taken.        *)
LEMMA WithinKept ==
    ASSUME NEW old, NEW new, Rows(old), Rows(new), Kept(old, new), AllLinked(old),
           NEW c \in Contact, NEW d,
           Taken(new, c, d) \subseteq Taken(old, c, d), Ever(old, c, d) \subseteq Ever(new, c, d),
           NoRow \notin DOMAIN new, WithinOwed(old, c, d)
    PROVE  WithinOwed(new, c, d)
<1>1. OpeningOwed(c, d) \in Nat
  BY OwedAtOpening
<1>2. /\ Amounts(new, Taken(new, c, d)) <= Amounts(old, Taken(old, c, d))
      /\ Amounts(new, Taken(new, c, d)) \in Nat /\ Amounts(old, Taken(old, c, d)) \in Nat
      /\ Invoiced(old, Ever(old, c, d), d) <= Invoiced(new, Ever(new, c, d), d)
      /\ Invoiced(old, Ever(old, c, d), d) \in Nat /\ Invoiced(new, Ever(new, c, d), d) \in Nat
  BY TakenKept
<1>3. Amounts(new, Taken(new, c, d)) <= OpeningOwed(c, d) + Invoiced(new, Ever(new, c, d), d)
  BY <1>1, <1>2 DEF WithinOwed
<1>4. ASSUME NEW t \in DOMAIN new
      PROVE  Amounts(new, {p \in Taken(new, c, d) : new[p].applied = t}) <= Original(new[t], d)
  <2> DEFINE n == On(new, c, d, t)
             o == On(old, c, d, t)
  <2>1. CASE t \in DOMAIN old
    <3>1. o <= Original(old[t], d)
      BY <2>1 DEF WithinOwed, On
    <3>2. n \in Nat /\ o \in Nat /\ n <= o
      BY TakenKeptOn
    <3>3. Original(new[t], d) = Original(old[t], d) /\ Original(old[t], d) \in Nat
      BY <2>1, TakenKeptOn
    <3> HIDE DEF n, o
    <3>4. n <= Original(new[t], d)
      BY <3>1, <3>2, <3>3
    <3> QED BY <3>4 DEF n, On
  <2>2. CASE t \notin DOMAIN old
    <3>1. {p \in Taken(new, c, d) : new[p].applied = t} = {}
      <4>1. ASSUME NEW p \in Taken(new, c, d) PROVE new[p].applied # t
        <5>1. p \in DOMAIN old
          BY DEF Taken, Named
        <5>2. new[p].applied = old[p].applied /\ old[p].applied \in DOMAIN old \cup {NoRow}
          BY <5>1 DEF Kept, AllLinked
        <5> QED BY <2>2, <5>2
      <4> QED BY <4>1
    <3>2. n = 0
      BY <3>1, NothingAmounts DEF On
    <3>3. Original(new[t], d) \in Nat
      BY RowFields DEF Rows
    <3> HIDE DEF n
    <3>4. n <= Original(new[t], d)
      BY <3>2, <3>3
    <3> QED BY <3>4 DEF n, On
  <2> QED BY <2>1, <2>2
<1> QED BY <1>3, <1>4 DEF WithinOwed

(* A payment that fits is posted.                                          *)
LEMMA WithinGrown ==
    ASSUME NEW old, NEW new, NEW r, Grown(old, new, r), AllLinked(old), NoRow \notin DOMAIN new,
           NEW c \in Contact, NEW d, WithinOwed(old, c, d),
           FitsOwed(old, c, d, new[r].amount, new[r].applied)
    PROVE  WithinOwed(new, c, d)
<1> DEFINE to == Taken(old, c, d)
           tn == Taken(new, c, d)
           amount == new[r].amount
<1>1. Rows(old) /\ Rows(new) /\ r \notin DOMAIN old /\ r \in DOMAIN new
      /\ new[r].applied \in DOMAIN old \cup {NoRow}
  BY DEF Grown
<1>2. /\ Kept(old, new) /\ tn \subseteq to \cup {r} /\ Ever(old, c, d) \subseteq Ever(new, c, d)
      /\ AllLinked(new)
  BY GrownBy
<1>3. to \in SUBSET DOMAIN old /\ tn \in SUBSET DOMAIN new /\ to \cup {r} \in SUBSET DOMAIN new
      /\ Ever(old, c, d) \in SUBSET DOMAIN old /\ Ever(new, c, d) \in SUBSET DOMAIN new
  BY <1>1 DEF Taken, Ever, Named, Grown
<1>4. amount \in Nat /\ OpeningOwed(c, d) \in Nat
  BY <1>1, RowFields, OwedAtOpening DEF Rows
<1>5. ASSUME NEW ids \in SUBSET DOMAIN old, NEW more \in SUBSET (ids \cup {r})
      PROVE  /\ Amounts(new, more) \in Nat /\ Amounts(old, ids) \in Nat
             /\ Amounts(new, more) <= Amounts(old, ids) + amount
             /\ r \notin more => Amounts(new, more) <= Amounts(old, ids)
  <2>1. ids \cup {r} \in SUBSET DOMAIN new /\ r \notin ids /\ ids \in SUBSET DOMAIN new
    BY <1>1, <1>3 DEF Grown
  <2>2. Ints(Amount(new), ids \cup {r})
        /\ Amounts(new, ids \cup {r}) = SumOver(Amount(new), ids \cup {r})
    BY <1>1, <2>1, Columns
  <2>3. SumOver(Amount(new), ids \cup {r}) = SumOver(Amount(new), ids) + Amount(new)[r]
    BY <2>1, <2>2, SumGrows
  <2>4. Amount(new)[r] = amount
    BY <1>1 DEF Amount
  <2>5. Amounts(new, ids) = SumOver(Amount(new), ids)
    BY <1>1, <2>1, Columns
  <2>6. Amounts(new, ids) = Amounts(old, ids)
    BY <1>2, SumsKept
  <2>7. /\ Amounts(new, more) <= Amounts(new, ids \cup {r})
        /\ Amounts(new, more) \in Nat /\ Amounts(new, ids \cup {r}) \in Nat
    BY <1>1, <2>1, LessTaken
  <2>8. Amounts(old, ids) \in Nat
    BY <1>1, LessTaken
  <2>9. ASSUME r \notin more PROVE Amounts(new, more) <= Amounts(new, ids)
    <3>1. more \in SUBSET ids
      BY <2>9
    <3> QED BY <1>1, <2>1, <3>1, LessTaken
  <2> HIDE DEF amount
  <2> QED BY <2>2, <2>3, <2>4, <2>5, <2>6, <2>7, <2>8, <2>9
<1>6. Amounts(new, tn) <= OpeningOwed(c, d) + Invoiced(new, Ever(new, c, d), d)
  <2>1. /\ Amounts(new, tn) \in Nat /\ Amounts(old, to) \in Nat
        /\ Amounts(new, tn) <= Amounts(old, to) + amount
    <3>1. to \in SUBSET DOMAIN old /\ tn \in SUBSET (to \cup {r})
      BY <1>2, <1>3
    <3> HIDE DEF to, tn, amount
    <3> QED BY <1>5, <3>1
  <2>2. /\ Invoiced(old, Ever(old, c, d), d) = Invoiced(new, Ever(old, c, d), d)
        /\ Invoiced(new, Ever(old, c, d), d) <= Invoiced(new, Ever(new, c, d), d)
        /\ Invoiced(new, Ever(old, c, d), d) \in Nat /\ Invoiced(new, Ever(new, c, d), d) \in Nat
    BY <1>1, <1>2, <1>3, SumsKept, LessTaken
  <2>3. amount + Amounts(old, to) <= OpeningOwed(c, d) + Invoiced(old, Ever(old, c, d), d)
    BY DEF FitsOwed
  <2> HIDE DEF to, tn, amount
  <2> QED BY <1>4, <2>1, <2>2, <2>3
<1>7. ASSUME NEW t \in DOMAIN new
      PROVE  Amounts(new, {p \in tn : new[p].applied = t}) <= Original(new[t], d)
  <2> DEFINE more == {p \in tn : new[p].applied = t}
             ids == {p \in to : old[p].applied = t}
  <2>1. ids \in SUBSET DOMAIN old /\ more \in SUBSET (ids \cup {r})
    BY <1>2, <1>3 DEF Kept
  <2>2. /\ Amounts(new, more) \in Nat /\ Amounts(old, ids) \in Nat
        /\ Amounts(new, more) <= Amounts(old, ids) + amount
        /\ r \notin more => Amounts(new, more) <= Amounts(old, ids)
    <3> HIDE DEF more, ids, amount
    <3> QED BY <1>5, <2>1
  <2>3. Original(new[t], d) \in Nat
    BY <1>1, RowFields DEF Rows
  <2>4. CASE t \in DOMAIN old
    <3>1. Original(new[t], d) = Original(old[t], d)
      BY <1>2, <2>4 DEF Kept, Original
    <3>2. Amounts(old, ids) <= Original(old[t], d)
      BY <2>4 DEF WithinOwed
    <3>3. CASE r \in more
      <4>1. new[r].applied = t /\ t # NoRow
        BY <3>3
      <4>2. amount + Amounts(old, ids) <= Original(old[t], d)
        BY <4>1 DEF FitsOwed
      <4> HIDE DEF more, ids, amount
      <4>3. Amounts(new, more) <= Original(new[t], d)
        BY <1>4, <2>2, <2>3, <3>1, <4>2
      <4> QED BY <4>3 DEF more
    <3>4. CASE r \notin more
      <4> HIDE DEF more, ids, amount
      <4>1. Amounts(new, more) <= Original(new[t], d)
        BY <2>2, <2>3, <3>1, <3>2, <3>4
      <4> QED BY <4>1 DEF more
    <3> QED BY <3>3, <3>4
  <2>5. CASE t \notin DOMAIN old
    <3>1. more = {}
      <4>1. ASSUME NEW p \in tn PROVE new[p].applied # t
        <5>1. CASE p = r
          BY <1>1, <2>5, <5>1
        <5>2. CASE p # r
          <6>1. p \in DOMAIN old
            BY <1>2, <1>3, <5>2
          <6>2. new[p].applied = old[p].applied /\ old[p].applied \in DOMAIN old \cup {NoRow}
            BY <1>2, <6>1 DEF Kept, AllLinked
          <6> QED BY <2>5, <6>2
        <5> QED BY <5>1, <5>2
      <4> QED BY <4>1
    <3>2. Amounts(new, more) = 0
      BY <3>1, NothingAmounts
    <3> HIDE DEF more
    <3>3. Amounts(new, more) <= Original(new[t], d)
      BY <2>3, <3>2
    <3> QED BY <3>3 DEF more
  <2> QED BY <2>4, <2>5
<1> QED BY <1>6, <1>7 DEF WithinOwed

(* A voided transaction and its reversal cancel, whatever comes.           *)
Dead(rows, c) == {i \in Named(rows, c) : ~Live(rows[i])}

LEMMA SignsKept ==
    ASSUME NEW old, NEW new, NEW ids \in SUBSET DOMAIN old,
           \A i \in ids : new[i].entry = old[i].entry /\ new[i].amount = old[i].amount
    PROVE  SignedSum(new, ids) = SignedSum(old, ids)
<1>1. [i \in ids |-> Signed(new[i])] = [i \in ids |-> Signed(old[i])]
  BY DEF Signed
<1> QED BY <1>1 DEF SignedSum

LEMMA CancelsPosted ==
    ASSUME NEW old, NEW new, NEW r, Grown(old, new, r), Live(new[r]),
           \A i \in DOMAIN old : new[i].status = old[i].status, VoidsCancel(old)
    PROVE  VoidsCancel(new)
<1> SUFFICES ASSUME NEW c \in Contact PROVE SignedSum(new, Dead(new, c)) = 0
  BY DEF VoidsCancel, Dead
<1>1. Dead(new, c) = Dead(old, c) /\ Dead(old, c) \in SUBSET DOMAIN old
  BY DEF Dead, Named, Live, Grown
<1>2. SignedSum(new, Dead(old, c)) = SignedSum(old, Dead(old, c))
  BY <1>1, SignsKept DEF Grown
<1> QED BY <1>1, <1>2 DEF VoidsCancel, Dead

(* A live row is voided, and reversed.                                     *)
Reverses(old, new, r, i) ==
    /\ i \in DOMAIN old /\ Live(old[i]) /\ new[i].status = "VOIDED"
    /\ \A j \in DOMAIN old : j # i => new[j].status = old[j].status
    /\ new[r].contact = old[i].contact /\ new[r].amount = old[i].amount
    /\ new[r].entry # old[i].entry /\ ~Live(new[r])

LEMMA CancelsVoided ==
    ASSUME NEW old, NEW new, NEW r, Grown(old, new, r), NEW i, Reverses(old, new, r, i),
           VoidsCancel(old)
    PROVE  VoidsCancel(new)
<1> SUFFICES ASSUME NEW c \in Contact PROVE SignedSum(new, Dead(new, c)) = 0
  BY DEF VoidsCancel, Dead
<1> DEFINE dead == Dead(old, c)
<1>1. dead \in SUBSET DOMAIN old /\ i \notin dead /\ r \notin dead /\ i # r
      /\ r \in DOMAIN new /\ i \in DOMAIN new /\ dead \in SUBSET DOMAIN new
  BY DEF Dead, Named, Grown, Reverses
<1>2. SignedSum(new, dead) = 0
  <2>1. SignedSum(new, dead) = SignedSum(old, dead)
    BY <1>1, SignsKept DEF Grown
  <2> QED BY <2>1 DEF VoidsCancel, Dead
<1>3. CASE old[i].contact # c
  <2>1. Dead(new, c) = dead
    BY <1>3 DEF Dead, Named, Live, Grown, Reverses
  <2> QED BY <1>2, <2>1
<1>4. CASE old[i].contact = c
  <2>1. Dead(new, c) = (dead \cup {i}) \cup {r}
    BY <1>4 DEF Dead, Named, Live, Grown, Reverses
  <2> HIDE DEF dead
  <2> DEFINE s == Sign(new)
  <2>2. (dead \cup {i}) \cup {r} \in SUBSET DOMAIN new /\ Rows(new)
    BY <1>1 DEF Grown
  <2>3. /\ Ints(s, (dead \cup {i}) \cup {r})
        /\ SignedSum(new, (dead \cup {i}) \cup {r}) = SumOver(s, (dead \cup {i}) \cup {r})
        /\ SignedSum(new, dead) = SumOver(s, dead)
    BY <1>1, <2>2, Columns
  <2>4. s[i] = -s[r] /\ s[r] \in Int
    <3>1. s[i] = Signed(new[i]) /\ s[r] = Signed(new[r])
      BY <1>1 DEF Sign
    <3>2. new[i] \in Row /\ new[r] \in Row
      BY <1>1 DEF Grown, Rows
    <3>3. new[i].amount = new[r].amount /\ new[i].entry # new[r].entry
      BY DEF Grown, Reverses
    <3>4. /\ new[r].amount \in Nat /\ new[r].entry \in {"DEBIT", "CREDIT"}
          /\ new[i].entry \in {"DEBIT", "CREDIT"}
      BY <3>2, RowFields
    <3> HIDE DEF s
    <3> QED BY <3>1, <3>3, <3>4 DEF Signed
  <2> HIDE DEF s
  <2>5. Ints(s, dead \cup {i})
    BY <2>3, IntsBelow
  <2>6. SumOver(s, (dead \cup {i}) \cup {r}) = SumOver(s, dead \cup {i}) + s[r]
    BY <1>1, <2>3, SumGrows
  <2>7. SumOver(s, dead \cup {i}) = SumOver(s, dead) + s[i]
    BY <1>1, <2>5, SumGrows
  <2> QED BY <1>2, <2>1, <2>3, <2>4, <2>6, <2>7
<1> QED BY <1>3, <1>4

LEMMA CancelsErased ==
    ASSUME NEW old, NEW new, NEW e, Erased(old, new, e), VoidsCancel(old), Nobody \notin Contact
    PROVE  VoidsCancel(new)
<1> SUFFICES ASSUME NEW c \in Contact PROVE SignedSum(new, Dead(new, c)) = 0
  BY DEF VoidsCancel, Dead
<1>1. CASE c = e
  <2>1. Dead(new, c) = {}
    BY <1>1, ErasedSame DEF Dead
  <2> QED BY <2>1, NothingAmounts
<1>2. CASE c # e
  <2>1. Dead(new, c) = Dead(old, c) /\ Dead(old, c) \in SUBSET DOMAIN old
        /\ \A i \in Dead(old, c) : new[i] = old[i]
    <3>1. /\ Named(new, c) = Named(old, c)
          /\ \A i \in Named(old, c) : i \in DOMAIN old /\ i \in DOMAIN new /\ new[i] = old[i]
      BY <1>2, ErasedSame
    <3> QED BY <3>1 DEF Dead
  <2>2. SignedSum(new, Dead(old, c)) = SignedSum(old, Dead(old, c))
    BY <2>1, SignsKept
  <2> QED BY <2>1, <2>2 DEF VoidsCancel, Dead
<1> QED BY <1>1, <1>2

(***************************************************************************)
(* The inductive invariant.                                                *)
(***************************************************************************)
Pays == {"receive", "pay"}
Leaves == {"archive", "delete"}

Place == {"idle", "key", "invoices", "payments", "commit", "count", "find", "erase", "archive", "done"}

InvoicesIn(rows, c, d) ==
    {i \in Named(rows, c) : rows[i].type = InvoiceType(d) /\ Live(rows[i])}

PaymentsIn(rows, c, d) ==
    {i \in Named(rows, c) : rows[i].type = "PAYMENT" /\ Live(rows[i]) /\ rows[i].account = AccountOf(d)}

BalanceIn(rows, c, d) ==
    Invoiced(rows, InvoicesIn(rows, c, d), d) - Amounts(rows, PaymentsIn(rows, c, d))

(* Where a request can be, and what it has looked at.                      *)
Placed(r) ==
    LET op == body[r].op
    IN  /\ r \in DOMAIN tx => pc[r] = "done"
        /\ pc[r] \notin {"idle", "done"} =>
              /\ target[r] \in DOMAIN tx \cup {NoRow}
              /\ op = "void" => target[r] \in DOMAIN tx
              /\ op \in Pays \cup Leaves => status[body[r].contact] # "UNUSED"
        /\ pc[r] = "key" => op \in Pays
        /\ pc[r] \in {"invoices", "payments"} => op \in Pays \cup Leaves
        /\ pc[r] \in {"count", "find", "erase", "archive"} => op \in Leaves
        /\ pc[r] \in {"idle", "count", "find"} => side[r] = "RECEIVABLE"

(* A payment holds its contact from the first read to the commit.          *)
Locked(r) ==
    LET op == body[r].op
    IN  /\ op \in Pays /\ pc[r] \in {"invoices", "payments", "commit"} =>
              holder[body[r].contact] = r /\ side[r] = SideOf(op)
        /\ \A c \in Contact : holder[c] = r => op \in Pays /\ c = body[r].contact

(* What it has read was invoiced.                                          *)
Listed(r) ==
    pc[r] = "payments" /\ Exists(body[r].contact) => listed[r] \subseteq Ever(tx, body[r].contact, side[r])

(* A payment that has been checked fits.                                   *)
Fitted(r) ==
    LET b == body[r]
    IN  b.op \in Pays /\ pc[r] = "commit" /\ Exists(b.contact) =>
          FitsOwed(tx, b.contact, SideOf(b.op), b.amount, target[r])

(* What an archive has added up, as long as nothing has been posted.       *)
Adding(r) ==
    LET c == body[r].contact
        received == Opening[c] + BalanceIn(tx, c, "RECEIVABLE")
    IN  /\ began[r] <= Cardinality(DOMAIN tx)
        /\ (/\ body[r].op \in Leaves /\ pc[r] \in {"invoices", "payments", "archive"}
            /\ Exists(c) /\ began[r] = Cardinality(DOMAIN tx)) =>
              /\ pc[r] = "archive" => received - BalanceIn(tx, c, "PAYABLE") = 0
              /\ pc[r] # "archive" =>
                   sum[r] = IF side[r] = "RECEIVABLE" THEN Opening[c] ELSE received
              /\ pc[r] = "payments" => listed[r] = InvoicesIn(tx, c, side[r])

Sound(r) == Placed(r) /\ Locked(r) /\ Listed(r) /\ Fitted(r) /\ Adding(r)

Typed ==
    /\ body \in [Request -> Body] /\ pc \in [Request -> Place]
    /\ target \in [Request -> Id \cup {NoRow}] /\ listed \in [Request -> SUBSET Id]

IInv ==
    TypeOK /\ Typed /\ Booked /\ AllLinked(tx) /\ \A r \in Request : Sound(r)

LEMMA BodyFields ==
    ASSUME NEW b \in Body
    PROVE  /\ b.op \in {"sale", "purchase", "receive", "pay", "raw", "create", "archive", "delete",
                        "retype", "void"}
           /\ b.op # "void" => b.contact \in Contact
           /\ b.op \in {"sale", "purchase", "receive", "pay", "raw"} => b.amount \in Nat \ {0}
           /\ b.op \in {"sale", "purchase"} => b.date \in Int /\ b.due \in Int \cup {NoDue}
           /\ b.op = "raw" => /\ b.type \in Type /\ b.account \in {"AR", "AP"}
                              /\ b.entry \in {"DEBIT", "CREDIT"}
           /\ b.op = "retype" => b.type \in ContactType
<1>1. b \in InvoiceBody \cup PaymentBody \cup RawBody \cup ContactBody \cup RetypeBody \cup VoidBody
  BY BodyAssumption
<1> QED BY <1>1 DEF InvoiceBody, PaymentBody, RawBody, ContactBody, RetypeBody, VoidBody

LEMMA SameBalance ==
    ASSUME NEW old, NEW new, NEW c, Named(new, c) = Named(old, c),
           \A i \in Named(old, c) : new[i] = old[i], NEW d
    PROVE  BalanceIn(new, c, d) = BalanceIn(old, c, d) /\ InvoicesIn(new, c, d) = InvoicesIn(old, c, d)
<1>1. /\ InvoicesIn(new, c, d) = InvoicesIn(old, c, d) /\ PaymentsIn(new, c, d) = PaymentsIn(old, c, d)
      /\ \A i \in InvoicesIn(old, c, d) \cup PaymentsIn(old, c, d) : new[i] = old[i]
  BY DEF InvoicesIn, PaymentsIn
<1> DEFINE s == InvoicesIn(old, c, d)
           p == PaymentsIn(old, c, d)
<1> HIDE DEF s, p
<1>2. [i \in s |-> Original(new[i], d)] = [i \in s |-> Original(old[i], d)]
      /\ [i \in p |-> new[i].amount] = [i \in p |-> old[i].amount]
  BY <1>1 DEF s, p
<1>3. Invoiced(new, s, d) = Invoiced(old, s, d) /\ Amounts(new, p) = Amounts(old, p)
  BY <1>2 DEF Invoiced, Amounts
<1> QED BY <1>1, <1>3 DEF BalanceIn, s, p

(***************************************************************************)
(* A request's step, seen by the others.                                   *)
(***************************************************************************)
There(st, c) == st[c] \in {"ACTIVE", "ARCHIVED"}

(* What may happen to a contact's books.                                   *)
WorldOf(r, c) ==
    /\ status[c] # "UNUSED" => status'[c] # "UNUSED"
    /\ status[c] # "UNUSED" /\ There(status', c) => There(status, c)
    /\ There(status', c) =>
         /\ \A d \in Direction :
              /\ Ever(tx, c, d) \subseteq Ever(tx', c, d)
              /\ Taken(tx', c, d) \subseteq Taken(tx, c, d) \/ holder[c] = r
         /\ \/ Cardinality(DOMAIN tx) < Cardinality(DOMAIN tx')
            \/ /\ DOMAIN tx' = DOMAIN tx /\ Named(tx', c) = Named(tx, c)
               /\ \A i \in Named(tx, c) : tx'[i] = tx[i]

(* The books go on as they may.                                            *)
World(r) ==
    /\ \A c \in Contact : WorldOf(r, c)
    /\ Rows(tx') /\ Kept(tx, tx')
    /\ DOMAIN tx \subseteq DOMAIN tx' /\ DOMAIN tx' \subseteq DOMAIN tx \cup {r}
    /\ Cardinality(DOMAIN tx) \in Nat /\ Cardinality(DOMAIN tx') \in Nat
    /\ Cardinality(DOMAIN tx) <= Cardinality(DOMAIN tx')

(* And what the request has for itself is its own.                         *)
OwnOnly(r) ==
    /\ body' = body
    /\ \A q \in Request \ {r} :
         /\ pc'[q] = pc[q] /\ target'[q] = target[q] /\ side'[q] = side[q]
         /\ listed'[q] = listed[q] /\ sum'[q] = sum[q] /\ began'[q] = began[q]
         /\ \A c \in Contact : holder'[c] = q <=> holder[c] = q

LEMMA OthersGoOn ==
    ASSUME IInv, NEW r \in Request, World(r), OwnOnly(r), NEW q \in Request, q # r
    PROVE  Sound(q)'
<1> DEFINE b == body[q]
           c == b.contact
<1>1. /\ body'[q] = b /\ pc'[q] = pc[q] /\ target'[q] = target[q] /\ side'[q] = side[q]
      /\ listed'[q] = listed[q] /\ sum'[q] = sum[q] /\ began'[q] = began[q]
      /\ \A k \in Contact : holder'[k] = q <=> holder[k] = q
  BY DEF OwnOnly
<1>2. Sound(q) /\ b \in Body /\ side[q] \in Direction /\ began[q] \in Nat
  BY DEF IInv, Typed, TypeOK
<1>3. b.op \in Pays \cup Leaves => c \in Contact
  BY <1>2, BodyFields DEF Pays, Leaves
<1>4. Placed(q)'
  <2>1. Placed(q)
    BY <1>2 DEF Sound
  <2>2. (q \in DOMAIN tx' => q \in DOMAIN tx) /\ DOMAIN tx \subseteq DOMAIN tx'
    BY DEF World
  <2>3. c \in Contact => (status[c] # "UNUSED" => status'[c] # "UNUSED")
    BY DEF World, WorldOf
  <2> QED BY <1>1, <1>3, <2>1, <2>2, <2>3 DEF Placed
<1>5. Locked(q)'
  <2>1. Locked(q)
    BY <1>2 DEF Sound
  <2> QED BY <1>1, <1>3, <2>1 DEF Locked
<1>6. ASSUME pc[q] \notin {"idle", "done"}, b.op \in Pays \cup Leaves, There(status', c)
      PROVE  There(status, c) /\ c \in Contact
  <2>1. status[c] # "UNUSED" /\ c \in Contact
    BY <1>2, <1>3, <1>6 DEF Sound, Placed
  <2>2. WorldOf(r, c)
    BY <2>1 DEF World
  <2> QED BY <1>6, <2>1, <2>2 DEF WorldOf
<1>7. Listed(q)'
  <2>1. Listed(q) /\ Placed(q)
    BY <1>2 DEF Sound
  <2>2. SUFFICES ASSUME pc[q] = "payments", There(status', c)
                 PROVE  listed[q] \subseteq Ever(tx', c, side[q])
    <3>1. body[q]' = b /\ pc[q]' = pc[q] /\ listed[q]' = listed[q] /\ side[q]' = side[q]
      BY <1>1
    <3> QED BY <3>1 DEF Listed, Exists, There
  <2>3. b.op \in Pays \cup Leaves
    BY <2>1, <2>2 DEF Placed
  <2>4. There(status, c) /\ c \in Contact
    BY <1>6, <2>2, <2>3
  <2>5. Ever(tx, c, side[q]) \subseteq Ever(tx', c, side[q])
    <3>1. WorldOf(r, c)
      BY <2>4 DEF World
    <3> HIDE DEF b, c
    <3> QED BY <1>2, <2>2, <3>1 DEF WorldOf
  <2> QED BY <2>1, <2>2, <2>4, <2>5 DEF Listed, Exists, There
<1>8. Fitted(q)'
  <2>1. Fitted(q) /\ Locked(q)
    BY <1>2 DEF Sound
  <2>2. SUFFICES ASSUME b.op \in Pays, pc[q] = "commit", There(status', c)
                 PROVE  FitsOwed(tx', c, SideOf(b.op), b.amount, target[q])
    <3>1. body[q]' = b /\ pc[q]' = pc[q] /\ target[q]' = target[q]
      BY <1>1
    <3> QED BY <3>1 DEF Fitted, Exists, There
  <2>3. There(status, c) /\ c \in Contact
    BY <1>6, <2>2
  <2>4. FitsOwed(tx, c, SideOf(b.op), b.amount, target[q])
    BY <2>1, <2>2, <2>3 DEF Fitted, Exists, There
  <2>5. holder[c] = q
    BY <2>1, <2>2 DEF Locked
  <2>6. SideOf(b.op) \in Direction
    BY DEF SideOf, Direction
  <2>7. /\ Ever(tx, c, SideOf(b.op)) \subseteq Ever(tx', c, SideOf(b.op))
        /\ Taken(tx', c, SideOf(b.op)) \subseteq Taken(tx, c, SideOf(b.op))
    <3>1. WorldOf(r, c)
      BY <2>3 DEF World
    <3> HIDE DEF b, c
    <3> QED BY <2>2, <2>5, <2>6, <3>1 DEF WorldOf
  <2>8. b.amount \in Nat
    BY <1>2, <2>2, BodyFields DEF Pays
  <2>9. Rows(tx) /\ Rows(tx') /\ Kept(tx, tx')
    BY DEF IInv, Booked, World
  <2> HIDE DEF b, c
  <2> QED BY <2>3, <2>4, <2>7, <2>8, <2>9, FitsKept
<1>9. Adding(q)'
  <2>1. Adding(q)
    BY <1>2 DEF Sound
  <2>2. began[q] <= Cardinality(DOMAIN tx')
    BY <1>2, <2>1 DEF Adding, World
  <2>3. SUFFICES ASSUME b.op \in Leaves, pc[q] \in {"invoices", "payments", "archive"}, There(status', c),
                        began[q] = Cardinality(DOMAIN tx')
                 PROVE  LET received == Opening[c] + BalanceIn(tx', c, "RECEIVABLE")
                        IN  /\ pc[q] = "archive" => received - BalanceIn(tx', c, "PAYABLE") = 0
                            /\ pc[q] # "archive" =>
                                 sum[q] = IF side[q] = "RECEIVABLE" THEN Opening[c] ELSE received
                            /\ pc[q] = "payments" => listed[q] = InvoicesIn(tx', c, side[q])
    <3>1. /\ body[q]' = b /\ pc[q]' = pc[q] /\ listed[q]' = listed[q] /\ side[q]' = side[q]
          /\ sum[q]' = sum[q] /\ began[q]' = began[q]
      BY <1>1
    <3> QED BY <2>2, <3>1 DEF Adding, Exists, There
  <2>4. There(status, c) /\ c \in Contact
    BY <1>6, <2>3
  <2>5. /\ DOMAIN tx' = DOMAIN tx /\ Named(tx', c) = Named(tx, c)
        /\ \A i \in Named(tx, c) : tx'[i] = tx[i]
    <3>1. ~(Cardinality(DOMAIN tx) < Cardinality(DOMAIN tx'))
      BY <1>2, <2>1, <2>3 DEF Adding, World
    <3>2. WorldOf(r, c)
      BY <2>4 DEF World
    <3> HIDE DEF b, c
    <3> QED BY <2>3, <3>1, <3>2 DEF WorldOf
  <2>6. \A d : BalanceIn(tx', c, d) = BalanceIn(tx, c, d) /\ InvoicesIn(tx', c, d) = InvoicesIn(tx, c, d)
    BY <2>5, SameBalance
  <2>7. began[q] = Cardinality(DOMAIN tx)
    BY <2>3, <2>5
  <2> QED BY <2>1, <2>3, <2>4, <2>6, <2>7 DEF Adding, Exists, There
<1> QED BY <1>4, <1>5, <1>7, <1>8, <1>9 DEF Sound

BooksTyped ==
    /\ DOMAIN tx \subseteq Id
    /\ \A i \in DOMAIN tx : tx[i] \in Row
    /\ status \in [Contact -> {"UNUSED", "ACTIVE", "ARCHIVED", "DELETED"}]
    /\ kind \in [Contact -> ContactType]

OwnTyped ==
    /\ Typed
    /\ holder \in [Contact -> Request \cup {Free}]
    /\ side \in [Request -> Direction]
    /\ sum \in [Request -> Int]
    /\ began \in [Request -> Nat]
    /\ \A r \in Request : listed[r] \subseteq DOMAIN tx
    /\ \A r \in Request : \A c \in Contact :
         holder[c] = r => pc[r] \in {"invoices", "payments", "commit"}

LEMMA TypesTogether ==
    (TypeOK /\ Typed <=> BooksTyped /\ OwnTyped) /\ ((TypeOK /\ Typed)' <=> (BooksTyped /\ OwnTyped)')
BY DEF TypeOK, BooksTyped, OwnTyped

(* The books and what all of them say, without the requests.               *)
BooksKept == BooksTyped /\ Booked /\ AllLinked(tx)

LEMMA StepKeeps ==
    ASSUME IInv, NEW r \in Request, World(r), OwnOnly(r), BooksKept', OwnTyped', Sound(r)'
    PROVE  IInv'
<1>1. ASSUME NEW q \in Request PROVE Sound(q)'
  <2>1. CASE q = r
    BY <2>1
  <2>2. CASE q # r
    BY <2>2, OthersGoOn
  <2> QED BY <2>1, <2>2
<1>2. (TypeOK /\ Typed)' /\ Booked' /\ AllLinked(tx)'
  BY TypesTogether DEF BooksKept
<1> QED BY <1>1, <1>2 DEF IInv

(* A request that ends leaves its locks and its own variables clean.       *)
LEMMA CloseKeeps ==
    ASSUME IInv, NEW r \in Request, Close(r), World(r), BooksKept'
    PROVE  IInv'
<1>1. OwnTyped /\ BooksTyped
  BY TypesTogether DEF IInv
<1>2. /\ pc' = [pc EXCEPT ![r] = "done"] /\ body' = body /\ target' = target
      /\ holder' = [c \in Contact |-> IF holder[c] = r THEN Free ELSE holder[c]]
      /\ listed' = [listed EXCEPT ![r] = {}] /\ sum' = [sum EXCEPT ![r] = 0]
      /\ side' = [side EXCEPT ![r] = "RECEIVABLE"] /\ began' = [began EXCEPT ![r] = 0]
  BY DEF Close, Goto
<1>3. \A q \in Request : q # Free
  BY IdAssumption
<1>4. OwnOnly(r)
  <2>1. ASSUME NEW q \in Request \ {r}, NEW c \in Contact PROVE holder'[c] = q <=> holder[c] = q
    BY <1>2, <1>3
  <2> QED BY <1>1, <1>2, <2>1 DEF OwnOnly, OwnTyped, Typed
<1>5. pc'[r] = "done" /\ listed'[r] = {} /\ side'[r] = "RECEIVABLE" /\ began'[r] = 0 /\ sum'[r] = 0
      /\ \A c \in Contact : holder'[c] # r
  BY <1>1, <1>2, <1>3 DEF OwnTyped, Typed
<1>6. OwnTyped'
  <2>1. Typed'
    BY <1>1, <1>2 DEF OwnTyped, Typed, Place
  <2>2. /\ holder' \in [Contact -> Request \cup {Free}]
        /\ side' \in [Request -> Direction] /\ sum' \in [Request -> Int] /\ began' \in [Request -> Nat]
    BY <1>1, <1>2 DEF OwnTyped, Direction
  <2>3. ASSUME NEW q \in Request PROVE listed'[q] \subseteq DOMAIN tx'
    BY <1>1, <1>4, <1>5 DEF OwnTyped, World, OwnOnly
  <2>4. ASSUME NEW q \in Request, NEW c \in Contact, holder'[c] = q
        PROVE  pc'[q] \in {"invoices", "payments", "commit"}
    BY <1>1, <1>4, <1>5, <2>4 DEF OwnTyped, OwnOnly
  <2> QED BY <2>1, <2>2, <2>3, <2>4 DEF OwnTyped
<1>7. Sound(r)'
  <2>1. Placed(r)'
    BY <1>5 DEF Placed
  <2>2. Locked(r)'
    BY <1>5 DEF Locked
  <2>3. Listed(r)' /\ Fitted(r)'
    BY <1>5 DEF Listed, Fitted
  <2>4. Adding(r)'
    BY <1>5 DEF Adding, World
  <2> QED BY <2>1, <2>2, <2>3, <2>4 DEF Sound
<1> QED BY <1>4, <1>6, <1>7, StepKeeps

(* Nothing is written.                                                     *)
LEMMA QuietWorld ==
    ASSUME IInv, NEW r \in Request, UNCHANGED books
    PROVE  World(r) /\ BooksKept'
<1>1. tx' = tx /\ status' = status /\ kind' = kind
  BY DEF books
<1>2. BooksTyped /\ Booked /\ AllLinked(tx)
  BY TypesTogether DEF IInv
<1>3. BooksKept'
  <2>1. BooksTyped'
    BY <1>1, <1>2 DEF BooksTyped
  <2>2. Booked'
    BY <1>1, <1>2 DEF Booked, PaymentsWithinOwed
  <2> QED BY <1>1, <1>2, <2>1, <2>2 DEF BooksKept
<1>4. Rows(tx) /\ Cardinality(DOMAIN tx) \in Nat
  BY <1>2, FS_CardinalityType DEF Booked, Rows
<1>5. ASSUME NEW c \in Contact PROVE WorldOf(r, c)
  BY <1>1 DEF WorldOf
<1>6. Kept(tx, tx')
  BY <1>1 DEF Kept
<1> QED BY <1>1, <1>3, <1>4, <1>5, <1>6 DEF World

LEMMA FinishKeeps ==
    ASSUME IInv, NEW r \in Request, Finish(r)
    PROVE  IInv'
<1>1. UNCHANGED books /\ Close(r)
  BY DEF Finish
<1> QED BY <1>1, QuietWorld, CloseKeeps

(***************************************************************************)
(* The steps that write nothing yet.                                       *)
(***************************************************************************)
LEMMA GoKeeps ==
    ASSUME IInv, NEW r \in Request, NEW l \in Place,
           pc' = [pc EXCEPT ![r] = l], body' = body, UNCHANGED books,
           target' = [target EXCEPT ![r] = target'[r]], target'[r] \in Id \cup {NoRow},
           side' = [side EXCEPT ![r] = side'[r]], side'[r] \in Direction,
           listed' = [listed EXCEPT ![r] = listed'[r]], listed'[r] \subseteq DOMAIN tx,
           sum' = [sum EXCEPT ![r] = sum'[r]], sum'[r] \in Int,
           began' = [began EXCEPT ![r] = began'[r]], began'[r] \in Nat,
           holder' \in [Contact -> Request \cup {Free}],
           \A c \in Contact : \A q \in Request : q # r => (holder'[c] = q <=> holder[c] = q),
           \A c \in Contact : holder'[c] = r => l \in {"invoices", "payments", "commit"},
           Sound(r)'
    PROVE  IInv'
<1>1. OwnTyped /\ BooksTyped
  BY TypesTogether DEF IInv
<1>2. World(r) /\ BooksKept' /\ tx' = tx
  BY QuietWorld DEF books
<1>3. OwnOnly(r)
  <2>1. ASSUME NEW q \in Request \ {r}
        PROVE  /\ pc'[q] = pc[q] /\ target'[q] = target[q] /\ side'[q] = side[q]
               /\ listed'[q] = listed[q] /\ sum'[q] = sum[q] /\ began'[q] = began[q]
    BY <1>1 DEF OwnTyped, Typed
  <2> QED BY <2>1 DEF OwnOnly
<1>4. pc'[r] = l
  BY <1>1 DEF OwnTyped, Typed
<1>5. OwnTyped'
  <2>1. Typed'
    <3>1. body' \in [Request -> Body] /\ pc' \in [Request -> Place]
          /\ target' \in [Request -> Id \cup {NoRow}]
      BY <1>1 DEF OwnTyped, Typed
    <3>2. listed' \in [Request -> SUBSET Id]
      BY <1>1 DEF OwnTyped, Typed, BooksTyped
    <3> QED BY <3>1, <3>2 DEF Typed
  <2>2. side' \in [Request -> Direction]
    BY <1>1 DEF OwnTyped
  <2>3. sum' \in [Request -> Int]
    BY <1>1 DEF OwnTyped
  <2>4. began' \in [Request -> Nat]
    BY <1>1 DEF OwnTyped
  <2>5. ASSUME NEW q \in Request PROVE listed'[q] \subseteq DOMAIN tx'
    BY <1>1, <1>2, <1>3 DEF OwnTyped, OwnOnly
  <2>6. ASSUME NEW q \in Request, NEW c \in Contact, holder'[c] = q
        PROVE  pc'[q] \in {"invoices", "payments", "commit"}
    BY <1>1, <1>3, <1>4, <2>6 DEF OwnTyped, OwnOnly
  <2> QED BY <2>1, <2>2, <2>3, <2>4, <2>5, <2>6 DEF OwnTyped
<1> QED BY <1>2, <1>3, <1>5, StepKeeps

(* What a variable a step leaves alone looks like.                         *)
LEMMA LeftAlone ==
    ASSUME IInv, NEW r \in Request
    PROVE  /\ pc = [pc EXCEPT ![r] = pc[r]] /\ target = [target EXCEPT ![r] = target[r]]
           /\ side = [side EXCEPT ![r] = side[r]] /\ listed = [listed EXCEPT ![r] = listed[r]]
           /\ sum = [sum EXCEPT ![r] = sum[r]] /\ began = [began EXCEPT ![r] = began[r]]
           /\ target[r] \in Id \cup {NoRow} /\ side[r] \in Direction
           /\ listed[r] \subseteq DOMAIN tx /\ sum[r] \in Int /\ began[r] \in Nat
           /\ pc[r] \in Place /\ body[r] \in Body
           /\ holder \in [Contact -> Request \cup {Free}]
           /\ \A c \in Contact : holder[c] = r => pc[r] \in {"invoices", "payments", "commit"}
           /\ DOMAIN pc = Request /\ DOMAIN target = Request /\ DOMAIN side = Request
           /\ DOMAIN listed = Request /\ DOMAIN sum = Request /\ DOMAIN began = Request
           /\ Sound(r)
<1>1. OwnTyped
  BY TypesTogether DEF IInv
<1>2. pc = [pc EXCEPT ![r] = pc[r]] /\ target = [target EXCEPT ![r] = target[r]]
  BY <1>1 DEF OwnTyped, Typed
<1>3. side = [side EXCEPT ![r] = side[r]] /\ sum = [sum EXCEPT ![r] = sum[r]]
      /\ began = [began EXCEPT ![r] = began[r]]
  BY <1>1 DEF OwnTyped
<1>4. listed = [listed EXCEPT ![r] = listed[r]]
  BY <1>1 DEF OwnTyped, Typed
<1>5. /\ target[r] \in Id \cup {NoRow} /\ side[r] \in Direction
      /\ listed[r] \subseteq DOMAIN tx /\ sum[r] \in Int /\ began[r] \in Nat
      /\ pc[r] \in Place /\ body[r] \in Body
      /\ holder \in [Contact -> Request \cup {Free}]
      /\ \A c \in Contact : holder[c] = r => pc[r] \in {"invoices", "payments", "commit"}
      /\ DOMAIN pc = Request /\ DOMAIN target = Request /\ DOMAIN side = Request
      /\ DOMAIN listed = Request /\ DOMAIN sum = Request /\ DOMAIN began = Request
  BY <1>1 DEF OwnTyped, Typed
<1>6. Sound(r)
  BY DEF IInv
<1> QED BY <1>2, <1>3, <1>4, <1>5, <1>6

LEMMA ArriveKeeps ==
    ASSUME IInv, NEW r \in Request, Arrive(r)
    PROVE  IInv'
<1>1. CASE Refused(body[r]) /\ Finish(r)
  BY <1>1, FinishKeeps
<1>2. CASE ~(Refused(body[r]) /\ Finish(r))
  <2> DEFINE b == body[r]
             op == b.op
             l == FirstStep(op)
  <2>1. /\ pc[r] = "idle" /\ ~Refused(b) /\ pc' = [pc EXCEPT ![r] = l]
        /\ \E t \in Targets(b) : target' = [target EXCEPT ![r] = t]
        /\ UNCHANGED <<books, body, holder, local>>
    BY <1>2 DEF Arrive, Goto
  <2>2. PICK t \in Targets(b) : target' = [target EXCEPT ![r] = t]
    BY <2>1
  <2>3. /\ body' = body /\ holder' = holder /\ UNCHANGED books /\ tx' = tx /\ status' = status
        /\ side' = side /\ listed' = listed /\ sum' = sum /\ began' = began
    BY <2>1 DEF local, books
  <2>4. b \in Body /\ Placed(r) /\ Locked(r) /\ Adding(r)
    BY LeftAlone DEF Sound
  <2>5. op \in {"sale", "purchase", "receive", "pay", "raw", "create", "archive", "delete", "retype", "void"}
    BY <2>4, BodyFields
  <2>6. pc'[r] = l /\ target'[r] = t
    BY <2>1, <2>2, LeftAlone
  <2>7. /\ l \in Place /\ l \in {"key", "find", "count", "commit"}
        /\ l = "key" <=> op \in Pays
        /\ l \in {"find", "count"} <=> op \in Leaves
    BY <2>5 DEF FirstStep, Pays, Leaves, Place
  <2>8. t \in DOMAIN tx \cup {NoRow} /\ (op = "void" => t \in DOMAIN tx)
    <3>1. CASE op \in {"receive", "pay", "raw"}
      BY <3>1, <2>2 DEF Targets
    <3>2. CASE op = "void"
      BY <3>2, <2>2 DEF Targets
    <3>3. CASE op \notin {"receive", "pay", "raw", "void"}
      BY <3>3, <2>2 DEF Targets
    <3> QED BY <3>1, <3>2, <3>3
  <2>9. op \in Pays \cup Leaves => status[b.contact] # "UNUSED"
    <3>1. ASSUME op \in Pays \cup Leaves PROVE Exists(b.contact)
      BY <2>1, <3>1 DEF Refused, Pays, Leaves
    <3> QED BY <3>1 DEF Exists
  <2> HIDE DEF l
  <2>10. Placed(r)'
    BY <2>1, <2>3, <2>4, <2>6, <2>7, <2>8, <2>9 DEF Placed
  <2>11. Locked(r)'
    BY <2>1, <2>3, <2>6, <2>7, LeftAlone DEF Locked
  <2>12. Listed(r)' /\ Fitted(r)'
    BY <2>3, <2>6, <2>7 DEF Listed, Fitted
  <2>13. Adding(r)'
    BY <2>3, <2>4, <2>6, <2>7 DEF Adding
  <2>14. Sound(r)'
    BY <2>10, <2>11, <2>12, <2>13 DEF Sound
  <2>15. t \in Id \cup {NoRow} /\ DOMAIN tx \subseteq Id
    BY <2>8 DEF IInv, TypeOK
  <2>16. \A c \in Contact : holder[c] # r
    BY <2>1, LeftAlone
  <2>17. /\ target' = [target EXCEPT ![r] = target'[r]]
         /\ side' = [side EXCEPT ![r] = side'[r]] /\ listed' = [listed EXCEPT ![r] = listed'[r]]
         /\ sum' = [sum EXCEPT ![r] = sum'[r]] /\ began' = [began EXCEPT ![r] = began'[r]]
         /\ target'[r] \in Id \cup {NoRow} /\ side'[r] \in Direction
         /\ listed'[r] \subseteq DOMAIN tx /\ sum'[r] \in Int /\ began'[r] \in Nat
    BY <2>2, <2>3, <2>6, <2>15, LeftAlone
  <2>18. holder' \in [Contact -> Request \cup {Free}]
    BY <2>3, LeftAlone
  <2> QED BY <2>1, <2>3, <2>7, <2>14, <2>16, <2>17, <2>18, GoKeeps
<1> QED BY <1>1, <1>2

LEMMA TakeKeyKeeps ==
    ASSUME IInv, NEW r \in Request, TakeKey(r)
    PROVE  IInv'
<1> DEFINE b == body[r]
           k == b.contact
<1>1. /\ pc[r] = "key" /\ holder[k] = Free /\ holder' = [holder EXCEPT ![k] = r]
      /\ side' = [side EXCEPT ![r] = SideOf(b.op)] /\ pc' = [pc EXCEPT ![r] = "invoices"]
      /\ UNCHANGED books /\ tx' = tx /\ status' = status /\ body' = body /\ target' = target
      /\ listed' = listed /\ sum' = sum /\ began' = began
  BY DEF TakeKey, Goto, books, Available
<1>2. b \in Body /\ Placed(r) /\ Adding(r)
  BY LeftAlone DEF Sound
<1>3. b.op \in Pays /\ r \notin DOMAIN tx
  BY <1>1, <1>2 DEF Placed
<1>4. k \in Contact
  BY <1>2, <1>3, BodyFields DEF Pays
<1>5. SideOf(b.op) \in Direction /\ b.op \notin Leaves
  BY <1>3 DEF SideOf, Direction, Pays, Leaves
<1>6. pc'[r] = "invoices" /\ side'[r] = SideOf(b.op)
  BY <1>1, LeftAlone
<1>7. r # Free /\ (\A q \in Request : q # Free)
  BY IdAssumption
<1>8. \A c \in Contact : holder[c] # r
  BY <1>1, LeftAlone
<1>9. /\ holder' \in [Contact -> Request \cup {Free}]
      /\ \A c \in Contact : holder'[c] = r <=> c = k
      /\ \A c \in Contact : \A q \in Request : q # r => (holder'[c] = q <=> holder[c] = q)
  <2>1. holder \in [Contact -> Request \cup {Free}]
    BY LeftAlone
  <2> HIDE DEF b, k
  <2> QED BY <1>1, <1>4, <1>7, <1>8, <2>1
<1>10. Placed(r)'
  BY <1>1, <1>2, <1>3, <1>6 DEF Placed
<1>11. Locked(r)'
  BY <1>1, <1>3, <1>4, <1>6, <1>9 DEF Locked
<1>12. Listed(r)' /\ Fitted(r)'
  BY <1>6 DEF Listed, Fitted
<1>13. Adding(r)'
  BY <1>1, <1>2, <1>5 DEF Adding
<1>14. Sound(r)'
  BY <1>10, <1>11, <1>12, <1>13 DEF Sound
<1> HIDE DEF k
<1>15. "invoices" \in Place /\ "invoices" \in {"invoices", "payments", "commit"}
  BY DEF Place
<1> QED BY <1>1, <1>5, <1>6, <1>9, <1>14, <1>15, LeftAlone, GoKeeps

LEMMA ReadOff ==
    ASSUME NEW c, NEW d
    PROVE  Invoices(c, d) = InvoicesIn(tx, c, d) /\ Payments(c, d) = PaymentsIn(tx, c, d)
BY DEF Invoices, Payments, Counted, InvoicesIn, PaymentsIn

LEMMA SeenBalance ==
    ASSUME IInv, NEW r \in Request, NEW c, c = body[r].contact
    PROVE  /\ Seen(r).balance = Invoiced(tx, listed[r], side[r]) - Amounts(tx, Payments(c, side[r]))
           /\ Seen(r).balance \in Int
           /\ listed[r] = InvoicesIn(tx, c, side[r]) => Seen(r).balance = BalanceIn(tx, c, side[r])
<1>1. Seen(r).balance = Invoiced(tx, listed[r], side[r]) - Amounts(tx, Payments(c, side[r]))
  BY Zenon DEF Seen, Breakdown, Total
<1>2. Rows(tx) /\ listed[r] \in SUBSET DOMAIN tx /\ Payments(c, side[r]) \in SUBSET DOMAIN tx
  BY LeftAlone DEF IInv, Booked, Payments, Counted, Named
<1>3. Invoiced(tx, listed[r], side[r]) \in Nat /\ Amounts(tx, Payments(c, side[r])) \in Nat
  BY <1>2, LessTaken
<1>4. Seen(r).balance \in Int
  BY <1>1, <1>3
<1>5. ASSUME listed[r] = InvoicesIn(tx, c, side[r])
      PROVE  Seen(r).balance = BalanceIn(tx, c, side[r])
  BY <1>1, <1>5, ReadOff DEF BalanceIn
<1> QED BY <1>1, <1>4, <1>5

LEMMA ReadInvoicesKeeps ==
    ASSUME IInv, NEW r \in Request, ReadInvoices(r)
    PROVE  IInv'
<1> DEFINE b == body[r]
           k == b.contact
           ids == Invoices(k, side[r])
<1>1. /\ pc[r] = "invoices" /\ pc' = [pc EXCEPT ![r] = "payments"]
      /\ listed' = [listed EXCEPT ![r] = ids]
      /\ UNCHANGED books /\ tx' = tx /\ status' = status /\ body' = body /\ target' = target
      /\ holder' = holder /\ side' = side /\ sum' = sum /\ began' = began
  BY DEF ReadInvoices, GoOn, Goto, books
<1>2. b \in Body /\ Placed(r) /\ Adding(r) /\ Locked(r)
  BY LeftAlone DEF Sound
<1>3. ids \subseteq Ever(tx, k, side[r]) /\ ids \subseteq DOMAIN tx /\ ids = InvoicesIn(tx, k, side[r])
  BY ReadOff DEF Invoices, Counted, Ever, Named, Live
<1> HIDE DEF ids
<1>4. pc'[r] = "payments" /\ listed'[r] = ids
  BY <1>1, LeftAlone
<1>5. Placed(r)'
  BY <1>1, <1>2, <1>4 DEF Placed
<1>6. Locked(r)'
  BY <1>1, <1>2, <1>4 DEF Locked
<1>7. Listed(r)' /\ Fitted(r)'
  BY <1>1, <1>3, <1>4 DEF Listed, Fitted
<1>8. Adding(r)'
  BY <1>1, <1>2, <1>3, <1>4 DEF Adding, Exists
<1>9. Sound(r)'
  BY <1>5, <1>6, <1>7, <1>8 DEF Sound
<1>10. "payments" \in Place /\ "payments" \in {"invoices", "payments", "commit"}
  BY DEF Place
<1>11. /\ target' = [target EXCEPT ![r] = target'[r]]
       /\ side' = [side EXCEPT ![r] = side'[r]] /\ listed' = [listed EXCEPT ![r] = listed'[r]]
       /\ sum' = [sum EXCEPT ![r] = sum'[r]] /\ began' = [began EXCEPT ![r] = began'[r]]
       /\ target'[r] \in Id \cup {NoRow} /\ side'[r] \in Direction
       /\ listed'[r] \subseteq DOMAIN tx /\ sum'[r] \in Int /\ began'[r] \in Nat
  BY <1>1, <1>3, <1>4, LeftAlone
<1> QED BY <1>1, <1>9, <1>10, <1>11, LeftAlone, GoKeeps

(* A step that only moves on.                                              *)
LEMMA MoveKeeps ==
    ASSUME IInv, NEW r \in Request, NEW l \in Place, GoOnQuietly(r, l),
           l \in {"invoices", "payments", "commit"} \/ (\A c \in Contact : holder[c] # r),
           pc'[r] = l => Sound(r)'
    PROVE  IInv'
<1>1. /\ pc' = [pc EXCEPT ![r] = l] /\ UNCHANGED books /\ body' = body /\ target' = target
      /\ holder' = holder /\ side' = side /\ listed' = listed /\ sum' = sum /\ began' = began
  BY DEF GoOnQuietly, GoOn, Goto, local
<1>2. pc'[r] = l
  BY <1>1, LeftAlone
<1>3. /\ target' = [target EXCEPT ![r] = target'[r]]
      /\ side' = [side EXCEPT ![r] = side'[r]] /\ listed' = [listed EXCEPT ![r] = listed'[r]]
      /\ sum' = [sum EXCEPT ![r] = sum'[r]] /\ began' = [began EXCEPT ![r] = began'[r]]
      /\ target'[r] \in Id \cup {NoRow} /\ side'[r] \in Direction
      /\ listed'[r] \subseteq DOMAIN tx /\ sum'[r] \in Int /\ began'[r] \in Nat
  BY <1>1, LeftAlone
<1>4. holder' \in [Contact -> Request \cup {Free}]
  BY <1>1, LeftAlone
<1> QED BY <1>1, <1>2, <1>3, <1>4, GoKeeps

LEMMA CheckPaymentKeeps ==
    ASSUME IInv, NEW r \in Request, CheckPayment(r)
    PROVE  IInv'
<1> DEFINE b == body[r]
           k == b.contact
<1>1. CASE Finish(r)
  BY <1>1, FinishKeeps
<1>2. CASE ~Finish(r)
  <2>1. /\ pc[r] = "payments" /\ b.op \in Pays
        /\ Fits(b.amount, target[r], Seen(r)) /\ GoOnQuietly(r, "commit")
    BY <1>2 DEF CheckPayment, Pays
  <2>2. /\ tx' = tx /\ status' = status /\ body' = body /\ target' = target
        /\ holder' = holder /\ side' = side /\ listed' = listed /\ sum' = sum /\ began' = began
    BY <2>1 DEF GoOnQuietly, GoOn, Goto, local, books
  <2>3. b \in Body /\ Placed(r) /\ Adding(r) /\ Locked(r) /\ Listed(r)
    BY LeftAlone DEF Sound
  <2>4. k \in Contact /\ b.amount \in Nat /\ b.amount > 0
    BY <2>1, <2>3, BodyFields DEF Pays
  <2>5. side[r] = SideOf(b.op) /\ side[r] \in Direction
    BY <2>1, <2>3, LeftAlone DEF Locked
  <2>6. ASSUME Exists(k) PROVE FitsOwed(tx, k, SideOf(b.op), b.amount, target[r])
    <3>1. listed[r] \subseteq Ever(tx, k, side[r])
      BY <2>1, <2>3, <2>6 DEF Listed
    <3>2. Rows(tx) /\ Numbered(tx) /\ WithinOwed(tx, k, side[r])
      BY <2>4, <2>5 DEF IInv, Booked, PaymentsWithinOwed
    <3>3. Fits(b.amount, target[r], Breakdown(k, side[r], listed[r], Payments(k, side[r])))
      BY <2>1 DEF Seen
    <3> HIDE DEF b, k
    <3>4. FitsOwed(tx, k, side[r], b.amount, target[r])
      BY <2>4, <2>5, <3>1, <3>2, <3>3, CheckedFits
    <3> QED BY <2>5, <3>4
  <2>7. ASSUME pc'[r] = "commit" PROVE Sound(r)'
    <3>1. Placed(r)'
      BY <2>1, <2>2, <2>3, <2>7 DEF Placed
    <3>2. Locked(r)'
      BY <2>1, <2>2, <2>3, <2>7 DEF Locked
    <3>3. Listed(r)'
      BY <2>7 DEF Listed
    <3>4. Fitted(r)'
      BY <2>2, <2>6 DEF Fitted, Exists
    <3>5. Adding(r)'
      BY <2>2, <2>3, <2>7 DEF Adding
    <3> QED BY <3>1, <3>2, <3>3, <3>4, <3>5 DEF Sound
  <2>8. "commit" \in Place
    BY DEF Place
  <2> QED BY <2>1, <2>7, <2>8, MoveKeeps
<1> QED BY <1>1, <1>2

LEMMA CountKeeps ==
    ASSUME IInv, NEW r \in Request, Count(r)
    PROVE  IInv'
<1> DEFINE l == IF \E i \in DOMAIN tx : tx[i].contact = body[r].contact THEN "find" ELSE "erase"
<1>1. pc[r] = "count" /\ GoOnQuietly(r, l)
  BY DEF Count
<1>2. l \in {"find", "erase"} /\ l \in Place
  BY DEF Place
<1> HIDE DEF l
<1>3. /\ tx' = tx /\ status' = status /\ body' = body /\ target' = target
      /\ holder' = holder /\ side' = side /\ listed' = listed /\ sum' = sum /\ began' = began
  BY <1>1 DEF GoOnQuietly, GoOn, Goto, local, books
<1>4. Placed(r) /\ Adding(r) /\ Locked(r)
  BY LeftAlone DEF Sound
<1>5. ASSUME pc'[r] = l PROVE Sound(r)'
  <2>1. Placed(r)'
    BY <1>1, <1>2, <1>3, <1>4, <1>5 DEF Placed
  <2>2. Locked(r)'
    BY <1>2, <1>3, <1>4, <1>5 DEF Locked
  <2>3. Listed(r)' /\ Fitted(r)'
    BY <1>2, <1>5 DEF Listed, Fitted
  <2>4. Adding(r)'
    BY <1>2, <1>3, <1>4, <1>5 DEF Adding
  <2> QED BY <2>1, <2>2, <2>3, <2>4 DEF Sound
<1>6. \A c \in Contact : holder[c] # r
  BY <1>1, LeftAlone
<1> QED BY <1>1, <1>2, <1>5, <1>6, MoveKeeps

LEMMA FindKeeps ==
    ASSUME IInv, NEW r \in Request, Find(r)
    PROVE  IInv'
<1> DEFINE b == body[r]
           k == b.contact
           n == Cardinality(DOMAIN tx)
<1>1. CASE Finish(r)
  BY <1>1, FinishKeeps
<1>2. CASE ~Finish(r)
  <2>1. /\ pc[r] = "find" /\ pc' = [pc EXCEPT ![r] = "invoices"]
        /\ sum' = [sum EXCEPT ![r] = Opening[k]] /\ began' = [began EXCEPT ![r] = n]
        /\ UNCHANGED books /\ tx' = tx /\ status' = status /\ body' = body /\ target' = target
        /\ holder' = holder /\ side' = side /\ listed' = listed
    BY <1>2 DEF Find, GoOn, Goto, books
  <2>2. b \in Body /\ Placed(r) /\ Locked(r)
    BY LeftAlone DEF Sound
  <2>3. k \in Contact /\ b.op \in Leaves /\ b.op \notin Pays /\ side[r] = "RECEIVABLE"
    BY <2>1, <2>2, BodyFields DEF Placed, Leaves, Pays
  <2>4. Opening[k] \in Int /\ n \in Nat
    BY <2>3, StartAssumption, FS_CardinalityType DEF IInv, Booked, Rows
  <2>5. pc'[r] = "invoices" /\ sum'[r] = Opening[k] /\ began'[r] = n
    BY <2>1, LeftAlone
  <2>6. Placed(r)'
    BY <2>1, <2>2, <2>3, <2>5 DEF Placed
  <2>7. Locked(r)'
    BY <2>1, <2>2, <2>3, <2>5 DEF Locked
  <2>8. Listed(r)' /\ Fitted(r)'
    BY <2>5 DEF Listed, Fitted
  <2>9. Adding(r)'
    BY <2>1, <2>3, <2>4, <2>5 DEF Adding
  <2>10. Sound(r)'
    BY <2>6, <2>7, <2>8, <2>9 DEF Sound
  <2>11. "invoices" \in Place /\ "invoices" \in {"invoices", "payments", "commit"}
    BY DEF Place
  <2> HIDE DEF n, k
  <2>12. /\ target' = [target EXCEPT ![r] = target'[r]]
         /\ side' = [side EXCEPT ![r] = side'[r]] /\ listed' = [listed EXCEPT ![r] = listed'[r]]
         /\ sum' = [sum EXCEPT ![r] = sum'[r]] /\ began' = [began EXCEPT ![r] = began'[r]]
         /\ target'[r] \in Id \cup {NoRow} /\ side'[r] \in Direction
         /\ listed'[r] \subseteq DOMAIN tx /\ sum'[r] \in Int /\ began'[r] \in Nat
    BY <2>1, <2>4, <2>5, LeftAlone
  <2>13. holder' \in [Contact -> Request \cup {Free}]
    BY <2>1, LeftAlone
  <2>14. \A c \in Contact : \A q \in Request : q # r => (holder'[c] = q <=> holder[c] = q)
    BY <2>1
  <2> QED BY <2>1, <2>10, <2>11, <2>12, <2>13, <2>14, GoKeeps
<1> QED BY <1>1, <1>2

LEMMA AddReceivableKeeps ==
    ASSUME IInv, NEW r \in Request, AddReceivable(r)
    PROVE  IInv'
<1> DEFINE b == body[r]
           k == b.contact
           more == Seen(r).balance
<1>1. /\ pc[r] = "payments" /\ b.op \in Leaves /\ side[r] = "RECEIVABLE"
      /\ pc' = [pc EXCEPT ![r] = "invoices"] /\ sum' = [sum EXCEPT ![r] = sum[r] + more]
      /\ side' = [side EXCEPT ![r] = "PAYABLE"]
      /\ UNCHANGED books /\ tx' = tx /\ status' = status /\ body' = body /\ target' = target
      /\ holder' = holder /\ began' = began /\ listed' = listed
  BY DEF AddReceivable, GoOn, Goto, books, Leaves
<1>2. b \in Body /\ Placed(r) /\ Locked(r) /\ Adding(r)
  BY LeftAlone DEF Sound
<1>3. b.op \notin Pays /\ r \notin DOMAIN tx
  BY <1>1, <1>2 DEF Leaves, Pays, Placed
<1>4. /\ more \in Int
      /\ listed[r] = InvoicesIn(tx, k, "RECEIVABLE") => more = BalanceIn(tx, k, "RECEIVABLE")
  BY <1>1, SeenBalance
<1> HIDE DEF more
<1>5. pc'[r] = "invoices" /\ side'[r] = "PAYABLE" /\ sum'[r] = sum[r] + more
  BY <1>1, LeftAlone
<1>6. Placed(r)'
  BY <1>1, <1>2, <1>3, <1>5 DEF Placed
<1>7. Locked(r)'
  BY <1>1, <1>2, <1>3, <1>5 DEF Locked
<1>8. Listed(r)' /\ Fitted(r)'
  BY <1>5 DEF Listed, Fitted
<1>9. Adding(r)'
  <2>1. began'[r] = began[r] /\ began[r] <= Cardinality(DOMAIN tx)
    BY <1>1, <1>2 DEF Adding
  <2>2. ASSUME Exists(k), began[r] = Cardinality(DOMAIN tx)
        PROVE  sum'[r] = Opening[k] + BalanceIn(tx, k, "RECEIVABLE")
    BY <1>1, <1>2, <1>4, <1>5, <2>2 DEF Adding
  <2> QED BY <1>1, <1>5, <2>1, <2>2 DEF Adding, Exists
<1>10. Sound(r)'
  BY <1>6, <1>7, <1>8, <1>9 DEF Sound
<1>11. "invoices" \in Place /\ "invoices" \in {"invoices", "payments", "commit"} /\ "PAYABLE" \in Direction
  BY DEF Place, Direction
<1>12. /\ target' = [target EXCEPT ![r] = target'[r]]
       /\ side' = [side EXCEPT ![r] = side'[r]] /\ listed' = [listed EXCEPT ![r] = listed'[r]]
       /\ sum' = [sum EXCEPT ![r] = sum'[r]] /\ began' = [began EXCEPT ![r] = began'[r]]
       /\ target'[r] \in Id \cup {NoRow} /\ side'[r] \in Direction
       /\ listed'[r] \subseteq DOMAIN tx /\ sum'[r] \in Int /\ began'[r] \in Nat
  <2>1. sum' = [sum EXCEPT ![r] = sum'[r]]
    BY <1>1, <1>5
  <2>2. sum[r] \in Int /\ sum'[r] \in Int
    BY <1>4, <1>5, LeftAlone
  <2>3. side' = [side EXCEPT ![r] = side'[r]] /\ side'[r] \in Direction
    BY <1>1, <1>5, <1>11
  <2>4. target' = [target EXCEPT ![r] = target'[r]] /\ target'[r] \in Id \cup {NoRow}
    BY <1>1, LeftAlone
  <2>5. listed' = [listed EXCEPT ![r] = listed'[r]] /\ listed'[r] \subseteq DOMAIN tx
    BY <1>1, LeftAlone
  <2>6. began' = [began EXCEPT ![r] = began'[r]] /\ began'[r] \in Nat
    BY <1>1, LeftAlone
  <2> QED BY <2>1, <2>2, <2>3, <2>4, <2>5, <2>6
<1>13. holder' \in [Contact -> Request \cup {Free}]
  BY <1>1, LeftAlone
<1>14. \A c \in Contact : \A q \in Request : q # r => (holder'[c] = q <=> holder[c] = q)
  BY <1>1
<1> QED BY <1>1, <1>10, <1>11, <1>12, <1>13, <1>14, GoKeeps

LEMMA CheckSettledKeeps ==
    ASSUME IInv, NEW r \in Request, CheckSettled(r)
    PROVE  IInv'
<1> DEFINE b == body[r]
           k == b.contact
           owed == Seen(r).balance
<1>1. CASE Finish(r)
  BY <1>1, FinishKeeps
<1>2. CASE ~Finish(r)
  <2>1. /\ pc[r] = "payments" /\ b.op \in Leaves /\ side[r] = "PAYABLE"
        /\ sum[r] - owed = 0 /\ GoOnQuietly(r, "archive")
    BY <1>2 DEF CheckSettled, Settled, Leaves
  <2>2. /\ tx' = tx /\ status' = status /\ body' = body /\ target' = target
        /\ holder' = holder /\ side' = side /\ listed' = listed /\ sum' = sum /\ began' = began
    BY <2>1 DEF GoOnQuietly, GoOn, Goto, local, books
  <2>3. b \in Body /\ Placed(r) /\ Adding(r) /\ Locked(r)
    BY LeftAlone DEF Sound
  <2>4. b.op \notin Pays
    BY <2>1 DEF Pays, Leaves
  <2>5. listed[r] = InvoicesIn(tx, k, "PAYABLE") => owed = BalanceIn(tx, k, "PAYABLE")
    BY <2>1, SeenBalance
  <2> HIDE DEF owed
  <2>6. ASSUME Exists(k), began[r] = Cardinality(DOMAIN tx)
        PROVE  (Opening[k] + BalanceIn(tx, k, "RECEIVABLE")) - BalanceIn(tx, k, "PAYABLE") = 0
    BY <2>1, <2>3, <2>5, <2>6 DEF Adding
  <2>7. ASSUME pc'[r] = "archive" PROVE Sound(r)'
    <3>1. Placed(r)'
      BY <2>1, <2>2, <2>3, <2>7 DEF Placed
    <3>2. Locked(r)'
      BY <2>2, <2>3, <2>4, <2>7 DEF Locked
    <3>3. Listed(r)' /\ Fitted(r)'
      BY <2>7 DEF Listed, Fitted
    <3>4. Adding(r)'
      BY <2>2, <2>3, <2>6, <2>7 DEF Adding, Exists
    <3> QED BY <3>1, <3>2, <3>3, <3>4 DEF Sound
  <2>8. "archive" \in Place
    BY DEF Place
  <2>9. \A c \in Contact : holder[c] # r
    BY <2>1, <2>3, <2>4 DEF Locked
  <2> QED BY <2>1, <2>7, <2>8, <2>9, MoveKeeps
<1> QED BY <1>1, <1>2

(***************************************************************************)
(* The steps that post.                                                    *)
(***************************************************************************)
LEMMA GrownKeeps ==
    ASSUME IInv, NEW r \in Request, Close(r), Grown(tx, tx', r), status' = status, kind' = kind,
           VoidsCancel(tx'),
           \A c \in Contact, d \in Direction :
             Taken(tx', c, d) \subseteq Taken(tx, c, d)
               \/ (holder[c] = r /\ FitsOwed(tx, c, d, tx'[r].amount, tx'[r].applied))
    PROVE  IInv'
<1>1. BooksTyped /\ Rows(tx) /\ Numbered(tx) /\ AllShaped(tx) /\ PaymentsWithinOwed /\ AllLinked(tx)
  BY TypesTogether DEF IInv, Booked
<1>2. /\ Rows(tx') /\ DOMAIN tx' = DOMAIN tx \cup {r} /\ r \notin DOMAIN tx
  BY DEF Grown
<1>3. /\ Cardinality(DOMAIN tx') = Cardinality(DOMAIN tx) + 1 /\ Cardinality(DOMAIN tx) \in Nat
      /\ Numbered(tx') /\ AllShaped(tx') /\ AllLinked(tx') /\ Kept(tx, tx')
      /\ \A c, d : /\ Ever(tx, c, d) \subseteq Ever(tx', c, d)
  BY <1>1, GrownBy
<1>4. NoRow \notin DOMAIN tx'
  BY <1>1, <1>2, IdAssumption DEF BooksTyped, Id
<1>5. ASSUME NEW c \in Contact, NEW d \in Direction PROVE WithinOwed(tx', c, d)
  <2>1. WithinOwed(tx, c, d)
    BY <1>1 DEF PaymentsWithinOwed
  <2>2. CASE Taken(tx', c, d) \subseteq Taken(tx, c, d)
    BY <1>1, <1>2, <1>3, <1>4, <2>1, <2>2, WithinKept
  <2>3. CASE ~(Taken(tx', c, d) \subseteq Taken(tx, c, d))
    <3>1. FitsOwed(tx, c, d, tx'[r].amount, tx'[r].applied)
      BY <2>3
    <3> QED BY <1>1, <1>4, <2>1, <3>1, WithinGrown
  <2> QED BY <2>2, <2>3
<1>6. BooksKept'
  <2>1. BooksTyped'
    BY <1>1, <1>2 DEF BooksTyped, Rows, Id
  <2>2. PaymentsWithinOwed'
    BY <1>5 DEF PaymentsWithinOwed
  <2>3. Booked'
    BY <1>2, <1>3, <2>2 DEF Booked
  <2> QED BY <1>3, <2>1, <2>3 DEF BooksKept
<1>7. World(r)
  <2>1. ASSUME NEW c \in Contact PROVE WorldOf(r, c)
    <3>1. \A d \in Direction :
            /\ Ever(tx, c, d) \subseteq Ever(tx', c, d)
            /\ Taken(tx', c, d) \subseteq Taken(tx, c, d) \/ holder[c] = r
      BY <1>3
    <3>2. Cardinality(DOMAIN tx) < Cardinality(DOMAIN tx')
      BY <1>3
    <3> QED BY <3>1, <3>2 DEF WorldOf
  <2> QED BY <1>2, <1>3, <2>1 DEF World
<1> QED BY <1>6, <1>7, CloseKeeps

(* A row that says what its type says.                                     *)
Postable(row) ==
    /\ row \in Row /\ row.seq = Cardinality(DOMAIN tx) + 1
    /\ row.applied \in DOMAIN tx \cup {NoRow} /\ Live(row) /\ Shaped(row)

LEMMA AddedGrown ==
    ASSUME IInv, NEW r \in Request, r \notin DOMAIN tx, NEW row, Postable(row), NEW new, new = Added(r, row)
    PROVE  /\ Grown(tx, new, r) /\ new[r] = row /\ \A i \in DOMAIN tx : new[i] = tx[i]
<1>1. DOMAIN new = DOMAIN tx \cup {r} /\ new[r] = row /\ \A i \in DOMAIN tx : new[i] = tx[i]
  BY DEF Added
<1>2. Rows(tx)
  BY DEF IInv, Booked
<1>3. Rows(new)
  BY <1>1, <1>2, FS_AddElement DEF Rows, Postable
<1>4. Grown(tx, new, r)
  BY <1>1, <1>2, <1>3 DEF Grown, Postable
<1> QED BY <1>1, <1>4

LEMMA PostKeeps ==
    ASSUME IInv, NEW r \in Request, pc[r] = "commit", NEW row, Postable(row), Post(r, row),
           \A d \in Direction :
             row.type = "PAYMENT" /\ ~row.raw /\ row.account = AccountOf(d) /\ Exists(row.contact) =>
               holder[row.contact] = r /\ FitsOwed(tx, row.contact, d, row.amount, row.applied)
    PROVE  IInv'
<1>1. CASE ~Linked(row.contact, row.applied)
  BY <1>1, FinishKeeps DEF Post
<1>2. CASE Linked(row.contact, row.applied)
  <2>1. tx' = Added(r, row) /\ status' = status /\ kind' = kind /\ Close(r)
    BY <1>2 DEF Post
  <2>2. r \notin DOMAIN tx
    <3>1. Placed(r)
      BY LeftAlone DEF Sound
    <3> QED BY <3>1 DEF Placed
  <2>3. /\ Grown(tx, tx', r) /\ tx'[r] = row /\ \A i \in DOMAIN tx : tx'[i] = tx[i]
    BY <2>1, <2>2, AddedGrown
  <2>4. VoidsCancel(tx')
    BY <2>3, CancelsPosted DEF IInv, Booked, Postable
  <2>5. ASSUME NEW c \in Contact, NEW d \in Direction
        PROVE  Taken(tx', c, d) \subseteq Taken(tx, c, d)
                 \/ (holder[c] = r /\ FitsOwed(tx, c, d, tx'[r].amount, tx'[r].applied))
    <3>1. CASE row.contact = c /\ row.type = "PAYMENT" /\ ~row.raw /\ row.account = AccountOf(d)
      BY <1>2, <2>3, <3>1 DEF Linked
    <3>2. CASE ~(row.contact = c /\ row.type = "PAYMENT" /\ ~row.raw /\ row.account = AccountOf(d))
      BY <2>3, <3>2 DEF Taken, Named, Grown
    <3> QED BY <3>1, <3>2
  <2> QED BY <2>1, <2>3, <2>4, <2>5, GrownKeeps
<1> QED BY <1>1, <1>2

NewLike(row, b, t, a, e) ==
    /\ row \in Row /\ row.type = t /\ row.account = a /\ row.entry = e
    /\ row.contact = b.contact /\ row.amount = b.amount
    /\ row.applied = NoRow /\ row.reversalOf = NoRow /\ row.status = "POSTED"
    /\ row.seq = Cardinality(DOMAIN tx) + 1 /\ row.raw = FALSE

LEMMA NewRowFields ==
    ASSUME IInv, NEW b \in Body, b.op \in {"sale", "purchase", "receive", "pay", "raw"},
           NEW t \in Type, NEW a \in {"AR", "AP"}, NEW e \in {"DEBIT", "CREDIT"}
    PROVE  NewLike(NewRow(b, t, a, e), b, t, a, e)
<1>1. Cardinality(DOMAIN tx) + 1 \in Nat
  BY FS_CardinalityType DEF IInv, Booked, Rows
<1>2. b.contact \in Contact /\ b.amount \in Nat \ {0}
  BY BodyFields
<1>3. Today \in Int
  BY StartAssumption
<1> QED BY <1>1, <1>2, <1>3 DEF NewRow, Row, NewLike

LEMMA RowApplied ==
    ASSUME NEW row \in Row, NEW t \in Id \cup {NoRow}
    PROVE  [row EXCEPT !.applied = t] \in Row
BY DEF Row

LEMMA RowDated ==
    ASSUME NEW row \in Row, NEW x \in Int, NEW y \in Int \cup {NoDue}
    PROVE  [row EXCEPT !.date = x, !.due = y] \in Row
BY DEF Row

LEMMA RowRaw ==
    ASSUME NEW row \in Row, NEW t \in Id \cup {NoRow}, NEW w \in BOOLEAN
    PROVE  [row EXCEPT !.applied = t, !.raw = w] \in Row
BY DEF Row

LEMMA CommitInvoiceKeeps ==
    ASSUME IInv, NEW r \in Request, CommitInvoice(r)
    PROVE  IInv'
<1> DEFINE b == body[r]
<1>1. pc[r] = "commit" /\ b \in Body
  BY LeftAlone DEF CommitInvoice
<1>2. ASSUME NEW t \in Type, NEW a \in {"AR", "AP"}, NEW e \in {"DEBIT", "CREDIT"},
             b.op \in {"sale", "purchase"}, t # "PAYMENT",
             <<t, a, e>> \in {<<"SALE", "AR", "DEBIT">>, <<"PURCHASE", "AP", "CREDIT">>},
             Post(r, Dated(NewRow(b, t, a, e), b))
      PROVE  IInv'
  <2> DEFINE row == NewRow(b, t, a, e)
             dated == Dated(row, b)
  <2>1. /\ row \in Row /\ row.type = t /\ row.account = a /\ row.entry = e
        /\ row.contact = b.contact /\ row.amount = b.amount
        /\ row.applied = NoRow /\ row.reversalOf = NoRow /\ row.status = "POSTED"
        /\ row.seq = Cardinality(DOMAIN tx) + 1 /\ row.raw = FALSE
    <3>1. NewLike(row, b, t, a, e)
      BY <1>1, <1>2, NewRowFields
    <3> HIDE DEF row
    <3> QED BY <3>1 DEF NewLike
  <2>2. b.date \in Int /\ b.due \in Int \cup {NoDue}
    BY <1>1, <1>2, BodyFields
  <2> HIDE DEF row
  <2>3. /\ dated \in Row /\ dated.type = t /\ dated.account = a /\ dated.entry = e
        /\ dated.applied = NoRow /\ dated.reversalOf = NoRow /\ dated.status = "POSTED"
        /\ dated.seq = Cardinality(DOMAIN tx) + 1
    <3>1. dated \in Row
      BY <2>1, <2>2, RowDated DEF Dated
    <3> QED BY <2>1, <3>1 DEF Dated, Row
  <2>4. Post(r, dated)
    BY <1>2 DEF row
  <2> HIDE DEF dated
  <2>5. Postable(dated)
    BY <1>2, <2>3 DEF Postable, Live, Shaped
  <2> QED BY <1>1, <1>2, <2>3, <2>4, <2>5, PostKeeps
<1>3. CASE b.op = "sale"
  <2>1. Post(r, Dated(NewRow(b, "SALE", "AR", "DEBIT"), b))
    BY <1>3 DEF CommitInvoice
  <2> QED BY <1>2, <1>3, <2>1 DEF Type
<1>4. CASE b.op = "purchase"
  <2>1. Post(r, Dated(NewRow(b, "PURCHASE", "AP", "CREDIT"), b))
    BY <1>4 DEF CommitInvoice
  <2> QED BY <1>2, <1>4, <2>1 DEF Type
<1> QED BY <1>3, <1>4 DEF CommitInvoice

LEMMA CommitPaymentKeeps ==
    ASSUME IInv, NEW r \in Request, CommitPayment(r)
    PROVE  IInv'
<1> DEFINE b == body[r]
           t == target[r]
<1>1. pc[r] = "commit" /\ b \in Body /\ Placed(r) /\ Locked(r) /\ Fitted(r)
  BY LeftAlone DEF CommitPayment, Sound
<1>2. t \in DOMAIN tx \cup {NoRow} /\ t \in Id \cup {NoRow}
  BY <1>1, LeftAlone DEF Placed
<1>3. ASSUME NEW a \in {"AR", "AP"}, NEW e \in {"DEBIT", "CREDIT"}, b.op \in Pays,
             <<a, e>> \in {<<"AR", "CREDIT">>, <<"AP", "DEBIT">>}, a = AccountOf(SideOf(b.op)),
             Post(r, [NewRow(b, "PAYMENT", a, e) EXCEPT !.applied = t])
      PROVE  IInv'
  <2> DEFINE row == NewRow(b, "PAYMENT", a, e)
             paid == [row EXCEPT !.applied = t]
  <2>1. /\ row \in Row /\ row.type = "PAYMENT" /\ row.account = a /\ row.entry = e
        /\ row.contact = b.contact /\ row.amount = b.amount
        /\ row.applied = NoRow /\ row.reversalOf = NoRow /\ row.status = "POSTED"
        /\ row.seq = Cardinality(DOMAIN tx) + 1 /\ row.raw = FALSE
    <3>1. "PAYMENT" \in Type
      BY DEF Type
    <3>2. b.op \in {"sale", "purchase", "receive", "pay", "raw"}
      BY <1>3 DEF Pays
    <3>3. NewLike(row, b, "PAYMENT", a, e)
      BY <1>1, <1>3, <3>1, <3>2, NewRowFields
    <3> HIDE DEF row
    <3> QED BY <3>3 DEF NewLike
  <2> HIDE DEF row
  <2>2. /\ paid \in Row /\ paid.type = "PAYMENT" /\ paid.account = a /\ paid.entry = e
        /\ paid.contact = b.contact /\ paid.amount = b.amount /\ paid.raw = FALSE
        /\ paid.applied = t /\ paid.reversalOf = NoRow /\ paid.status = "POSTED"
        /\ paid.seq = Cardinality(DOMAIN tx) + 1
    <3>1. paid \in Row
      BY <1>2, <2>1, RowApplied
    <3> QED BY <2>1, <3>1 DEF Row
  <2>3. Post(r, paid)
    BY <1>3 DEF row
  <2> HIDE DEF paid
  <2>4. Postable(paid)
    BY <1>2, <1>3, <2>2 DEF Postable, Live, Shaped
  <2>5. ASSUME NEW d \in Direction, paid.account = AccountOf(d), Exists(paid.contact)
        PROVE  holder[paid.contact] = r /\ FitsOwed(tx, paid.contact, d, paid.amount, paid.applied)
    <3>1. d = SideOf(b.op)
      BY <1>3, <2>2, <2>5 DEF AccountOf, SideOf, Direction
    <3>2. holder[b.contact] = r
      BY <1>1, <1>3 DEF Locked
    <3>3. FitsOwed(tx, b.contact, SideOf(b.op), b.amount, t)
      BY <1>1, <1>3, <2>2, <2>5 DEF Fitted
    <3> QED BY <2>2, <3>1, <3>2, <3>3
  <2> QED BY <1>1, <2>3, <2>4, <2>5, PostKeeps
<1>4. CASE b.op = "receive"
  <2>1. Post(r, [NewRow(b, "PAYMENT", "AR", "CREDIT") EXCEPT !.applied = t])
    BY <1>4 DEF CommitPayment
  <2>2. "AR" = AccountOf(SideOf(b.op)) /\ b.op \in Pays
    BY <1>4 DEF AccountOf, SideOf, Pays
  <2> QED BY <1>3, <2>1, <2>2
<1>5. CASE b.op = "pay"
  <2>1. Post(r, [NewRow(b, "PAYMENT", "AP", "DEBIT") EXCEPT !.applied = t])
    BY <1>5 DEF CommitPayment
  <2>2. "AP" = AccountOf(SideOf(b.op)) /\ b.op \in Pays
    BY <1>5 DEF AccountOf, SideOf, Pays
  <2> QED BY <1>3, <2>1, <2>2
<1> QED BY <1>4, <1>5 DEF CommitPayment

LEMMA CommitRawKeeps ==
    ASSUME IInv, NEW r \in Request, CommitRaw(r)
    PROVE  IInv'
<1> DEFINE b == body[r]
           t == target[r]
           row == NewRow(b, b.type, b.account, b.entry)
           posted == [row EXCEPT !.applied = t, !.raw = TRUE]
<1>1. pc[r] = "commit" /\ b \in Body /\ Placed(r) /\ b.op = "raw"
  BY LeftAlone DEF CommitRaw, Sound
<1>2. t \in DOMAIN tx \cup {NoRow} /\ t \in Id \cup {NoRow}
  BY <1>1, LeftAlone DEF Placed
<1>3. b.type \in Type /\ b.account \in {"AR", "AP"} /\ b.entry \in {"DEBIT", "CREDIT"}
  BY <1>1, BodyFields
<1>4. /\ row \in Row /\ row.reversalOf = NoRow /\ row.status = "POSTED"
      /\ row.seq = Cardinality(DOMAIN tx) + 1
  <2>1. NewLike(row, b, b.type, b.account, b.entry)
    BY <1>1, <1>3, NewRowFields
  <2> HIDE DEF row
  <2> QED BY <2>1 DEF NewLike
<1>5. Post(r, posted)
  BY DEF CommitRaw
<1> HIDE DEF row
<1>6. /\ posted \in Row /\ posted.raw = TRUE /\ posted.applied = t
      /\ posted.reversalOf = NoRow /\ posted.status = "POSTED"
      /\ posted.seq = Cardinality(DOMAIN tx) + 1
  <2>1. posted \in Row
    BY <1>2, <1>4, RowRaw
  <2> QED BY <1>4, <2>1 DEF Row
<1> HIDE DEF posted
<1>7. Postable(posted)
  BY <1>2, <1>6 DEF Postable, Live, Shaped
<1> QED BY <1>1, <1>5, <1>6, <1>7, PostKeeps

(* The row and its reversal.                                               *)
LEMMA ReversalFields ==
    ASSUME IInv, NEW i \in DOMAIN tx, NEW row, row = Reversal(i)
    PROVE  /\ row \in Row /\ row.contact = tx[i].contact /\ row.amount = tx[i].amount
           /\ row.entry # tx[i].entry /\ row.applied = NoRow /\ row.reversalOf = i
           /\ row.seq = Cardinality(DOMAIN tx) + 1
<1>1. Cardinality(DOMAIN tx) + 1 \in Nat
  BY FS_CardinalityType DEF IInv, Booked, Rows
<1>2. Today \in Int
  BY StartAssumption
<1>3. i \in Id /\ tx[i] \in Row
  BY DEF IInv, TypeOK
<1> DEFINE old == tx[i]
           n == Cardinality(DOMAIN tx) + 1
<1>4. row = [old EXCEPT !.entry = Flip(old.entry), !.date = Today, !.due = NoDue, !.applied = NoRow,
                        !.reversalOf = i, !.status = "POSTED", !.seq = n, !.raw = FALSE]
  BY DEF Reversal
<1>5. Flip(old.entry) \in {"DEBIT", "CREDIT"} /\ Flip(old.entry) # old.entry
  <2>1. old.entry \in {"DEBIT", "CREDIT"}
    BY <1>3, RowFields
  <2> QED BY <2>1 DEF Flip
<1> HIDE DEF old, n
<1>6. old \in Row /\ n \in Nat
  BY <1>1, <1>3 DEF old, n
<1>7. row \in Row /\ row.contact = old.contact /\ row.amount = old.amount
      /\ row.entry = Flip(old.entry) /\ row.applied = NoRow /\ row.reversalOf = i /\ row.seq = n
  BY <1>2, <1>3, <1>4, <1>5, <1>6 DEF Row
<1> QED BY <1>5, <1>7 DEF old, n

LEMMA CommitVoidKeeps ==
    ASSUME IInv, NEW r \in Request, CommitVoid(r)
    PROVE  IInv'
<1> DEFINE i == target[r]
           row == Reversal(i)
<1>1. CASE Finish(r)
  BY <1>1, FinishKeeps
<1>2. CASE ~Finish(r)
  <2>1. /\ pc[r] = "commit" /\ body[r].op = "void" /\ Live(tx[i])
        /\ tx' = [Added(r, row) EXCEPT ![i].status = "VOIDED"]
        /\ status' = status /\ kind' = kind /\ Close(r)
    BY <1>2 DEF CommitVoid, Live
  <2>2. i \in DOMAIN tx /\ r \notin DOMAIN tx /\ i # r
    <3>1. Placed(r)
      BY LeftAlone DEF Sound
    <3> QED BY <2>1, <3>1 DEF Placed
  <2>3. row = Reversal(i)
    OBVIOUS
  <2> HIDE DEF row, i
  <2>4. /\ row \in Row /\ row.contact = tx[i].contact /\ row.amount = tx[i].amount
        /\ row.entry # tx[i].entry /\ row.applied = NoRow /\ row.reversalOf = i
        /\ row.seq = Cardinality(DOMAIN tx) + 1
    BY <2>2, <2>3, ReversalFields
  <2> HIDE DEF i
  <2>5. /\ DOMAIN tx' = DOMAIN tx \cup {r} /\ tx'[r] = row
        /\ tx'[i] = [tx[i] EXCEPT !.status = "VOIDED"]
        /\ \A j \in DOMAIN tx : j # i => tx'[j] = tx[j]
    BY <2>1, <2>2 DEF Added
  <2>6. Rows(tx) /\ NoRow \notin DOMAIN tx
    BY IdAssumption DEF IInv, Booked, TypeOK
  <2>7. /\ tx'[i] \in Row /\ tx'[i].status = "VOIDED"
        /\ tx'[i].type = tx[i].type /\ tx'[i].contact = tx[i].contact
        /\ tx'[i].account = tx[i].account /\ tx'[i].entry = tx[i].entry
        /\ tx'[i].amount = tx[i].amount /\ tx'[i].applied = tx[i].applied
        /\ tx'[i].reversalOf = tx[i].reversalOf /\ tx'[i].seq = tx[i].seq
        /\ tx'[i].raw = tx[i].raw
    <3> DEFINE old == tx[i]
    <3>1. old \in Row
      BY <2>2, <2>6 DEF Rows
    <3>2. tx'[i] = [old EXCEPT !.status = "VOIDED"]
      BY <2>5
    <3> HIDE DEF old
    <3>3. /\ tx'[i] \in Row /\ tx'[i].status = "VOIDED"
          /\ tx'[i].type = old.type /\ tx'[i].contact = old.contact
          /\ tx'[i].account = old.account /\ tx'[i].entry = old.entry
          /\ tx'[i].amount = old.amount /\ tx'[i].applied = old.applied
          /\ tx'[i].reversalOf = old.reversalOf /\ tx'[i].seq = old.seq
          /\ tx'[i].raw = old.raw
      BY <3>1, <3>2 DEF Row
    <3> QED BY <3>3 DEF old
  <2>8. ~Live(row)
    BY <2>2, <2>4, <2>6 DEF Live
  <2>9. Rows(tx')
    <3>1. IsFiniteSet(DOMAIN tx')
      BY <2>5, <2>6, FS_AddElement DEF Rows
    <3>2. ASSUME NEW j \in DOMAIN tx' PROVE tx'[j] \in Row
      BY <2>4, <2>5, <2>6, <2>7 DEF Rows
    <3> QED BY <3>1, <3>2 DEF Rows
  <2>10. Grown(tx, tx', r)
    <3>1. ASSUME NEW j \in DOMAIN tx
          PROVE  /\ tx'[j].type = tx[j].type /\ tx'[j].contact = tx[j].contact
                 /\ tx'[j].account = tx[j].account /\ tx'[j].entry = tx[j].entry
                 /\ tx'[j].amount = tx[j].amount /\ tx'[j].applied = tx[j].applied
                 /\ tx'[j].reversalOf = tx[j].reversalOf /\ tx'[j].seq = tx[j].seq
                 /\ tx'[j].raw = tx[j].raw
                 /\ tx'[j].status = tx[j].status \/ tx'[j].status = "VOIDED"
      BY <2>5, <2>7
    <3> QED BY <2>2, <2>4, <2>5, <2>6, <2>8, <2>9, <3>1 DEF Grown
  <2>11. Reverses(tx, tx', r, i)
    BY <2>1, <2>2, <2>4, <2>5, <2>7, <2>8 DEF Reverses
  <2>12. VoidsCancel(tx')
    BY <2>10, <2>11, CancelsVoided DEF IInv, Booked
  <2>13. ASSUME NEW c \in Contact, NEW d \in Direction
         PROVE  Taken(tx', c, d) \subseteq Taken(tx, c, d)
    <3>1. Taken(tx', c, d) \subseteq Taken(tx, c, d) \cup {r}
      BY <2>10, GrownBy
    <3>2. r \notin Taken(tx', c, d)
      BY <2>5, <2>8 DEF Taken
    <3> QED BY <3>1, <3>2
  <2> QED BY <2>1, <2>10, <2>12, <2>13, GrownKeeps
<1> QED BY <1>1, <1>2

(***************************************************************************)
(* The contact's own operations.                                           *)
(***************************************************************************)
LEMMA ContactKeeps ==
    ASSUME IInv, NEW r \in Request, Close(r), tx' = tx, kind' \in [Contact -> ContactType],
           status' \in [Contact -> {"UNUSED", "ACTIVE", "ARCHIVED", "DELETED"}],
           \A c \in Contact : status[c] # "UNUSED" =>
             status'[c] # "UNUSED" /\ (There(status', c) => There(status, c))
    PROVE  IInv'
<1>1. BooksTyped /\ Booked /\ AllLinked(tx) /\ Rows(tx)
  BY TypesTogether DEF IInv, Booked
<1>2. BooksKept'
  <2>1. BooksTyped'
    BY <1>1 DEF BooksTyped
  <2>2. Booked'
    BY <1>1 DEF Booked, PaymentsWithinOwed
  <2> QED BY <1>1, <2>1, <2>2 DEF BooksKept
<1>3. World(r)
  <2>1. ASSUME NEW c \in Contact PROVE WorldOf(r, c)
    BY DEF WorldOf
  <2>2. Cardinality(DOMAIN tx) \in Nat
    BY <1>1, FS_CardinalityType DEF Rows
  <2>3. Kept(tx, tx')
    BY DEF Kept
  <2> QED BY <1>1, <2>1, <2>2, <2>3 DEF World
<1> QED BY <1>2, <1>3, CloseKeeps

LEMMA CommitCreateKeeps ==
    ASSUME IInv, NEW r \in Request, CommitCreate(r)
    PROVE  IInv'
<1> DEFINE k == body[r].contact
<1>1. CASE Finish(r)
  BY <1>1, FinishKeeps
<1>2. CASE ~Finish(r)
  <2>1. /\ status[k] = "UNUSED" /\ status' = [status EXCEPT ![k] = "ACTIVE"]
        /\ tx' = tx /\ kind' = kind /\ Close(r)
    BY <1>2 DEF CommitCreate
  <2>2. /\ kind' \in [Contact -> ContactType]
        /\ status \in [Contact -> {"UNUSED", "ACTIVE", "ARCHIVED", "DELETED"}]
    BY <2>1 DEF IInv, TypeOK
  <2> HIDE DEF k
  <2>3. status' \in [Contact -> {"UNUSED", "ACTIVE", "ARCHIVED", "DELETED"}]
    BY <2>1, <2>2
  <2>4. ASSUME NEW c \in Contact, status[c] # "UNUSED" PROVE status'[c] = status[c]
    BY <2>1, <2>2, <2>4
  <2> QED BY <2>1, <2>2, <2>3, <2>4, ContactKeeps DEF There
<1> QED BY <1>1, <1>2

LEMMA CommitRetypeKeeps ==
    ASSUME IInv, NEW r \in Request, CommitRetype(r)
    PROVE  IInv'
<1> DEFINE k == body[r].contact
           t == body[r].type
<1>1. CASE Finish(r)
  BY <1>1, FinishKeeps
<1>2. CASE ~Finish(r)
  <2>1. /\ body[r].op = "retype" /\ kind' = [kind EXCEPT ![k] = t]
        /\ tx' = tx /\ status' = status /\ Close(r)
    BY <1>2 DEF CommitRetype
  <2>2. /\ kind \in [Contact -> ContactType]
        /\ status \in [Contact -> {"UNUSED", "ACTIVE", "ARCHIVED", "DELETED"}]
    BY DEF IInv, TypeOK
  <2>3. t \in ContactType
    BY <2>1, LeftAlone, BodyFields
  <2> HIDE DEF k, t
  <2>4. kind' \in [Contact -> ContactType]
    BY <2>1, <2>2, <2>3
  <2> QED BY <2>1, <2>2, <2>4, ContactKeeps
<1> QED BY <1>1, <1>2

LEMMA ArchiveKeeps ==
    ASSUME IInv, NEW r \in Request, Archive(r)
    PROVE  IInv'
<1> DEFINE k == body[r].contact
<1>1. CASE Finish(r)
  BY <1>1, FinishKeeps
<1>2. CASE ~Finish(r)
  <2>1. /\ There(status, k) /\ status' = [status EXCEPT ![k] = "ARCHIVED"]
        /\ tx' = tx /\ kind' = kind /\ Close(r)
    BY <1>2 DEF Archive, Exists, There
  <2>2. /\ kind' \in [Contact -> ContactType]
        /\ status \in [Contact -> {"UNUSED", "ACTIVE", "ARCHIVED", "DELETED"}]
    BY <2>1 DEF IInv, TypeOK
  <2> HIDE DEF k
  <2>3. status' \in [Contact -> {"UNUSED", "ACTIVE", "ARCHIVED", "DELETED"}]
    BY <2>1, <2>2
  <2>4. ASSUME NEW c \in Contact, status[c] # "UNUSED"
        PROVE  status'[c] # "UNUSED" /\ (There(status', c) => There(status, c))
    BY <2>1, <2>2, <2>4 DEF There
  <2> QED BY <2>1, <2>2, <2>3, <2>4, ContactKeeps
<1> QED BY <1>1, <1>2

LEMMA EraseKeeps ==
    ASSUME IInv, NEW r \in Request, Erase(r)
    PROVE  IInv'
<1> DEFINE k == body[r].contact
<1>1. CASE Finish(r)
  BY <1>1, FinishKeeps
<1>2. CASE ~Finish(r)
  <2>1. /\ pc[r] = "erase" /\ There(status, k) /\ status' = [status EXCEPT ![k] = "DELETED"]
        /\ tx' = [i \in DOMAIN tx |-> IF tx[i].contact = k THEN [tx[i] EXCEPT !.contact = Nobody]
                                                           ELSE tx[i]]
        /\ kind' = kind /\ Close(r)
    BY <1>2 DEF Erase, Exists, There
  <2>2. k \in Contact /\ k # Nobody
    <3>1. Placed(r) /\ body[r] \in Body
      BY LeftAlone DEF Sound
    <3> QED BY <2>1, <3>1, BodyFields, IdAssumption DEF Placed, Leaves
  <2>3. /\ BooksTyped /\ Rows(tx) /\ Numbered(tx) /\ AllShaped(tx) /\ VoidsCancel(tx)
        /\ PaymentsWithinOwed /\ AllLinked(tx)
    BY TypesTogether DEF IInv, Booked
  <2> HIDE DEF k
  <2>4. Erased(tx, tx', k)
    <3>1. DOMAIN tx' = DOMAIN tx
      BY <2>1
    <3>2. ASSUME NEW i \in DOMAIN tx
          PROVE  /\ tx'[i] \in Row
                 /\ tx'[i].type = tx[i].type /\ tx'[i].entry = tx[i].entry
                 /\ tx'[i].account = tx[i].account /\ tx'[i].amount = tx[i].amount
                 /\ tx'[i].applied = tx[i].applied /\ tx'[i].reversalOf = tx[i].reversalOf
                 /\ tx'[i].seq = tx[i].seq /\ tx'[i].raw = tx[i].raw
                 /\ tx'[i].status = tx[i].status
                 /\ IF tx[i].contact = k THEN tx'[i].contact = Nobody ELSE tx'[i] = tx[i]
      <4> DEFINE old == tx[i]
      <4>1. old \in Row
        BY <2>3 DEF Rows
      <4>2. tx'[i] = IF old.contact = k THEN [old EXCEPT !.contact = Nobody] ELSE old
        BY <2>1
      <4> HIDE DEF old
      <4>3. CASE old.contact # k
        BY <4>1, <4>2, <4>3 DEF old
      <4>4. CASE old.contact = k
        <5>1. /\ tx'[i] \in Row
              /\ tx'[i].type = old.type /\ tx'[i].entry = old.entry
              /\ tx'[i].account = old.account /\ tx'[i].amount = old.amount
              /\ tx'[i].applied = old.applied /\ tx'[i].reversalOf = old.reversalOf
              /\ tx'[i].seq = old.seq /\ tx'[i].raw = old.raw
              /\ tx'[i].status = old.status /\ tx'[i].contact = Nobody
          BY <4>1, <4>2, <4>4 DEF Row
        <5> QED BY <4>4, <5>1 DEF old
      <4> QED BY <4>3, <4>4
    <3>3. Rows(tx')
      BY <2>3, <3>1, <3>2 DEF Rows
    <3> QED BY <2>2, <2>3, <3>1, <3>2, <3>3 DEF Erased
  <2>5. /\ Numbered(tx') /\ AllShaped(tx') /\ AllLinked(tx') /\ Kept(tx, tx') /\ Rows(tx')
        /\ DOMAIN tx' = DOMAIN tx
    BY <2>3, <2>4, ErasedSame DEF Erased
  <2>6. VoidsCancel(tx')
    BY <2>3, <2>4, CancelsErased, IdAssumption
  <2>7. Named(tx', k) = {}
    BY <2>4, ErasedSame
  <2>8. \A c \in Contact : c # k =>
          /\ Named(tx', c) = Named(tx, c) /\ \A i \in Named(tx, c) : tx'[i] = tx[i]
    BY <2>4, ErasedSame, IdAssumption
  <2>9. ASSUME NEW c \in Contact, NEW d, c # k
        PROVE  Ever(tx', c, d) = Ever(tx, c, d) /\ Taken(tx', c, d) = Taken(tx, c, d)
    <3>1. c # Nobody
      BY IdAssumption
    <3> QED BY <2>4, <2>9, <3>1, ErasedSame
  <2>10. NoRow \notin DOMAIN tx'
    BY <2>3, <2>5, IdAssumption DEF BooksTyped
  <2>11. ASSUME NEW c \in Contact, NEW d \in Direction PROVE WithinOwed(tx', c, d)
    <3>1. CASE c # k
      <4>1. WithinOwed(tx, c, d)
        BY <2>3 DEF PaymentsWithinOwed
      <4>2. Ever(tx, c, d) \subseteq Ever(tx', c, d) /\ Taken(tx', c, d) \subseteq Taken(tx, c, d)
        BY <2>9, <3>1
      <4> QED BY <2>3, <2>5, <2>10, <4>1, <4>2, WithinKept
    <3>2. CASE c = k
      <4>1. Taken(tx', c, d) = {} /\ Ever(tx', c, d) = {}
        BY <2>7, <3>2 DEF Taken, Ever
      <4>2. Amounts(tx', Taken(tx', c, d)) = 0 /\ Invoiced(tx', Ever(tx', c, d), d) = 0
        BY <4>1, NothingAmounts
      <4>3. OpeningOwed(c, d) \in Nat
        BY OwedAtOpening
      <4>4. ASSUME NEW i \in DOMAIN tx'
            PROVE  Amounts(tx', {p \in Taken(tx', c, d) : tx'[p].applied = i}) <= Original(tx'[i], d)
        <5>1. {p \in Taken(tx', c, d) : tx'[p].applied = i} = {}
          BY <4>1
        <5>2. Amounts(tx', {p \in Taken(tx', c, d) : tx'[p].applied = i}) = 0
          BY <5>1, NothingAmounts
        <5>3. Original(tx'[i], d) \in Nat
          BY <2>5, RowFields DEF Rows
        <5> QED BY <5>2, <5>3
      <4>5. Amounts(tx', Taken(tx', c, d)) <= OpeningOwed(c, d) + Invoiced(tx', Ever(tx', c, d), d)
        BY <4>2, <4>3
      <4> QED BY <4>4, <4>5 DEF WithinOwed
    <3> QED BY <3>1, <3>2
  <2>12. status' \in [Contact -> {"UNUSED", "ACTIVE", "ARCHIVED", "DELETED"}]
    BY <2>1, <2>3 DEF BooksTyped
  <2>13. BooksKept'
    <3>1. BooksTyped'
      BY <2>1, <2>3, <2>5, <2>12 DEF BooksTyped, Rows
    <3>2. PaymentsWithinOwed'
      BY <2>11 DEF PaymentsWithinOwed
    <3>3. Booked'
      BY <2>5, <2>6, <3>2 DEF Booked
    <3> QED BY <2>5, <3>1, <3>3 DEF BooksKept
  <2>14. World(r)
    <3>1. ASSUME NEW c \in Contact PROVE WorldOf(r, c)
      <4>1. CASE c = k
        <5>1. status'[c] = "DELETED"
          BY <2>1, <2>3, <4>1 DEF BooksTyped
        <5> QED BY <5>1 DEF WorldOf, There
      <4>2. CASE c # k
        <5>1. status'[c] = status[c]
          BY <2>1, <2>3, <4>2 DEF BooksTyped
        <5>2. \A d \in Direction :
                /\ Ever(tx, c, d) \subseteq Ever(tx', c, d)
                /\ Taken(tx', c, d) \subseteq Taken(tx, c, d) \/ holder[c] = r
          BY <2>9, <4>2
        <5> QED BY <2>5, <2>8, <4>2, <5>1, <5>2 DEF WorldOf, There
      <4> QED BY <4>1, <4>2
    <3>2. Cardinality(DOMAIN tx) \in Nat
      BY <2>3, FS_CardinalityType DEF Rows
    <3> QED BY <2>5, <3>1, <3>2 DEF World
  <2> QED BY <2>1, <2>13, <2>14, CloseKeeps
<1> QED BY <1>1, <1>2

LEMMA InitHolds == Init => IInv
<1> SUFFICES ASSUME Init PROVE IInv
  OBVIOUS
<1>1. /\ OldRow \in [Old -> Row] /\ Numbered(OldRow) /\ VoidsCancel(OldRow)
      /\ \A i \in Old : Live(OldRow[i]) => Shaped(OldRow[i])
      /\ \A i \in Old : OldRow[i].applied \in Old \cup {NoRow}
      /\ \A c \in Contact, d \in Direction : WithinOwed(OldRow, c, d)
  BY StartAssumption
<1>2. tx = OldRow /\ DOMAIN tx = Old /\ IsFiniteSet(Old)
  BY <1>1, IdAssumption, FS_Subset DEF Init, Id
<1>3. Request \cap Old = {} /\ Free \notin Request
  BY IdAssumption
<1>4. BooksTyped
  BY <1>1, <1>2 DEF Init, BooksTyped, Id, ContactType
<1>5. OwnTyped
  BY <1>3 DEF Init, OwnTyped, Typed, Direction, Place
<1>6. Booked
  <2>1. Rows(tx)
    BY <1>1, <1>2 DEF Rows
  <2>2. AllShaped(tx)
    BY <1>1, <1>2 DEF AllShaped
  <2>3. PaymentsWithinOwed
    BY <1>1, <1>2 DEF PaymentsWithinOwed
  <2> QED BY <1>1, <1>2, <2>1, <2>2, <2>3 DEF Booked
<1>7. AllLinked(tx)
  BY <1>1, <1>2 DEF AllLinked
<1>8. ASSUME NEW r \in Request PROVE Sound(r)
  <2>1. /\ r \notin DOMAIN tx /\ pc[r] = "idle" /\ side[r] = "RECEIVABLE" /\ began[r] = 0
        /\ \A c \in Contact : holder[c] # r
    BY <1>2, <1>3 DEF Init
  <2>2. Cardinality(DOMAIN tx) \in Nat
    BY <1>2, FS_CardinalityType
  <2>3. Placed(r) /\ Locked(r)
    BY <2>1 DEF Placed, Locked
  <2>4. Listed(r) /\ Fitted(r)
    BY <2>1 DEF Listed, Fitted
  <2>5. Adding(r)
    BY <2>1, <2>2 DEF Adding
  <2> QED BY <2>3, <2>4, <2>5 DEF Sound
<1> QED BY <1>4, <1>5, <1>6, <1>7, <1>8, TypesTogether DEF IInv

LEMMA NextKeeps == IInv /\ [Next]_vars => IInv'
<1> SUFFICES ASSUME IInv, [Next]_vars PROVE IInv'
  OBVIOUS
<1>1. CASE UNCHANGED vars
  <2>1. /\ tx' = tx /\ status' = status /\ kind' = kind /\ body' = body /\ target' = target
        /\ pc' = pc /\ holder' = holder /\ side' = side /\ listed' = listed /\ sum' = sum
        /\ began' = began
    BY <1>1 DEF vars
  <2>2. BooksTyped /\ OwnTyped /\ Booked /\ AllLinked(tx)
    BY TypesTogether DEF IInv
  <2>3. BooksTyped' /\ OwnTyped'
    BY <2>1, <2>2 DEF BooksTyped, OwnTyped, Typed
  <2>4. Booked' /\ AllLinked(tx)'
    BY <2>1, <2>2 DEF Booked, PaymentsWithinOwed
  <2>5. ASSUME NEW r \in Request PROVE Sound(r)'
    <3>1. Sound(r)
      BY DEF IInv
    <3> QED BY <2>1, <3>1 DEF Sound, Placed, Locked, Listed, Fitted, Adding, Exists
  <2> QED BY <2>3, <2>4, <2>5, TypesTogether DEF IInv
<1>2. CASE AllDone
  BY <1>1, <1>2 DEF AllDone
<1>3. ASSUME NEW r \in Request, Step(r) PROVE IInv'
  <2>1. CASE Arrive(r)
    BY <2>1, ArriveKeeps
  <2>2. CASE TakeKey(r)
    BY <2>2, TakeKeyKeeps
  <2>3. CASE ReadInvoices(r)
    BY <2>3, ReadInvoicesKeeps
  <2>4. CASE CheckPayment(r)
    BY <2>4, CheckPaymentKeeps
  <2>5. CASE CommitInvoice(r)
    BY <2>5, CommitInvoiceKeeps
  <2>6. CASE CommitPayment(r)
    BY <2>6, CommitPaymentKeeps
  <2>7. CASE CommitRaw(r)
    BY <2>7, CommitRawKeeps
  <2>8. CASE CommitVoid(r)
    BY <2>8, CommitVoidKeeps
  <2>9. CASE CommitCreate(r)
    BY <2>9, CommitCreateKeeps
  <2>10. CASE CommitRetype(r)
    BY <2>10, CommitRetypeKeeps
  <2>11. CASE Count(r)
    BY <2>11, CountKeeps
  <2>12. CASE Erase(r)
    BY <2>12, EraseKeeps
  <2>13. CASE Find(r)
    BY <2>13, FindKeeps
  <2>14. CASE AddReceivable(r)
    BY <2>14, AddReceivableKeeps
  <2>15. CASE CheckSettled(r)
    BY <2>15, CheckSettledKeeps
  <2>16. CASE Archive(r)
    BY <2>16, ArchiveKeeps
  <2> QED BY <1>3, <2>1, <2>2, <2>3, <2>4, <2>5, <2>6, <2>7, <2>8, <2>9, <2>10, <2>11, <2>12,
             <2>13, <2>14, <2>15, <2>16 DEF Step
<1>4. ASSUME NEW r \in Request, Abort(r) PROVE IInv'
  BY <1>4, FinishKeeps DEF Abort
<1> QED BY <1>1, <1>2, <1>3, <1>4 DEF Next

(* Every reachable state has its books in order, and every request is      *)
(* where what it holds, has read and has added up allows.                  *)
THEOREM Invariance == Spec => []IInv
<1> QED BY InitHolds, NextKeeps, PTL DEF Spec

(***************************************************************************)
(* What follows from it.                                                   *)
(***************************************************************************)
(* Two payments sent at once can't both fit under the same outstanding     *)
(* balance: however requests interleave, what receivePayment and           *)
(* payPayment took from a contact stays within what it ever owed, on each  *)
(* invoice within its amount, and computeDirection gives the oldest        *)
(* invoice its money first.                                                *)
THEOREM PaymentsStayFit == Spec => []PaymentsFit
<1>1. IInv => PaymentsFit
  BY OldestPaid DEF IInv, Booked, PaymentsFit
<1> QED BY <1>1, Invariance, PTL

(* The closing balance of getLoanStatement, over every entry, is the       *)
(* current balance computeDirection gives without the voided ones.         *)
THEOREM StatementsAgree == Spec => []StatementAgrees
<1>1. IInv => StatementAgrees
  BY StatementAdds DEF IInv
<1> QED BY <1>1, Invariance, PTL

(* getAging, getOverdue and getDueSoon never disagree about a contact      *)
(* that only the features' own transactions name.                          *)
THEOREM ReportsStayInLine == Spec => []ReportsAgree
<1>1. IInv => ReportsAgree
  BY ReportsAdd DEF IInv
<1> QED BY <1>1, Invariance, PTL

(* archive() archives a contact that is settled, unless something was      *)
(* posted between its reads and its update.                                *)
ArchivedWell ==
    \A c \in Contact :
        status[c] = "ACTIVE" /\ status'[c] = "ARCHIVED" =>
            \E r \in Request :
                /\ pc[r] = "archive" /\ body[r].contact = c
                /\ CurrentBalance(c) = 0 \/ began[r] < Cardinality(DOMAIN tx)

LEMMA ArchivesWell ==
    ASSUME IInv, Next, NEW c \in Contact, status[c] = "ACTIVE", status'[c] = "ARCHIVED"
    PROVE  \E r \in Request :
             /\ pc[r] = "archive" /\ body[r].contact = c
             /\ CurrentBalance(c) = 0 \/ began[r] < Cardinality(DOMAIN tx)
<1>1. status' # status /\ status \in [Contact -> {"UNUSED", "ACTIVE", "ARCHIVED", "DELETED"}]
  BY DEF IInv, TypeOK
<1>2. \A r \in Request : ~Finish(r) /\ \A l : ~GoOn(r, l)
  BY <1>1 DEF Finish, GoOn, books
<1>3. PICK r \in Request : Step(r)
  BY <1>1, <1>2 DEF Next, AllDone, vars, Abort
<1>4. Archive(r)
  <2>1. ~Arrive(r) /\ ~TakeKey(r)
    BY <1>1, <1>2 DEF Arrive, TakeKey, books
  <2>2. ~ReadInvoices(r) /\ ~CheckPayment(r) /\ ~Count(r) /\ ~Find(r) /\ ~AddReceivable(r)
        /\ ~CheckSettled(r)
    BY <1>2 DEF ReadInvoices, CheckPayment, Count, Find, AddReceivable, CheckSettled, GoOnQuietly
  <2>3. ~CommitInvoice(r) /\ ~CommitPayment(r) /\ ~CommitRaw(r)
    <3>1. \A row : ~Post(r, row)
      BY <1>1, <1>2 DEF Post
    <3> QED BY <3>1 DEF CommitInvoice, CommitPayment, CommitRaw
  <2>4. ~CommitVoid(r) /\ ~CommitRetype(r)
    BY <1>1, <1>2 DEF CommitVoid, CommitRetype
  <2>5. ~CommitCreate(r) /\ ~Erase(r)
    <3> DEFINE k == body[r].contact
    <3>1. \A v : status' = [status EXCEPT ![k] = v] => v = "ARCHIVED"
      BY <1>1
    <3> QED BY <1>2, <3>1 DEF CommitCreate, Erase
  <2> QED BY <1>3, <2>1, <2>2, <2>3, <2>4, <2>5 DEF Step
<1> DEFINE k == body[r].contact
<1>5. pc[r] = "archive" /\ status' = [status EXCEPT ![k] = "ARCHIVED"]
  BY <1>2, <1>4 DEF Archive
<1>6. k = c
  BY <1>1, <1>5
<1>7. began[r] \in Nat /\ Cardinality(DOMAIN tx) \in Nat /\ Placed(r) /\ Adding(r)
  BY LeftAlone, FS_CardinalityType DEF Sound, IInv, Booked, Rows
<1>8. CASE began[r] = Cardinality(DOMAIN tx)
  <2>1. (Opening[c] + BalanceIn(tx, c, "RECEIVABLE")) - BalanceIn(tx, c, "PAYABLE") = 0
    BY <1>5, <1>6, <1>7, <1>8 DEF Adding, Exists, Placed
  <2>2. ASSUME NEW d PROVE BreakdownNow(c, d).balance = BalanceIn(tx, c, d)
    BY BalanceNow, ReadOff DEF BalanceIn
  <2>3. CurrentBalance(c) = Opening[c] + (BalanceIn(tx, c, "RECEIVABLE") - BalanceIn(tx, c, "PAYABLE"))
    BY <2>2, Zenon DEF CurrentBalance
  <2>4. ASSUME NEW d PROVE BalanceIn(tx, c, d) \in Int
    <3>1. /\ Rows(tx) /\ InvoicesIn(tx, c, d) \in SUBSET DOMAIN tx
          /\ PaymentsIn(tx, c, d) \in SUBSET DOMAIN tx
      BY DEF IInv, Booked, InvoicesIn, PaymentsIn, Named
    <3>2. /\ Invoiced(tx, InvoicesIn(tx, c, d), d) \in Nat
          /\ Amounts(tx, PaymentsIn(tx, c, d)) \in Nat
      BY <3>1, LessTaken
    <3> QED BY <3>2 DEF BalanceIn
  <2>5. Opening[c] \in Int
    BY StartAssumption
  <2>6. BalanceIn(tx, c, "RECEIVABLE") \in Int /\ BalanceIn(tx, c, "PAYABLE") \in Int
    BY <2>4
  <2>7. CurrentBalance(c) = 0
    BY <2>1, <2>3, <2>5, <2>6
  <2> QED BY <1>5, <1>6, <2>7
<1>9. CASE began[r] # Cardinality(DOMAIN tx)
  BY <1>5, <1>6, <1>7, <1>9 DEF Adding
<1> QED BY <1>8, <1>9

THEOREM ArchivedSettled == Spec => ArchiveSettled
<1>1. IInv /\ [Next]_vars => [ArchivedWell]_vars
  BY ArchivesWell DEF ArchivedWell
<1>2. ASSUME [][ArchivedWell]_vars PROVE ArchiveSettled
  BY <1>2 DEF ArchiveSettled, ArchivedWell
<1> QED BY <1>1, <1>2, Invariance, PTL DEF Spec
=============================================================================
