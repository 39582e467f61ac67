------------------------------- MODULE Books --------------------------------
(***************************************************************************)
(* What the ledger promises its users: a book of postings in which a       *)
(* posting or a void happens at one instant, completely or not at all, and *)
(* in which the balance of an account moves by exactly the entries that    *)
(* instant adds.  There are no requests, locks or recalculations here.     *)
(***************************************************************************)
EXTENDS Integers, Sequences

CONSTANTS Txn, Account, Row, NoRow, NoTxn, NoKey

VARIABLES rows, voided, cache

vars == <<rows, voided, cache>>

Written == {t \in Txn : rows[t] # NoRow}

LinesOn(row, a, s) ==
    {i \in DOMAIN row.lines : row.lines[i].account = a /\ row.lines[i].side = s}

NoBalance == [DEBIT |-> {}, CREDIT |-> {}]

Init ==
    /\ rows = [t \in Txn |-> NoRow]
    /\ voided = {}
    /\ cache = [a \in Account |-> NoBalance]

(* Each balance gains the entries of the new row and nothing else.         *)
Enter(t, row) ==
    /\ rows[t] = NoRow
    /\ rows' = [rows EXCEPT ![t] = row]
    /\ cache' = [a \in Account |->
          [DEBIT |-> cache[a].DEBIT \cup {<<t, i>> : i \in LinesOn(row, a, "DEBIT")},
           CREDIT |-> cache[a].CREDIT \cup {<<t, i>> : i \in LinesOn(row, a, "CREDIT")}]]

KeyFree(k) == k = NoKey \/ \A t \in Written : rows[t].key # k

(* A posting; an idempotency key is spent at most once.                    *)
Post(t, row) ==
    /\ row.reversalOf = NoTxn
    /\ KeyFree(row.key)
    /\ Enter(t, row)
    /\ UNCHANGED voided

Opposite(s) == IF s = "DEBIT" THEN "CREDIT" ELSE "DEBIT"

Mirrors(lines, other) ==
    /\ DOMAIN lines = DOMAIN other
    /\ \A i \in DOMAIN lines :
        /\ lines[i].account = other[i].account
        /\ lines[i].amount = other[i].amount
        /\ lines[i].side = Opposite(other[i].side)

(* A void of o: marked, and undone by a mirror posting, once.  A reversal  *)
(* and a posting a feature owns are never voided.                          *)
Void(t, row, o) ==
    /\ o \in Written \ voided
    /\ rows[o].reversalOf = NoTxn
    /\ ~rows[o].owned
    /\ row.reversalOf = o
    /\ row.business = rows[o].business
    /\ row.key = NoKey
    /\ Mirrors(row.lines, rows[o].lines)
    /\ Enter(t, row)
    /\ voided' = voided \cup {o}

(* Which row is written is left open: it is the one t names afterwards.    *)
Next == \E t \in Txn :
          /\ rows'[t] \in Row
          /\ \/ Post(t, rows'[t])
             \/ \E o \in Txn : Void(t, rows'[t], o)

Spec == Init /\ [][Next]_vars
=============================================================================
