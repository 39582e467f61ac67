---------------------------- MODULE LedgerProofs ----------------------------
(***************************************************************************)
(* Proofs that the ledger keeps its invariants for every set of requests,  *)
(* accounts, keys and bodies.                                              *)
(*                                                                         *)
(* The argument is layered: each layer is an invariant proved with the     *)
(* help of the layers before it.                                           *)
(***************************************************************************)
EXTENDS Ledger, SumsProofs

(* The entries a table holds for an account are pairs of a request and a   *)
(* line number.                                                            *)
LEMMA EntriesTyped ==
    ASSUME NEW table \in [Request -> Row \cup {NoRow}], NEW a, NEW s
    PROVE  EntriesOn(table, a, s) \subseteq Entry
<1>1. ASSUME NEW t \in Request, table[t] # NoRow, NEW i \in LinesOn(table[t], a, s)
      PROVE  <<t, i>> \in Entry
  <2>1. table[t] \in Row
    BY <1>1
  <2>2. DOMAIN table[t].lines \subseteq Nat
    BY <2>1 DEF Row
  <2> QED BY <1>1, <2>2 DEF LinesOn, Entry
<1> QED BY <1>1 DEF EntriesOn

LEMMA BalanceTyped ==
    ASSUME NEW table \in [Request -> Row \cup {NoRow}], NEW a
    PROVE  BalanceIn(table, a) \in Balance
BY EntriesTyped DEF BalanceIn, Balance

(* The mirror of a sequence of lines is one.                               *)
LEMMA MirrorTyped ==
    ASSUME NEW lines \in Seq(Line)
    PROVE  /\ Mirror(lines) \in Seq(Line)
           /\ DOMAIN Mirror(lines) = DOMAIN lines
           /\ \A i \in DOMAIN lines :
                /\ Mirror(lines)[i].account = lines[i].account
                /\ Mirror(lines)[i].amount = lines[i].amount
                /\ Mirror(lines)[i].side = Flip(lines[i].side)
<1>1. DOMAIN lines = 1 .. Len(lines) /\ Len(lines) \in Nat
  OBVIOUS
<1>2. \A i \in DOMAIN lines : lines[i] \in Line
  OBVIOUS
<1>3. \A i \in DOMAIN lines : [lines[i] EXCEPT !.side = Flip(@)] \in Line
  BY <1>2 DEF Line, Flip, Side
<1>4. Mirror(lines) \in [1 .. Len(lines) -> Line]
  BY <1>1, <1>3 DEF Mirror
<1>5. Mirror(lines) \in Seq(Line)
  BY <1>1, <1>4
<1> QED BY <1>1, <1>2, <1>4, <1>5 DEF Mirror, Line

LEMMA VisibleTyped ==
    ASSUME TypeOK, NEW r \in Request
    PROVE  Visible(r) \in [Request -> Row \cup {NoRow}]
BY DEF Visible, TypeOK

(* A request has exactly one of the three bodies.                          *)
LEMMA BodyTyped ==
    ASSUME TypeOK, NEW r \in Request
    PROVE  \/ body[r] \in PostBody /\ body[r].op = "post"
           \/ body[r] \in VoidBody /\ body[r].op = "void"
           \/ body[r] \in ReconcileBody /\ body[r].op = "reconcile"
<1>1. body[r] \in Body
  BY DEF TypeOK
<1> QED BY <1>1, BodyAssumption DEF PostBody, VoidBody, ReconcileBody

LocalsTyped ==
    /\ holder \in [Lock -> Request \cup {Free}]
    /\ draft \in [Request -> Row \cup {NoRow}]
    /\ claim \in [Request -> Request \cup {NoTxn}]
    /\ need \in [Request -> SUBSET Account]
    /\ todo \in [Request -> SUBSET Account]
    /\ cur \in [Request -> SUBSET Account]
    /\ debits \in [Request -> SUBSET Entry]
    /\ fresh \in [Request -> [Account -> Balance]]
    /\ seen \in [Request -> Balance]

LEMMA EndTyped ==
    ASSUME TypeOK, NEW r \in Request, EndTransaction(r)
    PROVE  LocalsTyped'
<1>1. NoBalance \in Balance
  BY DEF NoBalance, Balance
<1> QED BY <1>1 DEF TypeOK, EndTransaction, LocalsTyped

LEMMA FinishTyped ==
    ASSUME TypeOK, NEW r \in Request,
           NEW kind \in {"existing", "conflict", "rejected", "reconciled", "failed"},
           NEW t \in Request \cup {NoTxn},
           Finish(r, kind, t)
    PROVE  TypeOK'
<1>1. LocalsTyped'
  BY EndTyped DEF Finish
<1> QED BY <1>1 DEF TypeOK, LocalsTyped, Finish, Goto, committed

(***************************************************************************)
(* First layer: types, and what each place in the code knows.              *)
(***************************************************************************)

(* Each place belongs to one kind of request.                              *)
PlaceOK(r) ==
    /\ pc[r] \in {"keys", "lookup", "validate", "insert", "fallback"} => body[r].op = "post"
    /\ pc[r] \in {"read", "claim"} => body[r].op = "void"
    /\ pc[r] = "visit" => body[r].op = "reconcile"
    /\ pc[r] = "rows" => body[r].op \in {"post", "void"}

(* The accounts to lock are those of the lines about to be written; the    *)
(* original of a void stays committed.                                     *)
PlanOK(r) ==
    /\ pc[r] \in {"rows", "insert"} /\ body[r].op = "post" =>
        need[r] = AccountsOf(body[r].lines)
    /\ pc[r] \in {"rows", "claim"} /\ body[r].op = "void" =>
        /\ body[r].target \in Posted
        /\ need[r] = AccountsOf(rows[body[r].target].lines)

(* A row is written by a finished request, and only names accounts; an     *)
(* uncommitted row names the accounts its transaction locked.              *)
RecordOK(r) ==
    /\ rows[r] # NoRow => pc[r] = "done" /\ AccountsOf(rows[r].lines) \subseteq Account
    /\ draft[r] # NoRow =>
        /\ pc[r] \in {"debits", "credits"}
        /\ body[r].op \in {"post", "void"}
        /\ need[r] = AccountsOf(draft[r].lines)

LocalOK(r) == PlaceOK(r) /\ PlanOK(r) /\ RecordOK(r)

Base == TypeOK /\ \A r \in Request : LocalOK(r)

(* A step of r that commits nothing only has to be checked at r.           *)
LEMMA LocalStep ==
    ASSUME Base, TypeOK', NEW r \in Request, UNCHANGED <<rows, body>>,
           \A q \in Request \ {r} : pc'[q] = pc[q] /\ need'[q] = need[q] /\ draft'[q] = draft[q],
           LocalOK(r)'
    PROVE  Base'
<1>1. ASSUME NEW q \in Request, q # r PROVE LocalOK(q)'
  BY <1>1 DEF Base, LocalOK, PlaceOK, PlanOK, RecordOK, Posted
<1> QED BY <1>1 DEF Base

LEMMA FinishBase ==
    ASSUME Base, NEW r \in Request, pc[r] # "done",
           NEW kind \in {"existing", "conflict", "rejected", "reconciled", "failed"},
           NEW t \in Request \cup {NoTxn},
           Finish(r, kind, t)
    PROVE  Base'
<1>0. rows[r] = NoRow
  BY DEF Base, LocalOK, RecordOK
<1>1. TypeOK'
  BY FinishTyped DEF Base
<1>2. LocalOK(r)'
  BY <1>0 DEF Base, Finish, EndTransaction, Goto, committed, LocalOK, PlaceOK, PlanOK, RecordOK,
         TypeOK
<1>3. \A q \in Request \ {r} : pc'[q] = pc[q] /\ need'[q] = need[q] /\ draft'[q] = draft[q]
  BY DEF Base, TypeOK, Finish, EndTransaction, Goto
<1> QED BY <1>1, <1>2, <1>3, LocalStep DEF Finish, committed

(* A reversal is a row over the accounts of its original.                  *)
LEMMA ReversalTyped ==
    ASSUME Base, NEW t \in Posted, NEW biz \in Business
    PROVE  /\ ReversalOf(t, biz) \in Row
           /\ AccountsOf(ReversalOf(t, biz).lines) = AccountsOf(rows[t].lines)
<1>1. t \in Request /\ rows[t] \in Row
  BY DEF Posted, Base, TypeOK
<1>2. rows[t].lines \in Seq(Line)
  BY <1>1 DEF Row
<1>3. ReversalOf(t, biz).lines = Mirror(rows[t].lines)
  BY DEF ReversalOf
<1>4. AccountsOf(Mirror(rows[t].lines)) = AccountsOf(rows[t].lines)
  <2> DEFINE lines == rows[t].lines
             mirror == Mirror(lines)
  <2>1. DOMAIN mirror = DOMAIN lines /\ \A i \in DOMAIN lines : mirror[i].account = lines[i].account
    BY <1>2, MirrorTyped
  <2> HIDE DEF lines, mirror
  <2>2. AccountsOf(mirror) = AccountsOf(lines)
    BY <2>1 DEF AccountsOf
  <2> QED BY <2>2 DEF lines, mirror
<1> QED BY <1>1, <1>2, <1>3, <1>4, MirrorTyped DEF ReversalOf, Row

(* Every step of a request keeps the base.                                 *)
LEMMA BaseStep ==
    ASSUME Base, NEW r \in Request, Arrive(r) \/ Step(r) \/ Abort(r)
    PROVE  Base'
<1> USE DEF Base
<1>0. LocalOK(r) /\ TypeOK
  OBVIOUS
<1>1. CASE Arrive(r)
  <2>1. TypeOK'
    BY <1>1, BodyTyped DEF Arrive, TypeOK, Goto, committed, locks, work
  <2>2. LocalOK(r)'
    BY <1>0, <1>1, BodyTyped
       DEF Arrive, committed, locks, TypeOK, Goto, LocalOK, PlaceOK, PlanOK, RecordOK
  <2> QED BY <1>1, <2>1, <2>2, LocalStep DEF Arrive, committed, locks, Goto, TypeOK
<1>2. CASE TakeKey(r)
  <2>1. TypeOK'
    BY <1>2 DEF TakeKey, TypeOK, Goto, committed, work, audit, Lock
  <2>2. LocalOK(r)'
    BY <1>0, <1>2 DEF TakeKey, committed, TypeOK, Goto, LocalOK, PlaceOK, PlanOK, RecordOK
  <2> QED BY <1>2, <2>1, <2>2, LocalStep DEF TakeKey, committed, Goto, TypeOK
<1>3. CASE TakeRow(r)
  <2>1. TypeOK'
    BY <1>3 DEF TakeRow, TypeOK, Goto, committed, work, audit, Lock
  <2>2. LocalOK(r)'
    BY <1>0, <1>3
       DEF TakeRow, committed, TypeOK, Goto, LocalOK, PlaceOK, PlanOK, RecordOK, Posted
  <2> QED BY <1>3, <2>1, <2>2, LocalStep DEF TakeRow, committed, Goto, TypeOK
<1>4. ASSUME AnswerFromKey(r), pc[r] # "done" PROVE Base'
  BY <1>4, FinishBase DEF AnswerFromKey, WithKey, Posted
<1>5. CASE Lookup(r)
  <2>1. CASE AnswerFromKey(r)
    BY <2>1, <1>4, <1>5 DEF Lookup
  <2>2. CASE Goto(r, "validate") /\ UNCHANGED <<committed, body, locks, draft, claim,
                                               work, audit, answer>>
    <3>1. TypeOK'
      BY <2>2 DEF TypeOK, Goto, committed, locks, work, audit
    <3>2. LocalOK(r)'
      BY <1>0, <1>5, <2>2
         DEF Lookup, committed, locks, TypeOK, Goto, LocalOK, PlaceOK, PlanOK, RecordOK
    <3> QED BY <2>2, <3>1, <3>2, LocalStep DEF committed, locks, Goto, TypeOK
  <2> QED BY <1>5, <2>1, <2>2 DEF Lookup
<1>6. CASE Validate(r)
  <2>1. CASE Finish(r, "rejected", NoTxn)
    BY <2>1, <1>6, FinishBase DEF Validate
  <2>2. CASE /\ Acceptable(body[r])
             /\ need' = [need EXCEPT ![r] = AccountsOf(body[r].lines)]
             /\ Goto(r, "rows")
             /\ UNCHANGED <<committed, body, holder, draft, claim, work, audit, answer>>
    <3>1. AccountsOf(body[r].lines) \subseteq Account
      BY <2>2 DEF Acceptable, AccountsBelong
    <3>2. TypeOK'
      BY <2>2, <3>1 DEF TypeOK, Goto, committed, work, audit
    <3>3. LocalOK(r)'
      BY <1>0, <1>6, <2>2
         DEF Validate, committed, TypeOK, Goto, LocalOK, PlaceOK, PlanOK, RecordOK, AccountsOf
    <3> QED BY <2>2, <3>2, <3>3, LocalStep DEF committed, Goto, TypeOK
  <2> QED BY <1>6, <2>1, <2>2 DEF Validate
<1>7. CASE Insert(r)
  <2>1. body[r].op = "post" /\ need[r] = AccountsOf(body[r].lines)
    BY <1>0, <1>7 DEF Insert, LocalOK, PlaceOK, PlanOK
  <2>2. RowOf(body[r]) \in Row /\ RowOf(body[r]).lines = body[r].lines
    BY <2>1, BodyTyped DEF RowOf, Row, PostBody
  <2>3. TypeOK'
    BY <1>7, <2>2 DEF Insert, TypeOK, Goto, committed, locks, audit
  <2>4. LocalOK(r)'
    BY <1>0, <1>7, <2>1, <2>2
       DEF Insert, committed, locks, TypeOK, Goto, LocalOK, PlaceOK, PlanOK, RecordOK,
           AccountsOf
  <2> QED BY <1>7, <2>3, <2>4, LocalStep DEF Insert, committed, locks, Goto, TypeOK
<1>8. CASE LoseKey(r)
  <2>1. LocalsTyped'
    BY <1>8, EndTyped DEF LoseKey
  <2>2. TypeOK'
    BY <1>8, <2>1 DEF LoseKey, LocalsTyped, TypeOK, Goto, committed
  <2>3. LocalOK(r)'
    BY <1>0, <1>8
       DEF LoseKey, EndTransaction, committed, TypeOK, Goto, LocalOK, PlaceOK, PlanOK, RecordOK
  <2> QED BY <1>8, <2>2, <2>3, LocalStep DEF LoseKey, EndTransaction, committed, Goto, TypeOK
<1>9. CASE Fallback(r)
  BY <1>9, <1>4 DEF Fallback
<1>10. CASE ReadOriginal(r)
  <2>1. CASE Finish(r, "rejected", NoTxn)
    BY <2>1, <1>10, FinishBase DEF ReadOriginal
  <2>2. CASE /\ Voidable(body[r].target, body[r].business)
             /\ need' = [need EXCEPT ![r] = AccountsOf(rows[body[r].target].lines)]
             /\ Goto(r, "rows")
             /\ UNCHANGED <<committed, body, holder, draft, claim, work, audit, answer>>
    <3>1. body[r].target \in Posted
      BY <2>2 DEF Voidable
    <3>2. AccountsOf(rows[body[r].target].lines) \subseteq Account
      BY <3>1 DEF LocalOK, RecordOK, Posted
    <3>3. TypeOK'
      BY <2>2, <3>2 DEF TypeOK, Goto, committed, work, audit
    <3>4. LocalOK(r)'
      BY <1>0, <1>10, <2>2, <3>1
         DEF ReadOriginal, committed, TypeOK, Goto, LocalOK, PlaceOK, PlanOK, RecordOK,
             AccountsOf, Posted
    <3> QED BY <2>2, <3>3, <3>4, LocalStep DEF committed, Goto, TypeOK
  <2> QED BY <1>10, <2>1, <2>2 DEF ReadOriginal
<1>11. CASE Claim(r)
  <2> DEFINE t == body[r].target
  <2>1. CASE Finish(r, "rejected", NoTxn)
    BY <2>1, <1>11, FinishBase DEF Claim
  <2>2. CASE /\ claim' = [claim EXCEPT ![r] = t]
             /\ draft' = [draft EXCEPT ![r] = ReversalOf(t, body[r].business)]
             /\ todo' = [todo EXCEPT ![r] = need[r]]
             /\ Goto(r, "debits")
             /\ UNCHANGED <<committed, body, locks, cur, debits, fresh, audit, answer>>
    <3>1. body[r].op = "void" /\ t \in Posted /\ need[r] = AccountsOf(rows[t].lines)
      BY <1>0, <1>11 DEF Claim, LocalOK, PlaceOK, PlanOK
    <3>2. body[r] \in VoidBody
      BY <3>1, BodyTyped
    <3>3. body[r].business \in Business /\ t \in Request
      BY <3>2 DEF VoidBody
    <3>4. /\ ReversalOf(t, body[r].business) \in Row
          /\ AccountsOf(ReversalOf(t, body[r].business).lines) = need[r]
      BY <3>1, <3>3, ReversalTyped
    <3>5. TypeOK'
      BY <2>2, <3>3, <3>4 DEF TypeOK, Goto, committed, locks, audit
    <3>6. LocalOK(r)'
      BY <1>0, <1>11, <2>2, <3>1, <3>4
         DEF Claim, committed, locks, TypeOK, Goto, LocalOK, PlaceOK, PlanOK, RecordOK
    <3> QED BY <2>2, <3>5, <3>6, LocalStep DEF committed, locks, Goto, TypeOK
  <2> QED BY <1>11, <2>1, <2>2 DEF Claim
<1>12. CASE SumDebits(r)
  <2>1. \A a \in Account : EntriesOn(Visible(r), a, "DEBIT") \in SUBSET Entry
    BY VisibleTyped, EntriesTyped
  <2>2. TypeOK'
    BY <1>12, <2>1 DEF SumDebits, TypeOK, Goto, committed, locks, audit
  <2>3. LocalOK(r)'
    BY <1>0, <1>12
       DEF SumDebits, committed, locks, TypeOK, Goto, LocalOK, PlaceOK, PlanOK, RecordOK
  <2> QED BY <1>12, <2>2, <2>3, LocalStep DEF SumDebits, committed, locks, Goto, TypeOK
<1>13. CASE SumCredits(r)
  <2>1. \A a \in Account : [DEBIT |-> debits[r], CREDIT |-> EntriesOn(Visible(r), a, "CREDIT")]
                             \in Balance
    BY VisibleTyped, EntriesTyped DEF Balance, TypeOK
  <2>2. TypeOK'
    BY <1>13, <2>1 DEF SumCredits, TypeOK, Goto, committed, locks, audit
  <2>3. LocalOK(r)'
    BY <1>0, <1>13
       DEF SumCredits, committed, locks, TypeOK, Goto, LocalOK, PlaceOK, PlanOK, RecordOK
  <2> QED BY <1>13, <2>2, <2>3, LocalStep DEF SumCredits, committed, locks, Goto, TypeOK
<1>14. CASE Visit(r)
  <2>1. CASE Finish(r, "reconciled", NoTxn)
    BY <2>1, <1>14, FinishBase DEF Visit
  <2>2. ASSUME NEW a \in left[r],
               /\ holder' = [holder EXCEPT ![a] = r]
               /\ need' = [need EXCEPT ![r] = {a}]
               /\ todo' = [todo EXCEPT ![r] = {a}]
               /\ left' = [left EXCEPT ![r] = @ \ {a}]
               /\ seen' = [seen EXCEPT ![r] = cache[a]]
               /\ Goto(r, "debits")
               /\ UNCHANGED <<committed, body, draft, claim, cur, debits, fresh, found, answer>>
        PROVE  Base'
    <3>1. a \in Account /\ a \in Lock
      BY DEF TypeOK, Lock
    <3>2. TypeOK'
      BY <2>2, <3>1 DEF TypeOK, Goto, committed
    <3>3. LocalOK(r)'
      BY <1>0, <1>14, <2>2
         DEF Visit, committed, TypeOK, Goto, LocalOK, PlaceOK, PlanOK, RecordOK
    <3> QED BY <2>2, <3>2, <3>3, LocalStep DEF committed, Goto, TypeOK
  <2> QED BY <1>14, <2>1, <2>2 DEF Visit
<1>15. CASE Abort(r)
  BY <1>15, FinishBase DEF Abort
<1>16. CASE Commit(r)
  <2>1. pc[r] = "debits" /\ rows' = Visible(r) /\ body' = body
    BY <1>16 DEF Commit
  <2>2. rows' \in [Request -> Row \cup {NoRow}]
    BY <2>1, VisibleTyped
  <2>3. LocalsTyped'
    BY <1>16, EndTyped DEF Commit
  <2>4. TypeOK'
    <3>1. cache' \in [Account -> Balance]
      BY <1>16 DEF Commit, TypeOK
    <3>2. voided' \subseteq Request /\ found' \subseteq Account
      BY <1>16 DEF Commit, TypeOK
    <3>3. /\ pc' = [pc EXCEPT ![r] = "visit"] \/ pc' = [pc EXCEPT ![r] = "done"]
          /\ \/ answer' = answer
             \/ answer' = [answer EXCEPT ![r] = [kind |-> "posted", txn |-> r]]
          /\ left' = left
      BY <1>16 DEF Commit, Goto
    <3>4. body' \in [Request -> Body] /\ left' \in [Request -> SUBSET Account]
      BY <2>1, <3>3 DEF TypeOK
    <3>5. pc' \in [Request -> {"idle", "keys", "lookup", "validate", "rows", "insert",
                              "fallback", "read", "claim", "debits", "credits", "visit",
                              "done"}]
      BY <3>3 DEF TypeOK
    <3>6. answer' \in [Request -> [kind : {"none", "posted", "existing", "conflict",
                                          "rejected", "reconciled", "failed"},
                                  txn : Request \cup {NoTxn}]]
      <4>1. CASE answer' = answer
        BY <4>1 DEF TypeOK
      <4>2. CASE answer' = [answer EXCEPT ![r] = [kind |-> "posted", txn |-> r]]
        BY <4>2 DEF TypeOK
      <4> QED BY <3>3, <4>1, <4>2
    <3> QED BY <2>2, <2>3, <3>1, <3>2, <3>4, <3>5, <3>6 DEF LocalsTyped, TypeOK
  <2>5. rows[r] = NoRow
    BY <1>0, <2>1 DEF LocalOK, RecordOK
  <2>6. \A t \in Request \ {r} : rows'[t] = rows[t]
    BY <2>1 DEF Visible, TypeOK
  <2>7. \A t \in Posted : t \in Posted' /\ rows'[t] = rows[t]
    BY <2>5, <2>6 DEF Posted
  <2>8. ASSUME NEW q \in Request, q # r PROVE LocalOK(q)'
    <3>1. pc'[q] = pc[q] /\ need'[q] = need[q] /\ draft'[q] = draft[q] /\ rows'[q] = rows[q]
      BY <1>16, <2>6, <2>8 DEF Commit, EndTransaction, Goto, TypeOK
    <3>2. LocalOK(q)
      OBVIOUS
    <3> QED BY <2>1, <2>7, <3>1, <3>2 DEF LocalOK, PlaceOK, PlanOK, RecordOK
  <2>9. LocalOK(r)'
    <3>1. draft'[r] = NoRow /\ pc'[r] \in {"done", "visit"}
      BY <1>16 DEF Commit, EndTransaction, Goto, TypeOK
    <3>2. PlaceOK(r)' /\ PlanOK(r)'
      BY <1>16, <2>1, <3>1 DEF Commit, Goto, PlaceOK, PlanOK, TypeOK
    <3>3. rows'[r] = IF draft[r] = NoRow THEN NoRow ELSE draft[r]
      BY <2>1, <2>5 DEF Visible, TypeOK
    <3>4. CASE draft[r] = NoRow
      BY <3>1, <3>2, <3>3, <3>4 DEF LocalOK, RecordOK
    <3>5. CASE draft[r] # NoRow
      <4>1. body[r].op # "reconcile" /\ need[r] = AccountsOf(draft[r].lines)
        BY <1>0, <3>5 DEF LocalOK, RecordOK
      <4>2. need[r] \subseteq Account
        BY DEF TypeOK
      <4>3. pc'[r] = "done"
        BY <1>16, <4>1 DEF Commit, Goto, TypeOK
      <4> QED BY <3>1, <3>2, <3>3, <3>5, <4>1, <4>2, <4>3 DEF LocalOK, RecordOK
    <3> QED BY <3>4, <3>5
  <2> QED BY <2>4, <2>8, <2>9
<1> QED BY <1>1, <1>2, <1>3, <1>5, <1>6, <1>7, <1>8, <1>9, <1>10, <1>11, <1>12, <1>13,
           <1>14, <1>15, <1>16 DEF Step

LEMMA BaseInit == Init => Base
<1> SUFFICES ASSUME Init PROVE Base
  OBVIOUS
<1>1. NoBalance \in Balance
  BY DEF NoBalance, Balance
<1>2. TypeOK
  BY <1>1 DEF Init, TypeOK
<1> QED BY <1>2 DEF Init, Base, LocalOK, PlaceOK, PlanOK, RecordOK

LEMMA BaseInvariant == Spec => []Base
<1>1. Base /\ [Next]_vars => Base'
  <2> SUFFICES ASSUME Base, [Next]_vars PROVE Base'
    OBVIOUS
  <2>1. CASE UNCHANGED vars
    BY <2>1 DEF vars, Base, TypeOK, LocalOK, PlaceOK, PlanOK, RecordOK, Posted
  <2>2. CASE Next
    BY <2>1, <2>2, BaseStep DEF Next
  <2> QED BY <2>1, <2>2
<1> QED BY <1>1, BaseInit, PTL DEF Spec

(* Every variable keeps to its kind, whatever the requests and however     *)
(* their statements interleave.                                            *)
THEOREM Typing == Spec => []TypeOK
<1>1. Base => TypeOK
  BY DEF Base
<1> QED BY <1>1, BaseInvariant, PTL

(***************************************************************************)
(* What a step of one request leaves alone.                                *)
(***************************************************************************)
SameAt(q) ==
    /\ pc'[q] = pc[q] /\ need'[q] = need[q] /\ draft'[q] = draft[q]
    /\ claim'[q] = claim[q] /\ todo'[q] = todo[q] /\ cur'[q] = cur[q]
    /\ debits'[q] = debits[q] /\ fresh'[q] = fresh[q] /\ seen'[q] = seen[q]
    /\ left'[q] = left[q] /\ answer'[q] = answer[q]
    /\ \A l \in Lock : holder[l] = q <=> holder'[l] = q

LEMMA Frame ==
    ASSUME TypeOK, NEW r \in Request, Arrive(r) \/ Step(r) \/ Abort(r)
    PROVE  /\ body' = body
           /\ \A q \in Request \ {r} : SameAt(q)
           /\ Commit(r) \/ UNCHANGED <<committed, found>>
<1> USE DEF TypeOK, SameAt, committed, Goto, EndTransaction, Finish
<1>0. Free \notin Request
  BY LockAssumption
<1>1. CASE Arrive(r)
  BY <1>1 DEF Arrive, locks, work
<1>2. CASE TakeKey(r)
  BY <1>0, <1>2 DEF TakeKey, work, audit, Lock
<1>3. CASE TakeRow(r)
  BY <1>0, <1>3 DEF TakeRow, work, audit, Lock
<1>4. CASE Lookup(r)
  BY <1>0, <1>4 DEF Lookup, AnswerFromKey, locks, work, audit
<1>5. CASE Validate(r)
  BY <1>0, <1>5 DEF Validate, work, audit
<1>6. CASE Insert(r)
  BY <1>6 DEF Insert, locks, audit
<1>7. CASE LoseKey(r)
  BY <1>0, <1>7 DEF LoseKey
<1>8. CASE Fallback(r)
  BY <1>0, <1>8 DEF Fallback, AnswerFromKey
<1>9. CASE ReadOriginal(r)
  BY <1>0, <1>9 DEF ReadOriginal, work, audit
<1>10. CASE Claim(r)
  BY <1>0, <1>10 DEF Claim, locks, audit
<1>11. CASE SumDebits(r)
  BY <1>11 DEF SumDebits, locks, audit
<1>12. CASE SumCredits(r)
  BY <1>12 DEF SumCredits, locks, audit
<1>13. CASE Commit(r)
  BY <1>0, <1>13 DEF Commit
<1>14. CASE Visit(r)
  BY <1>0, <1>14 DEF Visit, Lock
<1>15. CASE Abort(r)
  BY <1>0, <1>15 DEF Abort
<1> QED BY <1>1, <1>2, <1>3, <1>4, <1>5, <1>6, <1>7, <1>8, <1>9, <1>10, <1>11, <1>12, <1>13,
           <1>14, <1>15 DEF Step

(***************************************************************************)
(* Second layer: the row locks.                                            *)
(***************************************************************************)

(* From the moment lockAccounts returns to the end of the transaction, the *)
(* request holds every account it works on.                                *)
HeldAt(r) ==
    pc[r] \in {"insert", "claim", "debits", "credits"} => \A a \in need[r] : holder[a] = r

Holding == \A r \in Request : HeldAt(r)

LEMMA HoldingStep ==
    ASSUME Base, Holding, NEW r \in Request, Arrive(r) \/ Step(r) \/ Abort(r)
    PROVE  Holding'
<1> USE DEF Base
<1>1. ASSUME NEW q \in Request, q # r PROVE HeldAt(q)'
  <2>1. SameAt(q)
    BY <1>1, Frame
  <2>2. need[q] \subseteq Lock
    BY DEF TypeOK, Lock
  <2> QED BY <2>1, <2>2 DEF SameAt, Holding, HeldAt
<1>2. HeldAt(r)'
  <2>2. CASE TakeRow(r)
    <3>1. PICK a \in Account : /\ LowestWaiting(need[r], r, a)
                               /\ holder' = [holder EXCEPT ![a] = r]
                               /\ Goto(r, IF Waiting(need[r], r) # {a} THEN "rows"
                                          ELSE IF body[r].op = "post" THEN "insert" ELSE "claim")
      BY <2>2 DEF TakeRow
    <3>2. CASE Waiting(need[r], r) = {a}
      <4>1. \A b \in need[r] : b = a \/ holder[b] = r
        BY <3>2 DEF Waiting, Held, TypeOK, Lock
      <4> QED BY <2>2, <3>1, <4>1 DEF TakeRow, HeldAt, TypeOK, Lock
    <3>3. CASE Waiting(need[r], r) # {a}
      BY <3>1, <3>3 DEF HeldAt, Goto, TypeOK
    <3> QED BY <3>2, <3>3
  <2>3. CASE Insert(r)
    BY <2>3 DEF Insert, Holding, HeldAt, Goto, TypeOK, locks
  <2>4. CASE Claim(r)
    BY <2>4 DEF Claim, Holding, HeldAt, Goto, TypeOK, locks, Finish
  <2>5. CASE SumDebits(r) \/ SumCredits(r)
    BY <2>5 DEF SumDebits, SumCredits, Holding, HeldAt, Goto, TypeOK, locks
  <2>6. CASE Visit(r)
    BY <2>6 DEF Visit, HeldAt, Goto, TypeOK, Lock, Finish
  <2>7. CASE pc'[r] \notin {"insert", "claim", "debits", "credits"}
    BY <2>7 DEF HeldAt
  <2>8. CASE Arrive(r)
    BY <2>7, <2>8, BodyTyped DEF Arrive, Goto, TypeOK
  <2>9. CASE TakeKey(r) \/ LoseKey(r) \/ Fallback(r) \/ Commit(r) \/ Abort(r)
    BY <2>7, <2>9 DEF TakeKey, LoseKey, Fallback, AnswerFromKey, Commit, Abort, Finish, Goto,
       TypeOK
  <2>10. CASE Lookup(r) \/ Validate(r) \/ ReadOriginal(r)
    BY <2>7, <2>10 DEF Lookup, AnswerFromKey, Validate, ReadOriginal, Finish, Goto, TypeOK
  <2> QED BY <2>2, <2>3, <2>4, <2>5, <2>6, <2>8, <2>9, <2>10 DEF Step
<1> QED BY <1>1, <1>2 DEF Holding

LEMMA HoldingInvariant == Spec => []Holding
<1>1. Init => Holding
  BY DEF Init, Holding, HeldAt
<1>2. Base /\ Holding /\ [Next]_vars => Holding'
  <2> SUFFICES ASSUME Base, Holding, [Next]_vars PROVE Holding'
    OBVIOUS
  <2>1. CASE UNCHANGED vars
    BY <2>1 DEF vars, Holding, HeldAt
  <2> QED BY <2>1, HoldingStep DEF Next
<1> QED BY <1>1, <1>2, BaseInvariant, PTL DEF Spec

(***************************************************************************)
(* Third layer: what recalculateBalance has computed so far is what the    *)
(* balance will be when the transaction commits.                           *)
(***************************************************************************)

SumAt(r) ==
    /\ pc[r] \notin {"debits", "credits"} => todo[r] = {}
    /\ pc[r] # "credits" => cur[r] = {}
    /\ todo[r] \subseteq need[r]
    /\ cur[r] \subseteq need[r]
    /\ pc[r] \in {"debits", "credits"} =>
        \A a \in need[r] \ todo[r] : fresh[r][a] = BalanceIn(Visible(r), a)
    /\ pc[r] = "credits" =>
        \A a \in cur[r] : debits[r] = EntriesOn(Visible(r), a, "DEBIT")
    /\ body[r].op = "reconcile" /\ pc[r] \in {"debits", "credits"} =>
        \A a \in need[r] : seen[r] = cache[a]

Summed ==
    /\ \A r \in Request : SumAt(r)
    /\ CacheCoherent
    /\ ReconcileFindsNothing

(* A row that names no line on an account leaves its sums as they were.    *)
LEMMA EntriesFrame ==
    ASSUME NEW T, NEW U, NEW t \in Request, NEW a, NEW s,
           \A u \in Request \ {t} : U[u] = T[u],
           T[t] = NoRow,
           U[t] # NoRow => a \notin AccountsOf(U[t].lines)
    PROVE  EntriesOn(U, a, s) = EntriesOn(T, a, s)
<1>1. U[t] # NoRow => LinesOn(U[t], a, s) = {}
  BY DEF LinesOn, AccountsOf
<1>2. ASSUME NEW u \in Request, U[u] # NoRow, NEW i \in LinesOn(U[u], a, s)
      PROVE  T[u] # NoRow /\ i \in LinesOn(T[u], a, s)
  BY <1>1, <1>2
<1>3. ASSUME NEW u \in Request, T[u] # NoRow, NEW i \in LinesOn(T[u], a, s)
      PROVE  U[u] # NoRow /\ i \in LinesOn(U[u], a, s)
  BY <1>3
<1> QED BY <1>2, <1>3 DEF EntriesOn

LEMMA BalanceFrame ==
    ASSUME NEW T, NEW U, NEW t \in Request, NEW a,
           \A u \in Request \ {t} : U[u] = T[u],
           T[t] = NoRow,
           U[t] # NoRow => a \notin AccountsOf(U[t].lines)
    PROVE  BalanceIn(U, a) = BalanceIn(T, a)
BY EntriesFrame DEF BalanceIn

(* A commit of r is invisible to the sums of another request q: the        *)
(* accounts of the two are disjoint, since both hold theirs.               *)
LEMMA CommitKeepsOthers ==
    ASSUME Base, Holding, Summed, NEW r \in Request, Commit(r), NEW q \in Request, q # r
    PROVE  SumAt(q)'
<1> USE DEF Base
<1>1. SameAt(q) /\ body' = body
  BY Frame DEF Step
<1>2. rows[r] = NoRow /\ pc[r] = "debits"
  BY DEF Commit, LocalOK, RecordOK
<1>3. draft[r] # NoRow => need[r] = AccountsOf(draft[r].lines)
  BY DEF LocalOK, RecordOK
<1>4. SUFFICES ASSUME pc[q] \in {"debits", "credits"} PROVE SumAt(q)'
  BY <1>1 DEF Summed, SumAt, SameAt
<1>5. \A a \in need[q] : a \notin need[r]
  BY <1>2, <1>4 DEF Holding, HeldAt
<1>6. rows[q] = NoRow
  BY <1>4 DEF LocalOK, RecordOK
<1>7. /\ \A u \in Request \ {r} : Visible(q)'[u] = Visible(q)[u]
      /\ Visible(q)[r] = NoRow
      /\ Visible(q)'[r] = draft[r]
  <2>1. rows' = Visible(r)
    BY DEF Commit
  <2>2. rows' = [rows EXCEPT ![r] = draft[r]]
    BY <2>1, <1>2 DEF Visible, TypeOK
  <2>3. draft'[q] = draft[q]
    BY <1>1 DEF SameAt
  <2>4. Visible(q)' = [rows' EXCEPT ![q] = IF draft[q] = NoRow THEN rows'[q] ELSE draft[q]]
    BY <2>3 DEF Visible
  <2> QED BY <1>2, <2>2, <2>4 DEF Visible, TypeOK
<1>8. \A a \in need[q] : \A s \in {"DEBIT", "CREDIT"} :
        EntriesOn(Visible(q)', a, s) = EntriesOn(Visible(q), a, s)
  <2> DEFINE before == Visible(q)
             after == Visible(q)'
             mine == draft[r]
  <2>1. /\ \A u \in Request \ {r} : after[u] = before[u]
        /\ before[r] = NoRow
        /\ after[r] = mine
    BY <1>7
  <2>2. mine # NoRow => need[r] = AccountsOf(mine.lines)
    BY <1>3
  <2> HIDE DEF before, after, mine
  <2>3. ASSUME NEW a \in need[q] PROVE after[r] # NoRow => a \notin AccountsOf(after[r].lines)
    BY <1>5, <2>1, <2>2
  <2>4. ASSUME NEW a \in need[q], NEW s \in {"DEBIT", "CREDIT"}
        PROVE  EntriesOn(after, a, s) = EntriesOn(before, a, s)
    BY ONLY r \in Request, <2>1, <2>3, EntriesFrame
  <2> QED BY <2>4 DEF before, after
<1>9. \A a \in need[q] : BalanceIn(Visible(q)', a) = BalanceIn(Visible(q), a)
  BY <1>8 DEF BalanceIn
<1>10. \A a \in need[q] : cache'[a] = cache[a]
  BY <1>5 DEF Commit, TypeOK
<1>11. cur[q] \subseteq need[q]
  BY DEF Summed, SumAt
<1> QED BY <1>1, <1>8, <1>9, <1>10, <1>11 DEF SumAt, SameAt, Summed

LEMMA CommitCoherent ==
    ASSUME Base, Holding, Summed, NEW r \in Request, Commit(r)
    PROVE  CacheCoherent' /\ ReconcileFindsNothing'
<1> USE DEF Base
<1>1. rows[r] = NoRow /\ pc[r] = "debits" /\ todo[r] = {} /\ need[r] \subseteq Account
  BY DEF Commit, LocalOK, RecordOK, TypeOK
<1>2. rows' = Visible(r)
  BY DEF Commit
<1>3. \A a \in need[r] : fresh[r][a] = BalanceIn(rows', a)
  BY <1>1, <1>2 DEF Summed, SumAt
<1>4. \A a \in Account \ need[r] : BalanceIn(rows', a) = BalanceIn(rows, a)
  <2>1. rows' = [rows EXCEPT ![r] = draft[r]]
    BY <1>1, <1>2 DEF Visible, TypeOK
  <2>2. /\ \A u \in Request \ {r} : rows'[u] = rows[u]
        /\ rows'[r] = draft[r]
    BY <2>1 DEF TypeOK
  <2>3. draft[r] # NoRow => need[r] = AccountsOf(draft[r].lines)
    BY DEF LocalOK, RecordOK
  <2> QED BY <1>1, <2>2, <2>3, BalanceFrame
<1>5. CacheCoherent'
  BY <1>3, <1>4 DEF Commit, CacheCoherent, Summed
<1>6. ASSUME body[r].op = "reconcile", NEW a \in need[r] PROVE seen[r] = fresh[r][a]
  <2>1. draft[r] = NoRow
    BY <1>6 DEF LocalOK, RecordOK
  <2>2. rows' = rows
    BY <1>2, <2>1 DEF Visible, TypeOK
  <2>3. seen[r] = cache[a]
    BY <1>1, <1>6 DEF Summed, SumAt
  <2> QED BY <1>1, <1>3, <1>6, <2>2, <2>3 DEF Summed, CacheCoherent
<1>7. ReconcileFindsNothing'
  BY <1>6 DEF Commit, ReconcileFindsNothing, Summed
<1> QED BY <1>5, <1>7

LEMMA SumsStep ==
    ASSUME Base, Holding, Summed, NEW r \in Request, Arrive(r) \/ Step(r) \/ Abort(r)
    PROVE  Summed'
<1> USE DEF Base
<1>1. CASE Commit(r)
  <2>1. SumAt(r)'
    BY <1>1 DEF Commit, EndTransaction, Goto, SumAt, TypeOK
  <2> QED BY <1>1, <2>1, CommitKeepsOthers, CommitCoherent DEF Summed
<1>2. CASE ~Commit(r)
  <2>1. UNCHANGED <<rows, voided, cache, found, body>> /\ \A q \in Request \ {r} : SameAt(q)
    BY <1>2, Frame DEF committed
  <2>2. CacheCoherent' /\ ReconcileFindsNothing'
    BY <2>1 DEF Summed, CacheCoherent, ReconcileFindsNothing
  <2>3. ASSUME NEW q \in Request, q # r PROVE SumAt(q)'
    <3>1. SameAt(q)
      BY <2>1, <2>3
    <3>2. Visible(q)' = Visible(q)
      BY <2>1, <3>1 DEF Visible, SameAt
    <3> QED BY <2>1, <3>1, <3>2 DEF Summed, SumAt, SameAt
  <2>4. SumAt(r)'
    <3>0. SumAt(r)
      BY DEF Summed
    <3>1. CASE Insert(r) \/ Claim(r)
      <4>1. CASE todo' = [todo EXCEPT ![r] = need[r]] /\ Goto(r, "debits") /\ UNCHANGED <<locks, cur>>
        <5>1. body[r].op \in {"post", "void"} /\ cur[r] = {}
          BY <3>0, <3>1 DEF Insert, Claim, LocalOK, PlaceOK, SumAt
        <5> QED BY <2>1, <3>0, <4>1, <5>1 DEF SumAt, Goto, TypeOK, locks
      <4>2. CASE Finish(r, "rejected", NoTxn)
        BY <4>2 DEF Finish, EndTransaction, SumAt, Goto, TypeOK
      <4> QED BY <3>1, <4>1, <4>2 DEF Insert, Claim
    <3>2. CASE SumDebits(r)
      <4>1. PICK a \in todo[r] :
               /\ cur' = [cur EXCEPT ![r] = {a}]
               /\ debits' = [debits EXCEPT ![r] = EntriesOn(Visible(r), a, "DEBIT")]
        BY <3>2 DEF SumDebits
      <4>2. Visible(r)' = Visible(r)
        BY <2>1, <3>2 DEF SumDebits, Visible
      <4>3. /\ pc[r] = "debits" /\ pc'[r] = "credits"
            /\ need'[r] = need[r] /\ todo'[r] = todo[r] /\ fresh'[r] = fresh[r]
            /\ seen'[r] = seen[r]
        BY <3>2 DEF SumDebits, Goto, TypeOK, locks, audit
      <4>4. cur'[r] = {a} /\ debits'[r] = EntriesOn(Visible(r), a, "DEBIT") /\ a \in need[r]
        BY <3>0, <4>1 DEF SumAt, TypeOK
      <4> QED BY <2>1, <3>0, <4>2, <4>3, <4>4 DEF SumAt
    <3>3. CASE SumCredits(r)
      <4>1. PICK a \in cur[r] :
               /\ fresh' = [fresh EXCEPT ![r][a] =
                     [DEBIT |-> debits[r], CREDIT |-> EntriesOn(Visible(r), a, "CREDIT")]]
               /\ todo' = [todo EXCEPT ![r] = @ \ {a}]
        BY <3>3 DEF SumCredits
      <4>2. Visible(r)' = Visible(r)
        BY <2>1, <3>3 DEF SumCredits, Visible
      <4>3. debits[r] = EntriesOn(Visible(r), a, "DEBIT") /\ a \in Account
        BY <3>0, <3>3, <4>1 DEF SumCredits, SumAt, TypeOK
      <4>4. fresh'[r] = [fresh[r] EXCEPT ![a] = BalanceIn(Visible(r), a)]
        BY <4>1, <4>3 DEF TypeOK, BalanceIn
      <4>5. \A b \in need[r] \ todo'[r] : fresh'[r][b] = BalanceIn(Visible(r), b)
        BY <3>0, <3>3, <4>1, <4>3, <4>4 DEF SumCredits, SumAt, TypeOK
      <4>6. /\ pc'[r] = "debits" /\ cur'[r] = {} /\ need'[r] = need[r] /\ seen'[r] = seen[r]
            /\ todo'[r] \subseteq todo[r]
        BY <3>3, <4>1 DEF SumCredits, Goto, TypeOK, locks, audit
      <4> QED BY <2>1, <3>0, <3>3, <4>2, <4>5, <4>6 DEF SumCredits, SumAt
    <3>4. CASE Visit(r)
      <4>1. CASE Finish(r, "reconciled", NoTxn)
        BY <4>1 DEF Finish, EndTransaction, SumAt, Goto, TypeOK
      <4>2. ASSUME NEW a \in left[r],
                   need' = [need EXCEPT ![r] = {a}],
                   todo' = [todo EXCEPT ![r] = {a}],
                   seen' = [seen EXCEPT ![r] = cache[a]],
                   Goto(r, "debits"),
                   cur' = cur
            PROVE  SumAt(r)'
        <5>1. cur[r] = {}
          BY <3>0, <3>4 DEF Visit, SumAt
        <5> QED BY <2>1, <3>0, <4>2, <5>1 DEF SumAt, Goto, TypeOK
      <4> QED BY <3>4, <4>1, <4>2 DEF Visit
    <3>5. ASSUME pc'[r] \notin {"debits", "credits"}, todo'[r] = {}, cur'[r] = {}
          PROVE  SumAt(r)'
      BY <3>5 DEF SumAt
    <3>6. CASE Arrive(r)
      BY <3>0, <3>5, <3>6, BodyTyped DEF Arrive, work, Goto, SumAt, TypeOK
    <3>7. CASE TakeKey(r) \/ TakeRow(r)
      BY <3>0, <3>5, <3>7 DEF TakeKey, TakeRow, work, Goto, SumAt, TypeOK
    <3>8. CASE LoseKey(r) \/ Fallback(r) \/ Abort(r)
      BY <3>5, <3>8 DEF LoseKey, Fallback, AnswerFromKey, Abort, Finish, EndTransaction, Goto,
         TypeOK
    <3>9. CASE Lookup(r) \/ Validate(r) \/ ReadOriginal(r)
      BY <3>0, <3>5, <3>9
         DEF Lookup, AnswerFromKey, Validate, ReadOriginal, Finish, EndTransaction, Goto,
             work, SumAt, TypeOK
    <3> QED BY <1>2, <3>1, <3>2, <3>3, <3>4, <3>6, <3>7, <3>8, <3>9 DEF Step
  <2> QED BY <2>2, <2>3, <2>4 DEF Summed
<1> QED BY <1>1, <1>2

LEMMA SumsInvariant == Spec => []Summed
<1>1. Init => Summed
  <2> SUFFICES ASSUME Init PROVE Summed
    OBVIOUS
  <2>1. \A a \in Account : \A s \in {"DEBIT", "CREDIT"} : EntriesOn(rows, a, s) = {}
    BY DEF Init, EntriesOn
  <2> QED BY <2>1 DEF Init, Summed, SumAt, CacheCoherent, BalanceIn, NoBalance, ReconcileFindsNothing
<1>2. Base /\ Holding /\ Summed /\ [Next]_vars => Summed'
  <2> SUFFICES ASSUME Base, Holding, Summed, [Next]_vars PROVE Summed'
    OBVIOUS
  <2>1. CASE UNCHANGED vars
    <3>1. \A r \in Request : Visible(r)' = Visible(r)
      BY <2>1 DEF vars, Visible
    <3> QED BY <2>1, <3>1 DEF vars, Summed, SumAt, CacheCoherent, ReconcileFindsNothing
  <2> QED BY <2>1, SumsStep DEF Next
<1> QED BY <1>1, <1>2, BaseInvariant, HoldingInvariant, PTL DEF Spec

(* The cached balances are exact at every commit, for any accounts and any *)
(* mix of postings, voids and reconciliations.                             *)
THEOREM CachedBalancesExact == Spec => []CacheCoherent
<1>1. Summed => CacheCoherent
  BY DEF Summed
<1> QED BY <1>1, SumsInvariant, PTL

(* A reconciliation of a workspace never finds a discrepancy.              *)
THEOREM ReconcileIsQuiet == Spec => []ReconcileFindsNothing
<1>1. Summed => ReconcileFindsNothing
  BY DEF Summed
<1> QED BY <1>1, SumsInvariant, PTL

(***************************************************************************)
(* The order in which locks are taken.                                     *)
(***************************************************************************)

(* A finite set of numbers that is not empty has a largest element.        *)
LEMMA LargestOf ==
    ASSUME NEW S, S \subseteq Nat, IsFiniteSet(S), S # {}
    PROVE  \E m \in S : \A n \in S : n <= m
<1> DEFINE Above(m) == {n \in S : n > m}
           T == {Above(m) : m \in S}
<1>1. IsWellFoundedOn(StrictSubsetOrdering(S), FiniteSubsetsOf(S))
  BY FS_StrictSubsetOrderingWellFounded
<1>2. FiniteSubsetsOf(S) = SUBSET S
  BY FS_FiniteSubsetsOfFinite
<1>3. T \subseteq FiniteSubsetsOf(S) /\ T # {}
  <2>1. T \subseteq SUBSET S
    BY Zenon
  <2>2. PICK m : m \in S
    OBVIOUS
  <2>3. Above(m) \in T
    BY <2>2, Zenon
  <2> HIDE DEF T
  <2> QED BY <1>2, <2>1, <2>3
<1> HIDE DEF T
<1>4. PICK X \in T : \A Y \in T : <<Y, X>> \notin StrictSubsetOrdering(S)
  BY <1>1, <1>3, WFMin
<1>5. PICK m \in S : X = Above(m)
  BY <1>4 DEF T
<1>6. ASSUME NEW n \in S, n > m PROVE FALSE
  <2>1. Above(n) \in T
    BY DEF T
  <2>2. Above(n) \subseteq Above(m)
    <3>1. m \in Nat /\ n \in Nat /\ n > m
      BY <1>6
    <3>2. \A x \in S : x \in Nat
      OBVIOUS
    <3>3. \A x \in S : x > n => x > m
      BY <3>1, <3>2
    <3> QED BY <3>3
  <2>3. n \in Above(m) /\ n \notin Above(n)
    BY <1>6
  <2>4. <<Above(n), X>> \in StrictSubsetOrdering(S)
    BY <1>5, <2>2, <2>3 DEF StrictSubsetOrdering
  <2> QED BY <1>4, <2>1, <2>4
<1> QED BY <1>6

(* Locks are taken upwards: whoever still waits for some holds none above. *)
OrderedAt(r) ==
    /\ pc[r] = "keys" =>
        /\ body[r].keys \subseteq AdvisoryKey
        /\ Held(r) \subseteq AdvisoryKey
        /\ \A h \in Held(r), m \in Waiting(body[r].keys, r) : h < m
    /\ pc[r] \in {"lookup", "validate", "read"} => Held(r) \subseteq AdvisoryKey
    /\ pc[r] \in {"idle", "visit", "fallback", "done"} => Held(r) = {}
    /\ pc[r] = "rows" => \A h \in Held(r), m \in Waiting(need[r], r) : h < m

Ordered == \A r \in Request : OrderedAt(r)

LEMMA EndReleases ==
    ASSUME Base, NEW r \in Request, EndTransaction(r)
    PROVE  Held(r)' = {}
BY LockAssumption DEF EndTransaction, Held

LEMMA OrderedStep ==
    ASSUME Base, Ordered, NEW r \in Request, Arrive(r) \/ Step(r) \/ Abort(r)
    PROVE  Ordered'
<1> USE DEF Base
<1>1. ASSUME NEW q \in Request, q # r PROVE OrderedAt(q)'
  <2>1. SameAt(q) /\ body' = body
    BY <1>1, Frame
  <2>2. Held(q)' = Held(q)
    BY <2>1 DEF SameAt, Held
  <2> QED BY <2>1, <2>2 DEF SameAt, Ordered, OrderedAt, Waiting
<1>2. OrderedAt(r)'
  <2>0. OrderedAt(r) /\ body' = body /\ TypeOK
    BY Frame DEF Ordered
  <2>1. ASSUME Held(r)' = {}, pc'[r] # "keys" PROVE OrderedAt(r)'
    BY <2>1 DEF OrderedAt
  <2>2. ASSUME NEW kind, NEW t, Finish(r, kind, t) PROVE OrderedAt(r)'
    BY <2>1, <2>2, EndReleases DEF Finish, Goto, TypeOK
  <2>3. CASE Arrive(r)
    <3>1. pc[r] = "idle" /\ Held(r) = {} /\ Held(r)' = {}
      BY <2>0, <2>3 DEF Arrive, OrderedAt, locks, Held
    <3>2. body[r].op = "post" => body[r].keys \subseteq AdvisoryKey
      BY BodyTyped DEF PostBody
    <3>3. pc'[r] = "keys" => body[r].op = "post"
      BY <2>3, BodyTyped DEF Arrive, Goto, TypeOK
    <3> QED BY <2>0, <3>1, <3>2, <3>3 DEF OrderedAt
  <2>4. CASE TakeKey(r)
    <3>1. PICK l \in AdvisoryKey : /\ LowestWaiting(body[r].keys, r, l)
                                   /\ holder' = [holder EXCEPT ![l] = r]
                                   /\ Goto(r, IF Waiting(body[r].keys, r) = {l} THEN "lookup" ELSE "keys")
      BY <2>4 DEF TakeKey
    <3>2. Held(r)' = Held(r) \cup {l}
      BY <3>1 DEF Held, Lock, TypeOK
    <3>3. Held(r) \subseteq AdvisoryKey /\ body[r].keys \subseteq AdvisoryKey /\ pc[r] = "keys"
      BY <2>0, <2>4 DEF TakeKey, OrderedAt
    <3>4. \A h \in Held(r)', m \in Waiting(body[r].keys, r)' : h < m
      <4>1. \A m \in Waiting(body[r].keys, r)' : m \in Waiting(body[r].keys, r) /\ m # l
        BY <2>0, <3>2 DEF Waiting
      <4>2. \A m \in Waiting(body[r].keys, r) : m \in Nat /\ l \in Nat
        BY <3>3, LockAssumption DEF Waiting
      <4>3. \A m \in Waiting(body[r].keys, r) : l <= m
        BY <3>1 DEF LowestWaiting
      <4>4. \A h \in Held(r), m \in Waiting(body[r].keys, r) : h < m
        BY <2>0, <3>3 DEF OrderedAt
      <4> QED BY <3>2, <4>1, <4>2, <4>3, <4>4
    <3>5. pc'[r] \in {"keys", "lookup"}
      BY <3>1 DEF Goto, TypeOK
    <3> QED BY <2>0, <3>2, <3>3, <3>4, <3>5 DEF OrderedAt
  <2>5. CASE TakeRow(r)
    <3>1. PICK a \in Account : /\ LowestWaiting(need[r], r, a)
                               /\ holder' = [holder EXCEPT ![a] = r]
                               /\ Goto(r, IF Waiting(need[r], r) # {a} THEN "rows"
                                          ELSE IF body[r].op = "post" THEN "insert" ELSE "claim")
      BY <2>5 DEF TakeRow
    <3>2. Held(r)' = Held(r) \cup {a} /\ need' = need
      BY <2>5, <3>1 DEF TakeRow, Held, Lock, TypeOK
    <3>3. pc[r] = "rows" /\ need[r] \subseteq Account
      BY <2>5 DEF TakeRow, TypeOK
    <3>4. \A h \in Held(r)', m \in Waiting(need[r], r)' : h < m
      <4>1. \A m \in Waiting(need[r], r)' : m \in Waiting(need[r], r) /\ m # a
        BY <3>2 DEF Waiting
      <4>2. \A m \in Waiting(need[r], r) : m \in Nat /\ a \in Nat
        BY <3>3, LockAssumption DEF Waiting
      <4>3. \A m \in Waiting(need[r], r) : a <= m
        BY <3>1 DEF LowestWaiting
      <4>4. \A h \in Held(r), m \in Waiting(need[r], r) : h < m
        BY <2>0, <3>3 DEF OrderedAt
      <4> QED BY <3>2, <4>1, <4>2, <4>3, <4>4
    <3>5. pc'[r] \in {"rows", "insert", "claim"}
      BY <3>1 DEF Goto, TypeOK
    <3> QED BY <3>2, <3>4, <3>5 DEF OrderedAt
  <2>6. CASE Lookup(r) \/ Validate(r) \/ ReadOriginal(r)
    <3>1. CASE \E kind, t : Finish(r, kind, t)
      BY <2>2, <3>1
    <3>2. CASE /\ pc[r] \in {"lookup", "validate", "read"}
               /\ pc'[r] \in {"validate", "rows"}
               /\ holder' = holder
      <4>1. Held(r)' = Held(r) /\ Held(r) \subseteq AdvisoryKey
        BY <2>0, <3>2 DEF Held, OrderedAt
      <4>2. TypeOK'
        BY BaseStep
      <4>3. \A h \in Held(r)', m \in Waiting(need[r], r)' : h < m
        BY <4>1, <4>2, LockAssumption DEF Waiting, TypeOK
      <4> QED BY <3>2, <4>1, <4>3 DEF OrderedAt
    <3> QED BY <2>6, <3>1, <3>2
            DEF Lookup, AnswerFromKey, Validate, ReadOriginal, Goto, TypeOK, locks
  <2>7. CASE Insert(r) \/ Claim(r) \/ SumDebits(r) \/ SumCredits(r)
    <3>1. CASE \E kind, t : Finish(r, kind, t)
      BY <2>2, <3>1
    <3>2. CASE pc'[r] \in {"debits", "credits"}
      BY <3>2 DEF OrderedAt
    <3> QED BY <2>7, <3>1, <3>2 DEF Insert, Claim, SumDebits, SumCredits, Goto, TypeOK
  <2>8. CASE LoseKey(r) \/ Commit(r)
    <3>1. EndTransaction(r) /\ pc'[r] # "keys"
      BY <2>8 DEF LoseKey, Commit, Goto, TypeOK
    <3> QED BY <2>1, <3>1, EndReleases
  <2>9. CASE Visit(r)
    <3>1. CASE \E kind, t : Finish(r, kind, t)
      BY <2>2, <3>1
    <3>2. CASE pc'[r] = "debits"
      BY <3>2 DEF OrderedAt
    <3> QED BY <2>9, <3>1, <3>2 DEF Visit, Goto, TypeOK
  <2>10. CASE Fallback(r) \/ Abort(r)
    BY <2>2, <2>10 DEF Fallback, AnswerFromKey, Abort
  <2> QED BY <2>3, <2>4, <2>5, <2>6, <2>7, <2>8, <2>9, <2>10 DEF Step
<1> QED BY <1>1, <1>2 DEF Ordered

LEMMA OrderedInvariant == Spec => []Ordered
<1>1. Init => Ordered
  BY LockAssumption DEF Init, Ordered, OrderedAt, Held, Waiting
<1>2. Base /\ Ordered /\ [Next]_vars => Ordered'
  <2> SUFFICES ASSUME Base, Ordered, [Next]_vars PROVE Ordered'
    OBVIOUS
  <2>1. CASE UNCHANGED vars
    BY <2>1 DEF vars, Ordered, OrderedAt, Held, Waiting
  <2> QED BY <2>1, OrderedStep DEF Next
<1> QED BY <1>1, <1>2, BaseInvariant, PTL DEF Spec

(***************************************************************************)
(* The rows of the ledger: idempotency keys, voids, workspaces, and the    *)
(* implementation of Books.                                                *)
(***************************************************************************)
(* No step rewrites or removes a committed row.                            *)
LEMMA RowsPersist ==
    ASSUME Base, NEW r \in Request, Arrive(r) \/ Step(r) \/ Abort(r)
    PROVE  /\ \A t \in Posted : t \in Posted' /\ rows'[t] = rows[t]
           /\ voided \subseteq voided'
           /\ \/ rows' = rows
              \/ /\ Commit(r)
                 /\ rows[r] = NoRow
                 /\ draft[r] # NoRow
                 /\ rows' = [rows EXCEPT ![r] = draft[r]]
<1> USE DEF Base
<1>1. CASE Commit(r)
  <2>1. rows[r] = NoRow
    BY <1>1 DEF Commit, LocalOK, RecordOK
  <2>2. rows' = Visible(r)
    BY <1>1 DEF Commit
  <2>3. rows' = [rows EXCEPT ![r] = draft[r]]
    BY <2>1, <2>2 DEF Visible, TypeOK
  <2>4. draft[r] = NoRow => rows' = rows
    BY <2>1, <2>3 DEF TypeOK
  <2>5. \A t \in Posted : t \in Posted' /\ rows'[t] = rows[t]
    BY <2>1, <2>3 DEF Posted, TypeOK
  <2>6. voided \subseteq voided'
    BY <1>1 DEF Commit
  <2> QED BY <1>1, <2>1, <2>3, <2>4, <2>5, <2>6
<1>2. CASE UNCHANGED <<committed, found>>
  <2>1. rows' = rows /\ voided' = voided
    BY <1>2 DEF committed
  <2> QED BY <2>1 DEF Posted
<1> QED BY <1>1, <1>2, Frame

(* Nothing is ever unposted or rewritten.                                  *)
THEOREM LedgerAppendOnly == Spec => AppendOnly
<1>1. Base /\ [Next]_vars =>
        [/\ \A t \in Posted : rows'[t] = rows[t]
         /\ voided \subseteq voided']_vars
  BY RowsPersist DEF Next
<1> QED BY <1>1, BaseInvariant, PTL DEF Spec, AppendOnly

(***************************************************************************)
(* Fourth layer: what a request has checked, and what it is writing.       *)
(***************************************************************************)

(* A post that is past its checks is acceptable, and writes what it was    *)
(* asked to.                                                               *)
PostAt(r) ==
    body[r].op = "post" =>
        /\ pc[r] \in {"rows", "insert", "debits", "credits"} => Acceptable(body[r])
        /\ pc[r] \in {"debits", "credits"} => draft[r] = RowOf(body[r])
        /\ claim[r] = NoTxn

(* A void that is past its checks has a target that could be voided when   *)
(* it looked; only the status can have changed since.  Once it has claimed *)
(* the target, that is fixed too.                                          *)
VoidAt(r) ==
    LET t == body[r].target
    IN  body[r].op = "void" =>
          /\ pc[r] \in {"rows", "claim", "debits", "credits"} =>
              /\ t \in Posted
              /\ rows[t].business = body[r].business
              /\ rows[t].reversalOf = NoTxn
              /\ ~OwnedByAFeature(t)
          /\ pc[r] \in {"debits", "credits"} =>
              /\ claim[r] = t
              /\ draft[r] = ReversalOf(t, body[r].business)
              /\ t \notin voided
          /\ pc[r] \notin {"debits", "credits"} => claim[r] = NoTxn

IdleAt(r) ==
    /\ body[r].op = "reconcile" => claim[r] = NoTxn
    /\ pc[r] \in {"debits", "credits"} /\ body[r].op # "reconcile" => draft[r] # NoRow

CheckedAt(r) == PostAt(r) /\ VoidAt(r) /\ IdleAt(r)

(* Two voids never claim the same transaction.                             *)
ClaimsApart ==
    \A q, r \in Request : claim[q] # NoTxn /\ claim[q] = claim[r] => q = r

Checked == (\A r \in Request : CheckedAt(r)) /\ ClaimsApart

LEMMA CheckedOthers ==
    ASSUME Base, Checked, NEW r \in Request, Arrive(r) \/ Step(r) \/ Abort(r),
           NEW q \in Request, q # r
    PROVE  CheckedAt(q)'
<1> USE DEF Base
<1>1. SameAt(q) /\ body' = body
  BY Frame
<1>2. \A t \in Posted : t \in Posted' /\ rows'[t] = rows[t]
  BY RowsPersist
<1>3. CheckedAt(q)
  BY DEF Checked
<1>4. PostAt(q)'
  <2>1. Acceptable(body[q]) => Acceptable(body[q])'
    BY <1>1, <1>2 DEF Acceptable, LinksBelong, ValidEntryShape, AccountsBelong
  <2> QED BY <1>1, <1>3, <2>1 DEF CheckedAt, PostAt, SameAt, RowOf
<1>5. VoidAt(q)'
  <2> DEFINE t == body[q].target
  <2>1. SUFFICES ASSUME body[q].op = "void", pc[q] \in {"rows", "claim", "debits", "credits"}
                 PROVE  VoidAt(q)'
    BY <1>1, <1>3 DEF CheckedAt, VoidAt, SameAt
  <2>2. t \in Posted /\ rows'[t] = rows[t] /\ t \in Posted'
    BY <1>2, <1>3, <2>1 DEF CheckedAt, VoidAt
  <2>3. pc[q] \in {"debits", "credits"} => t \notin voided'
    <3>1. CASE Commit(r)
      <4>1. pc[q] \in {"debits", "credits"} => claim[r] # t
        BY <1>3, <2>1, <2>2, DataAssumption DEF CheckedAt, VoidAt, Checked, ClaimsApart, Posted
      <4>2. voided' = voided \cup ({claim[r]} \ {NoTxn})
        BY <3>1 DEF Commit
      <4> QED BY <1>3, <2>1, <4>1, <4>2 DEF CheckedAt, VoidAt
    <3>2. CASE UNCHANGED <<committed, found>>
      BY <1>3, <2>1, <3>2 DEF CheckedAt, VoidAt, committed
    <3> QED BY <3>1, <3>2, Frame
  <2> QED BY <1>1, <1>3, <2>1, <2>2, <2>3
          DEF CheckedAt, VoidAt, SameAt, OwnedByAFeature, ReversalOf
<1>6. IdleAt(q)'
  BY <1>1, <1>3 DEF CheckedAt, IdleAt, SameAt
<1> QED BY <1>4, <1>5, <1>6 DEF CheckedAt

LEMMA CheckedSelf ==
    ASSUME Base, Checked, NEW r \in Request, Arrive(r) \/ Step(r) \/ Abort(r)
    PROVE  CheckedAt(r)'
<1> USE DEF Base
<1>1. LocalOK(r) /\ CheckedAt(r) /\ TypeOK
  BY DEF Checked
<1>2. body' = body
  BY Frame
<1>3. \A t \in Posted : t \in Posted' /\ rows'[t] = rows[t]
  BY RowsPersist
<1>4. NoTxn \notin Request /\ NoRow \notin Row
  BY DataAssumption
<1>5. ASSUME pc'[r] \notin {"rows", "claim", "insert", "debits", "credits"}, claim'[r] = NoTxn
      PROVE  CheckedAt(r)'
  BY <1>2, <1>5 DEF CheckedAt, PostAt, VoidAt, IdleAt
<1>6. ASSUME NEW kind, NEW t, Finish(r, kind, t) PROVE CheckedAt(r)'
  BY <1>5, <1>6 DEF Finish, EndTransaction, Goto, TypeOK
<1>7. CASE Arrive(r) \/ TakeKey(r) \/ LoseKey(r) \/ Fallback(r) \/ Abort(r) \/ Lookup(r)
  <2>1. pc[r] \notin {"debits", "credits"} => claim[r] = NoTxn
    BY <1>1, BodyTyped DEF CheckedAt, PostAt, VoidAt, IdleAt
  <2>2. CASE Arrive(r)
    BY <1>5, <2>1, <2>2, BodyTyped DEF Arrive, Goto, TypeOK
  <2>3. CASE TakeKey(r)
    BY <1>5, <2>1, <2>3 DEF TakeKey, Goto, TypeOK
  <2>4. CASE LoseKey(r)
    BY <1>5, <2>4 DEF LoseKey, EndTransaction, Goto, TypeOK
  <2>5. CASE Fallback(r)
    BY <1>6, <2>5 DEF Fallback, AnswerFromKey
  <2>6. CASE Abort(r)
    BY <1>6, <2>6 DEF Abort
  <2>7. CASE Lookup(r)
    BY <1>5, <1>6, <2>1, <2>7 DEF Lookup, AnswerFromKey, Goto, TypeOK
  <2> QED BY <1>7, <2>2, <2>3, <2>4, <2>5, <2>6, <2>7
<1>8. CASE Validate(r)
  <2>1. CASE Finish(r, "rejected", NoTxn)
    BY <2>1, <1>6
  <2>2. CASE /\ Acceptable(body[r])
             /\ need' = [need EXCEPT ![r] = AccountsOf(body[r].lines)]
             /\ Goto(r, "rows")
             /\ UNCHANGED <<committed, body, holder, draft, claim, work, audit, answer>>
    <3>1. Acceptable(body[r])'
      BY <1>2, <1>3, <2>2 DEF Acceptable, LinksBelong, ValidEntryShape, AccountsBelong
    <3>2. body[r].op = "post" /\ pc'[r] = "rows" /\ claim'[r] = claim[r]
      BY <1>1, <1>8, <2>2 DEF Validate, LocalOK, PlaceOK, Goto, TypeOK
    <3> QED BY <1>1, <1>2, <3>1, <3>2 DEF CheckedAt, PostAt, VoidAt, IdleAt
  <2> QED BY <1>8, <2>1, <2>2 DEF Validate
<1>9. CASE ReadOriginal(r)
  <2>1. CASE Finish(r, "rejected", NoTxn)
    BY <2>1, <1>6
  <2>2. CASE /\ Voidable(body[r].target, body[r].business)
             /\ need' = [need EXCEPT ![r] = AccountsOf(rows[body[r].target].lines)]
             /\ Goto(r, "rows")
             /\ UNCHANGED <<committed, body, holder, draft, claim, work, audit, answer>>
    <3>1. body[r].op = "void" /\ pc'[r] = "rows" /\ claim'[r] = claim[r] /\ pc[r] = "read"
      BY <1>1, <1>9, <2>2 DEF ReadOriginal, LocalOK, PlaceOK, Goto, TypeOK
    <3> QED BY <1>1, <1>2, <1>3, <2>2, <3>1
            DEF CheckedAt, PostAt, VoidAt, IdleAt, Voidable, OwnedByAFeature
  <2> QED BY <1>9, <2>1, <2>2 DEF ReadOriginal
<1>10. CASE TakeRow(r)
  <2>1. /\ pc[r] = "rows" /\ UNCHANGED <<rows, voided, draft, claim>>
        /\ \/ pc'[r] = "rows"
           \/ pc'[r] = "insert" /\ body[r].op = "post"
           \/ pc'[r] = "claim" /\ body[r].op # "post"
    BY <1>10 DEF TakeRow, Goto, TypeOK, committed
  <2>2. body[r].op \in {"post", "void"}
    BY <1>1, <2>1 DEF LocalOK, PlaceOK
  <2>3. Acceptable(body[r]) => Acceptable(body[r])'
    BY <1>2, <1>3 DEF Acceptable, LinksBelong, ValidEntryShape, AccountsBelong
  <2> QED BY <1>1, <1>2, <1>3, <2>1, <2>2, <2>3
          DEF CheckedAt, PostAt, VoidAt, IdleAt, OwnedByAFeature
<1>11. CASE Insert(r)
  <2>1. body[r].op = "post" /\ pc[r] = "insert" /\ pc'[r] = "debits"
    BY <1>1, <1>11 DEF Insert, LocalOK, PlaceOK, Goto, TypeOK
  <2>2. draft'[r] = RowOf(body[r]) /\ claim'[r] = claim[r]
    BY <1>11 DEF Insert, TypeOK
  <2>3. Acceptable(body[r])'
    BY <1>1, <1>2, <1>3, <2>1
       DEF CheckedAt, PostAt, Acceptable, LinksBelong, ValidEntryShape, AccountsBelong
  <2>4. RowOf(body[r]) \in Row
    BY <2>1, BodyTyped DEF RowOf, Row, PostBody
  <2> QED BY <1>1, <1>2, <1>4, <2>1, <2>2, <2>3, <2>4 DEF CheckedAt, PostAt, VoidAt, IdleAt, RowOf
<1>12. CASE Claim(r)
  <2> DEFINE t == body[r].target
  <2>1. CASE Finish(r, "rejected", NoTxn)
    BY <2>1, <1>6
  <2>2. CASE /\ StillPosted(t)
             /\ claim' = [claim EXCEPT ![r] = t]
             /\ draft' = [draft EXCEPT ![r] = ReversalOf(t, body[r].business)]
             /\ todo' = [todo EXCEPT ![r] = need[r]]
             /\ Goto(r, "debits")
             /\ UNCHANGED <<committed, body, locks, cur, debits, fresh, audit, answer>>
    <3>1. body[r].op = "void" /\ pc[r] = "claim" /\ pc'[r] = "debits"
      BY <1>1, <1>12, <2>2 DEF Claim, LocalOK, PlaceOK, Goto, TypeOK
    <3>2. t \in Posted /\ t \notin voided /\ rows' = rows /\ voided' = voided
      BY <1>1, <2>2, <3>1 DEF CheckedAt, VoidAt, StillPosted, committed
    <3>3. claim'[r] = t /\ draft'[r] = ReversalOf(t, body[r].business)
      BY <2>2 DEF TypeOK
    <3>4. ReversalOf(t, body[r].business) \in Row
      <4>1. body[r] \in VoidBody
        BY <3>1, BodyTyped
      <4> QED BY <3>2, <4>1, ReversalTyped DEF VoidBody
    <3> QED BY <1>1, <1>2, <1>3, <1>4, <3>1, <3>2, <3>3, <3>4
            DEF CheckedAt, PostAt, VoidAt, IdleAt, OwnedByAFeature, ReversalOf
  <2> QED BY <1>12, <2>1, <2>2 DEF Claim
<1>13. CASE SumDebits(r) \/ SumCredits(r)
  <2>1. /\ pc[r] \in {"debits", "credits"} /\ pc'[r] \in {"debits", "credits"}
        /\ UNCHANGED <<rows, voided, draft, claim>>
    BY <1>13 DEF SumDebits, SumCredits, Goto, TypeOK, committed
  <2>2. Acceptable(body[r]) => Acceptable(body[r])'
    BY <1>2, <1>3 DEF Acceptable, LinksBelong, ValidEntryShape, AccountsBelong
  <2> QED BY <1>1, <1>2, <1>3, <2>1, <2>2
          DEF CheckedAt, PostAt, VoidAt, IdleAt, OwnedByAFeature, ReversalOf, RowOf
<1>14. CASE Commit(r)
  BY <1>5, <1>14 DEF Commit, EndTransaction, Goto, TypeOK
<1>15. CASE Visit(r)
  <2>1. CASE Finish(r, "reconciled", NoTxn)
    BY <2>1, <1>6
  <2>2. CASE UNCHANGED claim
    BY <1>1, <1>2, <1>15, <2>2
       DEF Visit, LocalOK, PlaceOK, CheckedAt, PostAt, VoidAt, IdleAt
  <2> QED BY <1>15, <2>1, <2>2 DEF Visit
<1> QED BY <1>7, <1>8, <1>9, <1>10, <1>11, <1>12, <1>13, <1>14, <1>15 DEF Step

LEMMA ClaimsApartStep ==
    ASSUME Base, Checked, NEW r \in Request, Arrive(r) \/ Step(r) \/ Abort(r)
    PROVE  ClaimsApart'
<1> USE DEF Base
<1>1. \A q \in Request \ {r} : claim'[q] = claim[q]
  BY Frame DEF SameAt
<1>2. \/ claim'[r] \in {claim[r], NoTxn}
      \/ \A q \in Request : claim[q] # claim'[r]
  <2>1. CASE Claim(r)
    BY <2>1 DEF Claim, Finish, EndTransaction, TypeOK
  <2>2. CASE Arrive(r) \/ TakeKey(r) \/ TakeRow(r) \/ Insert(r) \/ SumDebits(r) \/ SumCredits(r)
    BY <2>2 DEF Arrive, TakeKey, TakeRow, Insert, SumDebits, SumCredits
  <2>3. CASE Lookup(r) \/ Validate(r) \/ ReadOriginal(r) \/ Visit(r)
    BY <2>3 DEF Lookup, AnswerFromKey, Validate, ReadOriginal, Visit, Finish, EndTransaction, TypeOK
  <2>4. CASE LoseKey(r) \/ Fallback(r) \/ Commit(r) \/ Abort(r)
    BY <2>4 DEF LoseKey, Fallback, AnswerFromKey, Commit, Abort, Finish, EndTransaction, TypeOK
  <2> QED BY <2>1, <2>2, <2>3, <2>4 DEF Step
<1> QED BY <1>1, <1>2 DEF Checked, ClaimsApart

LEMMA CheckedInvariant == Spec => []Checked
<1>1. Init => Checked
  <2> SUFFICES ASSUME Init PROVE Checked
    OBVIOUS
  <2> QED BY DEF Init, Checked, ClaimsApart, CheckedAt, PostAt, VoidAt, IdleAt
<1>2. Base /\ Checked /\ [Next]_vars => Checked'
  <2> SUFFICES ASSUME Base, Checked, [Next]_vars PROVE Checked'
    OBVIOUS
  <2>1. CASE UNCHANGED vars
    <3>1. \A r \in Request : Acceptable(body[r]) => Acceptable(body[r])'
      BY <2>1 DEF vars, Acceptable, LinksBelong, ValidEntryShape, AccountsBelong, Posted
    <3>2. \A r \in Request : PostAt(r)'
      BY <2>1, <3>1 DEF vars, Checked, CheckedAt, PostAt, RowOf
    <3>3. \A r \in Request : VoidAt(r)' /\ IdleAt(r)'
      BY <2>1 DEF vars, Checked, CheckedAt, VoidAt, IdleAt, OwnedByAFeature, ReversalOf, Posted
    <3> QED BY <2>1, <3>2, <3>3 DEF vars, Checked, CheckedAt, ClaimsApart
  <2>2. CASE Next
    <3>1. ASSUME NEW r \in Request, Arrive(r) \/ Step(r) \/ Abort(r) PROVE Checked'
      <4>1. ClaimsApart'
        BY <3>1, ClaimsApartStep
      <4>2. CheckedAt(r)'
        BY <3>1, CheckedSelf
      <4>3. \A q \in Request \ {r} : CheckedAt(q)'
        BY <3>1, CheckedOthers
      <4> QED BY <4>1, <4>2, <4>3 DEF Checked
    <3> QED BY <2>1, <2>2, <3>1 DEF Next
  <2> QED BY <2>1, <2>2
<1> QED BY <1>1, <1>2, BaseInvariant, PTL DEF Spec

(* What a commit adds: the row of a post, or the reversal of a void with   *)
(* its claim, or nothing (reconcile).                                      *)
LEMMA CommitWrites ==
    ASSUME Base, Checked, NEW r \in Request, Commit(r)
    PROVE  /\ rows[r] = NoRow /\ r \notin Posted
           /\ \/ /\ body[r].op = "post" /\ body[r] \in PostBody
                 /\ Acceptable(body[r])
                 /\ draft[r] = RowOf(body[r]) /\ draft[r] \in Row
                 /\ rows' = [rows EXCEPT ![r] = draft[r]]
                 /\ voided' = voided
              \/ /\ body[r].op = "void"
                 /\ body[r].target \in Posted \ voided
                 /\ rows[body[r].target].business = body[r].business
                 /\ rows[body[r].target].reversalOf = NoTxn
                 /\ ~OwnedByAFeature(body[r].target)
                 /\ draft[r] = ReversalOf(body[r].target, body[r].business)
                 /\ draft[r] \in Row
                 /\ rows' = [rows EXCEPT ![r] = draft[r]]
                 /\ voided' = voided \cup {body[r].target}
              \/ /\ body[r].op = "reconcile"
                 /\ rows' = rows /\ voided' = voided
<1> USE DEF Base
<1>1. LocalOK(r) /\ CheckedAt(r) /\ pc[r] = "debits" /\ rows[r] = NoRow
  BY DEF Checked, Commit, LocalOK, RecordOK
<1>2. rows' = Visible(r) /\ voided' = voided \cup ({claim[r]} \ {NoTxn})
  BY DEF Commit
<1>3. rows' = [rows EXCEPT ![r] = draft[r]]
  BY <1>1, <1>2 DEF Visible, TypeOK
<1>4. CASE body[r].op = "post"
  <2>1. body[r] \in PostBody /\ draft[r] # NoRow
    BY <1>1, <1>4, BodyTyped DEF CheckedAt, IdleAt
  <2>2. draft[r] \in Row
    BY <2>1 DEF TypeOK
  <2> QED BY <1>1, <1>2, <1>3, <1>4, <2>1, <2>2 DEF CheckedAt, PostAt, Posted
<1>5. CASE body[r].op = "void"
  <2>1. draft[r] # NoRow
    BY <1>1, <1>5 DEF CheckedAt, IdleAt
  <2>2. draft[r] \in Row
    BY <2>1 DEF TypeOK
  <2>3. claim[r] = body[r].target /\ claim[r] # NoTxn
    BY <1>1, <1>5, DataAssumption DEF CheckedAt, VoidAt, Posted
  <2> QED BY <1>1, <1>2, <1>3, <1>5, <2>2, <2>3 DEF CheckedAt, VoidAt, Posted
<1>6. CASE body[r].op = "reconcile"
  <2>1. draft[r] = NoRow /\ claim[r] = NoTxn
    BY <1>1, <1>6 DEF LocalOK, RecordOK, CheckedAt, IdleAt
  <2> QED BY <1>1, <1>2, <1>3, <1>6, <2>1 DEF Posted, TypeOK
<1> QED BY <1>4, <1>5, <1>6, BodyTyped

(***************************************************************************)
(* Fifth layer: voids.                                                     *)
(***************************************************************************)
Voids == VoidedIffReversed /\ VoidedRowsWereVoidable

LEMMA VoidsStep ==
    ASSUME Base, Checked, Voids, NEW r \in Request, Arrive(r) \/ Step(r) \/ Abort(r)
    PROVE  Voids'
<1> USE DEF Base
<1>1. CASE Commit(r)
  <2>1. /\ rows[r] = NoRow /\ r \notin Posted
        /\ \A t \in Posted : t \in Posted' /\ rows'[t] = rows[t]
    BY <1>1, CommitWrites, RowsPersist DEF Step
  <2>2. CASE rows' = rows /\ voided' = voided
    BY <2>2 DEF Voids, VoidedIffReversed, VoidedRowsWereVoidable, OwnedByAFeature, Posted
  <2>3. CASE /\ rows' = [rows EXCEPT ![r] = draft[r]] /\ draft[r] \in Row
             /\ draft[r].reversalOf = NoTxn /\ voided' = voided
    <3>1. Posted' = Posted \cup {r} /\ rows'[r] = draft[r]
      BY <2>3, DataAssumption DEF Posted, TypeOK
    <3>2. VoidedIffReversed'
      BY <2>1, <2>3, <3>1, DataAssumption DEF Voids, VoidedIffReversed
    <3>3. VoidedRowsWereVoidable'
      BY <2>1, <2>3, <3>1 DEF Voids, VoidedRowsWereVoidable, OwnedByAFeature
    <3> QED BY <3>2, <3>3 DEF Voids
  <2>4. CASE /\ rows' = [rows EXCEPT ![r] = draft[r]] /\ draft[r] \in Row
             /\ body[r].target \in Posted \ voided
             /\ rows[body[r].target].reversalOf = NoTxn
             /\ ~OwnedByAFeature(body[r].target)
             /\ draft[r].reversalOf = body[r].target
             /\ voided' = voided \cup {body[r].target}
    <3>1. Posted' = Posted \cup {r} /\ rows'[r] = draft[r]
      BY <2>4, DataAssumption DEF Posted, TypeOK
    <3>2. VoidedIffReversed'
      <4>1. body[r].target # NoTxn /\ body[r].target \in Request
        BY <2>4, DataAssumption DEF Posted
      <4>2. \A u \in Posted : rows[u].reversalOf # body[r].target
        BY <2>4, <4>1 DEF Voids, VoidedIffReversed
      <4> QED BY <2>1, <2>4, <3>1, <4>1, <4>2 DEF Voids, VoidedIffReversed
    <3>3. VoidedRowsWereVoidable'
      BY <2>1, <2>4, <3>1 DEF Voids, VoidedRowsWereVoidable, OwnedByAFeature
    <3> QED BY <3>2, <3>3 DEF Voids
  <2>5. /\ RowOf(body[r]).reversalOf = NoTxn
        /\ ReversalOf(body[r].target, body[r].business).reversalOf = body[r].target
    BY DEF RowOf, ReversalOf
  <2>6. CASE body[r].op = "post"
    BY <1>1, <2>3, <2>5, <2>6, CommitWrites
  <2>7. CASE body[r].op = "void"
    BY <1>1, <2>4, <2>5, <2>7, CommitWrites
  <2>8. CASE body[r].op = "reconcile"
    BY <1>1, <2>2, <2>8, CommitWrites
  <2> QED BY <2>6, <2>7, <2>8, BodyTyped
<1>2. CASE UNCHANGED <<committed, found>>
  BY <1>2 DEF committed, Voids, VoidedIffReversed, VoidedRowsWereVoidable, OwnedByAFeature,
              Posted
<1> QED BY <1>1, <1>2, Frame

LEMMA VoidsInvariant == Spec => []Voids
<1>1. Init => Voids
  BY DEF Init, Voids, VoidedIffReversed, VoidedRowsWereVoidable, Posted
<1>2. Base /\ Checked /\ Voids /\ [Next]_vars => Voids'
  <2> SUFFICES ASSUME Base, Checked, Voids, [Next]_vars PROVE Voids'
    OBVIOUS
  <2>1. CASE UNCHANGED vars
    BY <2>1 DEF vars, Voids, VoidedIffReversed, VoidedRowsWereVoidable, OwnedByAFeature, Posted
  <2> QED BY <2>1, VoidsStep DEF Next
<1> QED BY <1>1, <1>2, BaseInvariant, CheckedInvariant, PTL DEF Spec

(* However many voids of a transaction run at once, one reversal of it is  *)
(* committed and its status says so.                                       *)
THEOREM OneReversal == Spec => []VoidedIffReversed
<1>1. Voids => VoidedIffReversed
  BY DEF Voids
<1> QED BY <1>1, VoidsInvariant, PTL

(* No reversal and no posting owned by a feature is ever voided.           *)
THEOREM OnlyVoidableVoided == Spec => []VoidedRowsWereVoidable
<1>1. Voids => VoidedRowsWereVoidable
  BY DEF Voids
<1> QED BY <1>1, VoidsInvariant, PTL

(***************************************************************************)
(* Sixth layer: idempotency keys.                                          *)
(***************************************************************************)

(* The key of an uncommitted row is in no other row.                       *)
DraftKeysFree ==
    \A r \in Request : draft[r] # NoRow /\ draft[r].key # NoKey =>
        /\ \A t \in Posted : rows[t].key # draft[r].key
        /\ \A q \in Request \ {r} : draft[q] # NoRow => draft[q].key # draft[r].key

Keys == OneTransactionPerKey /\ FallbackFindsWinner /\ DraftKeysFree

LEMMA KeysStep ==
    ASSUME Base, Checked, Keys, NEW r \in Request, Arrive(r) \/ Step(r) \/ Abort(r)
    PROVE  Keys'
<1> USE DEF Base
<1>1. /\ body' = body
      /\ \A q \in Request \ {r} : pc'[q] = pc[q] /\ draft'[q] = draft[q]
  BY Frame DEF SameAt
<1>2. \A t \in Posted : t \in Posted' /\ rows'[t] = rows[t]
  BY RowsPersist
<1>3. ASSUME NEW q \in Request, WithKey(body[q].key) # {} PROVE WithKey(body[q].key)' # {}
  BY <1>1, <1>2, <1>3 DEF WithKey
<1>4. FallbackFindsWinner'
  <2>1. \A q \in Request \ {r} : pc'[q] = "fallback" => WithKey(body[q].key)' # {}
    BY <1>1, <1>3 DEF Keys, FallbackFindsWinner
  <2>2. pc'[r] = "fallback" => WithKey(body[r].key) # {}
    <3>1. CASE LoseKey(r)
      BY <3>1 DEF LoseKey, KeyTaken
    <3>2. CASE Arrive(r) \/ TakeKey(r) \/ TakeRow(r) \/ Insert(r) \/ SumDebits(r) \/ SumCredits(r)
      BY <3>2, BodyTyped DEF Arrive, TakeKey, TakeRow, Insert, SumDebits, SumCredits, Goto, TypeOK
    <3>3. CASE Lookup(r) \/ Validate(r) \/ ReadOriginal(r) \/ Visit(r) \/ Claim(r)
      BY <3>3 DEF Lookup, AnswerFromKey, Validate, ReadOriginal, Visit, Claim, Finish, Goto, TypeOK
    <3>4. CASE Fallback(r) \/ Commit(r) \/ Abort(r)
      BY <3>4 DEF Fallback, AnswerFromKey, Commit, Abort, Finish, Goto, TypeOK
    <3> QED BY <3>1, <3>2, <3>3, <3>4 DEF Step
  <2> QED BY <1>3, <2>1, <2>2 DEF FallbackFindsWinner
<1>5. OneTransactionPerKey' /\ (Commit(r) => DraftKeysFree')
  <2>1. CASE Commit(r) /\ rows' # rows
    <3>1. /\ r \notin Posted /\ rows' = [rows EXCEPT ![r] = draft[r]]
          /\ draft[r] \in Row /\ draft[r] # NoRow
      BY <2>1, CommitWrites, DataAssumption
    <3>2. Posted' = Posted \cup {r} /\ rows'[r] = draft[r]
      BY <3>1, DataAssumption DEF Posted, TypeOK
    <3>3. OneTransactionPerKey'
      BY <1>2, <3>1, <3>2 DEF Keys, OneTransactionPerKey, DraftKeysFree
    <3>4. draft'[r] = NoRow
      BY <2>1 DEF Commit, EndTransaction, TypeOK
    <3>5. DraftKeysFree'
      BY <1>1, <1>2, <3>1, <3>2, <3>4 DEF Keys, DraftKeysFree
    <3> QED BY <3>3, <3>5
  <2>2. CASE rows' = rows
    <3>1. OneTransactionPerKey'
      BY <2>2 DEF Keys, OneTransactionPerKey, Posted
    <3>2. ASSUME Commit(r) PROVE DraftKeysFree'
      <4>1. draft'[r] = NoRow
        BY <3>2 DEF Commit, EndTransaction, TypeOK
      <4> QED BY <1>1, <2>2, <4>1 DEF Keys, DraftKeysFree, Posted
    <3> QED BY <3>1, <3>2
  <2> QED BY <2>1, <2>2, RowsPersist
<1>6. CASE ~Commit(r)
  <2>0. SUFFICES DraftKeysFree'
    BY <1>4, <1>5 DEF Keys
  <2>1. rows' = rows /\ Posted' = Posted
    BY <1>6, Frame DEF committed, Posted
  <2>2. CASE draft'[r] \in {draft[r], NoRow}
    <3>1. \A q \in Request : draft'[q] # NoRow => draft'[q] = draft[q]
      BY <1>1, <2>2
    <3> QED BY <2>1, <3>1 DEF Keys, DraftKeysFree
  <2>3. CASE Claim(r) /\ draft' = [draft EXCEPT ![r] = ReversalOf(body[r].target, body[r].business)]
    <3>1. draft'[r].key = NoKey
      BY <2>3 DEF ReversalOf, TypeOK
    <3>2. \A q \in Request \ {r} : draft'[q] = draft[q]
      BY <1>1
    <3> QED BY <2>1, <3>1, <3>2 DEF Keys, DraftKeysFree
  <2>4. CASE Insert(r)
    <3>1. draft'[r] = RowOf(body[r]) /\ RowOf(body[r]).key = body[r].key
      BY <2>4 DEF Insert, RowOf, TypeOK
    <3>2. HasKey(r) => /\ \A t \in Posted : rows[t].key # body[r].key
                       /\ \A q \in Request \ {r} : draft[q] # NoRow => draft[q].key # body[r].key
      BY <2>4 DEF Insert, InsertWaitsFor, KeyTaken, WithKey
    <3>3. \A q \in Request \ {r} : draft'[q] = draft[q]
      BY <1>1
    <3> QED BY <2>1, <3>1, <3>2, <3>3 DEF Keys, DraftKeysFree, HasKey
  <2>5. CASE Arrive(r) \/ TakeKey(r) \/ TakeRow(r) \/ SumDebits(r) \/ SumCredits(r)
    BY <2>2, <2>5 DEF Arrive, TakeKey, TakeRow, SumDebits, SumCredits
  <2>6. CASE Lookup(r) \/ Validate(r) \/ ReadOriginal(r) \/ Visit(r)
    BY <2>2, <2>6 DEF Lookup, AnswerFromKey, Validate, ReadOriginal, Visit, Finish,
                      EndTransaction, TypeOK
  <2>7. CASE LoseKey(r) \/ Fallback(r) \/ Abort(r)
    BY <2>2, <2>7 DEF LoseKey, Fallback, AnswerFromKey, Abort, Finish, EndTransaction, TypeOK
  <2>8. CASE Claim(r)
    BY <2>2, <2>3, <2>8 DEF Claim, Finish, EndTransaction, TypeOK
  <2> QED BY <1>6, <2>4, <2>5, <2>6, <2>7, <2>8 DEF Step
<1> QED BY <1>4, <1>5, <1>6 DEF Keys

LEMMA KeysInvariant == Spec => []Keys
<1>1. Init => Keys
  BY DEF Init, Keys, OneTransactionPerKey, FallbackFindsWinner, DraftKeysFree, Posted
<1>2. Base /\ Checked /\ Keys /\ [Next]_vars => Keys'
  <2> SUFFICES ASSUME Base, Checked, Keys, [Next]_vars PROVE Keys'
    OBVIOUS
  <2>1. CASE UNCHANGED vars
    BY <2>1 DEF vars, Keys, OneTransactionPerKey, FallbackFindsWinner, DraftKeysFree, Posted,
       WithKey
  <2> QED BY <2>1, KeysStep DEF Next
<1> QED BY <1>1, <1>2, BaseInvariant, CheckedInvariant, PTL DEF Spec

(* However many requests race for a key, one transaction bears it.         *)
THEOREM KeysUsedOnce == Spec => []OneTransactionPerKey
<1>1. Keys => OneTransactionPerKey
  BY DEF Keys
<1> QED BY <1>1, KeysInvariant, PTL

(* The posting that lost the race for its key always finds the winner, so  *)
(* it never writes outside a database transaction.                         *)
THEOREM LoserFindsWinner == Spec => []FallbackFindsWinner
<1>1. Keys => FallbackFindsWinner
  BY DEF Keys
<1> QED BY <1>1, KeysInvariant, PTL

(***************************************************************************)
(* Workspaces.                                                             *)
(***************************************************************************)
LEMMA ApartStep ==
    ASSUME Base, Checked, Voids, WorkspacesApart, NEW r \in Request, Arrive(r) \/ Step(r) \/ Abort(r)
    PROVE  WorkspacesApart'
<1> USE DEF Base
<1>1. \A t \in Posted : t \in Posted' /\ rows'[t] = rows[t]
  BY RowsPersist
<1>2. CASE rows' = rows
  BY <1>2 DEF WorkspacesApart, Posted, AccountsBelong
<1>3. CASE rows' # rows
  <2>1. Commit(r) /\ r \notin Posted /\ rows' = [rows EXCEPT ![r] = draft[r]] /\ draft[r] \in Row
    BY <1>3, RowsPersist, CommitWrites
  <2>2. Posted' = Posted \cup {r} /\ rows'[r] = draft[r]
    BY <2>1, DataAssumption DEF Posted, TypeOK
  <2> DEFINE Apart(t) ==
        /\ AccountsBelong(rows[t].lines, rows[t].business)
        /\ rows[t].contact # NoContact => ContactBusiness[rows[t].contact] = rows[t].business
        /\ rows[t].appliedTo # NoTxn =>
            /\ rows[t].appliedTo \in Posted
            /\ rows[rows[t].appliedTo].business = rows[t].business
        /\ rows[t].reversalOf # NoTxn => rows[rows[t].reversalOf].business = rows[t].business
  <2>3. \A t \in Posted : Apart(t) /\ (rows[t].reversalOf # NoTxn => rows[t].reversalOf \in Posted)
    <3>1. \A t \in Posted : rows[t].reversalOf \in Request \cup {NoTxn}
      BY DEF Posted, TypeOK, Row
    <3> QED BY <3>1 DEF WorkspacesApart, Voids, VoidedIffReversed, VoidedRowsWereVoidable
  <2>4. ASSUME NEW t \in Posted PROVE Apart(t)'
    BY <1>1, <2>3 DEF AccountsBelong
  <2>5. Apart(r)'
    <3>1. CASE body[r].op = "post"
      <4>1. Acceptable(body[r]) /\ rows'[r] = RowOf(body[r])
        BY <1>3, <2>1, <2>2, <3>1, CommitWrites
      <4>2. /\ AccountsBelong(rows'[r].lines, rows'[r].business)
            /\ rows'[r].contact # NoContact => ContactBusiness[rows'[r].contact] = rows'[r].business
            /\ rows'[r].reversalOf = NoTxn
        BY <4>1 DEF Acceptable, LinksBelong, RowOf
      <4>3. rows'[r].appliedTo # NoTxn =>
              /\ rows'[r].appliedTo \in Posted
              /\ rows[rows'[r].appliedTo].business = rows'[r].business
        BY <4>1 DEF Acceptable, LinksBelong, RowOf
      <4> QED BY <1>1, <4>2, <4>3 DEF AccountsBelong
    <3>2. CASE body[r].op = "void"
      <4> DEFINE o == body[r].target
      <4>1. o \in Posted /\ rows[o].business = body[r].business /\ rows'[r] = ReversalOf(o, body[r].business)
        BY <1>3, <2>1, <2>2, <3>2, CommitWrites
      <4>2. /\ rows'[r].contact = rows[o].contact /\ rows'[r].business = rows[o].business
            /\ rows'[r].appliedTo = NoTxn /\ rows'[r].reversalOf = o
        BY <4>1 DEF ReversalOf
      <4>3. body[r].business \in Business
        BY <3>2, BodyTyped DEF VoidBody
      <4>4. AccountsOf(rows'[r].lines) = AccountsOf(rows[o].lines)
        BY <4>1, <4>3, ReversalTyped
      <4>5. Apart(o)
        BY <2>3, <4>1
      <4>6. AccountsBelong(rows'[r].lines, rows'[r].business)
        BY <4>2, <4>4, <4>5 DEF AccountsBelong
      <4> QED BY <1>1, <4>1, <4>2, <4>5, <4>6 DEF AccountsBelong
    <3> QED BY <1>3, <2>1, <3>1, <3>2, CommitWrites, BodyTyped
  <2> QED BY <2>2, <2>4, <2>5 DEF WorkspacesApart
<1> QED BY <1>2, <1>3

(* No posting and no reversal ever links two workspaces.                   *)
THEOREM PostingsStayInWorkspace == Spec => []WorkspacesApart
<1>1. Init => WorkspacesApart
  BY DEF Init, WorkspacesApart, Posted
<1>2. Base /\ Checked /\ Voids /\ WorkspacesApart /\ [Next]_vars => WorkspacesApart'
  <2> SUFFICES ASSUME Base, Checked, Voids, WorkspacesApart, [Next]_vars
               PROVE  WorkspacesApart'
    OBVIOUS
  <2>1. CASE UNCHANGED vars
    BY <2>1 DEF vars, WorkspacesApart, Posted, AccountsBelong
  <2> QED BY <2>1, ApartStep DEF Next
<1> QED BY <1>1, <1>2, BaseInvariant, CheckedInvariant, VoidsInvariant, PTL DEF Spec

(* The records stay sound: voided and reversed go together, once, of what  *)
(* may be voided, and inside one workspace.                                *)
THEOREM RecordsStaySound == Spec => []RecordsSound
<1>1. VoidedIffReversed /\ VoidedRowsWereVoidable /\ WorkspacesApart => RecordsSound
  BY DEF RecordsSound
<1> QED BY <1>1, OneReversal, OnlyVoidableVoided, PostingsStayInWorkspace, PTL

(***************************************************************************)
(* Figures: what the cached balances add up to.                            *)
(***************************************************************************)
(* The rows there are: finitely many, each original balanced, each         *)
(* reversal the mirror of its original.                                    *)
Entered ==
    /\ IsFiniteSet(Posted)
    /\ \A t \in Posted :
         /\ rows[t].reversalOf = NoTxn => Balanced(rows[t].lines)
         /\ rows[t].reversalOf # NoTxn => rows[t].lines = Mirror(rows[rows[t].reversalOf].lines)

LEMMA EnteredStep ==
    ASSUME Base, Checked, Voids, Entered, NEW r \in Request, Arrive(r) \/ Step(r) \/ Abort(r)
    PROVE  Entered'
<1> USE DEF Base
<1>1. \A t \in Posted : t \in Posted' /\ rows'[t] = rows[t]
  BY RowsPersist
<1>2. CASE rows' = rows
  BY <1>2 DEF Entered, Posted
<1>3. CASE rows' # rows
  <2>1. Commit(r) /\ r \notin Posted /\ rows' = [rows EXCEPT ![r] = draft[r]] /\ draft[r] \in Row
    BY <1>3, RowsPersist, CommitWrites
  <2>2. Posted' = Posted \cup {r} /\ rows'[r] = draft[r]
    BY <2>1, DataAssumption DEF Posted, TypeOK
  <2>3. IsFiniteSet(Posted')
    BY <2>2, FS_AddElement DEF Entered
  <2> DEFINE Well(t) ==
        /\ rows[t].reversalOf = NoTxn => Balanced(rows[t].lines)
        /\ rows[t].reversalOf # NoTxn => rows[t].lines = Mirror(rows[rows[t].reversalOf].lines)
  <2>4. \A t \in Posted : Well(t) /\ (rows[t].reversalOf # NoTxn => rows[t].reversalOf \in Posted)
    <3>1. \A t \in Posted : rows[t].reversalOf \in Request \cup {NoTxn}
      BY DEF Posted, TypeOK, Row
    <3> QED BY <3>1 DEF Entered, Voids, VoidedIffReversed, VoidedRowsWereVoidable
  <2>5. ASSUME NEW t \in Posted PROVE Well(t)'
    BY <1>1, <2>4
  <2>6. Well(r)'
    <3>1. CASE body[r].op = "post"
      <4>1. Acceptable(body[r]) /\ rows'[r] = RowOf(body[r])
        BY <1>3, <2>1, <2>2, <3>1, CommitWrites
      <4> QED BY <4>1 DEF Acceptable, RowOf
    <3>2. CASE body[r].op = "void"
      <4> DEFINE o == body[r].target
      <4>1. o \in Posted /\ rows'[r] = ReversalOf(o, body[r].business)
        BY <1>3, <2>1, <2>2, <3>2, CommitWrites
      <4>2. rows'[r].lines = Mirror(rows[o].lines) /\ rows'[r].reversalOf = o /\ o # NoTxn
        BY <4>1, DataAssumption DEF ReversalOf, Posted
      <4>3. rows'[o] = rows[o]
        BY <1>1, <4>1
      <4> QED BY <4>2, <4>3
    <3> QED BY <1>3, <2>1, <3>1, <3>2, CommitWrites, BodyTyped
  <2> QED BY <2>2, <2>3, <2>5, <2>6 DEF Entered
<1> QED BY <1>2, <1>3

LEMMA EnteredInvariant == Spec => []Entered
<1>1. Init => Entered
  <2> SUFFICES ASSUME Init PROVE Entered
    OBVIOUS
  <2>1. Posted = {}
    BY DEF Init, Posted
  <2> QED BY <2>1, FS_EmptySet DEF Entered
<1>2. Base /\ Checked /\ Voids /\ Entered /\ [Next]_vars => Entered'
  <2> SUFFICES ASSUME Base, Checked, Voids, Entered, [Next]_vars PROVE Entered'
    OBVIOUS
  <2>1. CASE UNCHANGED vars
    BY <2>1 DEF vars, Entered, Posted
  <2> QED BY <2>1, EnteredStep DEF Next
<1> QED BY <1>1, <1>2, BaseInvariant, CheckedInvariant, VoidsInvariant, PTL DEF Spec

(* Sums of lines are sums of numbers.                                      *)
LEMMA LinesAddUp ==
    ASSUME NEW lines \in Seq(Line), NEW s
    PROVE  Ints([i \in DOMAIN lines |-> lines[i].amount], {i \in DOMAIN lines : lines[i].side = s})
<1>1. DOMAIN lines = 1 .. Len(lines) /\ Len(lines) \in Nat
  OBVIOUS
<1>2. IsFiniteSet(DOMAIN lines)
  BY <1>1, FS_Interval
<1>3. IsFiniteSet({i \in DOMAIN lines : lines[i].side = s})
  BY <1>2, FS_Subset
<1>4. \A i \in DOMAIN lines : lines[i] \in Line
  OBVIOUS
<1>5. \A i \in DOMAIN lines : lines[i].amount \in Int
  BY <1>4 DEF Line
<1> QED BY <1>3, <1>5 DEF Ints

(* The mirror of balanced lines is balanced.                               *)
LEMMA MirrorBalances ==
    ASSUME NEW lines \in Seq(Line), Balanced(lines)
    PROVE  Balanced(Mirror(lines))
<1>1. ASSUME NEW s \in Side
      PROVE  SumOf(Mirror(lines), s) = SumOf(lines, Flip(s))
  <2> DEFINE f == [i \in DOMAIN lines |-> lines[i].amount]
             g == [i \in DOMAIN Mirror(lines) |-> Mirror(lines)[i].amount]
             S == {i \in DOMAIN lines : lines[i].side = Flip(s)}
  <2>1. {i \in DOMAIN Mirror(lines) : Mirror(lines)[i].side = s} = S
    <3>1. \A i \in DOMAIN lines : lines[i] \in Line
      OBVIOUS
    <3>2. \A i \in DOMAIN lines : Flip(lines[i].side) = s <=> lines[i].side = Flip(s)
      BY <3>1 DEF Flip, Side, Line
    <3> QED BY <3>2, MirrorTyped
  <2>2. \A i \in S : f[i] = g[i]
    BY MirrorTyped
  <2>3. Ints(f, S)
    BY LinesAddUp
  <2> HIDE DEF f, g, S
  <2>4. SumOver(f, S) = SumOver(g, S)
    BY <2>2, <2>3, SumAgrees
  <2> QED BY <2>1, <2>4 DEF SumOf, f, g, S
<1> QED BY <1>1 DEF Balanced, Flip, Side

(* Every row is balanced, originals and reversals.                         *)
LEMMA RowsBalanced ==
    ASSUME Base, Voids, Entered, NEW t \in Posted
    PROVE  rows[t].lines \in Seq(Line) /\ Balanced(rows[t].lines)
<1> USE DEF Base
<1>1. \A u \in Posted : rows[u].lines \in Seq(Line) /\ rows[u].reversalOf \in Request \cup {NoTxn}
  BY DEF Posted, TypeOK, Row
<1>2. CASE rows[t].reversalOf = NoTxn
  BY <1>1, <1>2 DEF Entered
<1>3. CASE rows[t].reversalOf # NoTxn
  <2> DEFINE o == rows[t].reversalOf
  <2>1. o \in Posted /\ rows[o].reversalOf = NoTxn
    BY <1>1, <1>3 DEF Voids, VoidedIffReversed, VoidedRowsWereVoidable
  <2>2. Balanced(rows[o].lines) /\ rows[t].lines = Mirror(rows[o].lines)
    BY <1>3, <2>1 DEF Entered
  <2> QED BY <1>1, <2>1, <2>2, MirrorBalances
<1> QED BY <1>2, <1>3

Amount == [e \in Entry |-> rows[e[1]].lines[e[2]].amount]

(* The entries of the rows of a workspace, on one side.                    *)
AllOn(biz, s) ==
    {e \in Entry : /\ e[1] \in Posted /\ rows[e[1]].business = biz
                   /\ e[2] \in DOMAIN rows[e[1]].lines
                   /\ rows[e[1]].lines[e[2]].side = s}

AllEntries == {e \in Entry : e[1] \in Posted /\ e[2] \in DOMAIN rows[e[1]].lines}

LEMMA FewEntries ==
    ASSUME Base, Entered
    PROVE  Ints(Amount, AllEntries)
<1> USE DEF Base
<1> DEFINE Of(t) == {t} \X DOMAIN rows[t].lines
           sets == {Of(t) : t \in Posted}
           of == [t \in Posted |-> Of(t)]
<1>1. \A t \in Posted : rows[t].lines \in Seq(Line)
  BY DEF Posted, TypeOK, Row
<1>2. ASSUME NEW t \in Posted PROVE IsFiniteSet(Of(t))
  <2>1. DOMAIN rows[t].lines = 1 .. Len(rows[t].lines) /\ Len(rows[t].lines) \in Nat
    BY <1>1
  <2>2. IsFiniteSet(DOMAIN rows[t].lines)
    BY <2>1, FS_Interval
  <2>3. IsFiniteSet({t})
    BY FS_Singleton
  <2> QED BY <2>2, <2>3, FS_Product
<1>3. IsFiniteSet(sets)
  <2>1. of \in Surjection(Posted, sets)
    BY DEF Surjection
  <2> HIDE DEF of, sets
  <2> QED BY <2>1, FS_Surjection DEF Entered
<1>4. IsFiniteSet(UNION sets)
  <2>1. \A T \in sets : IsFiniteSet(T)
    BY <1>2
  <2> HIDE DEF sets
  <2> QED BY <1>3, <2>1, FS_UNION
<1>5. AllEntries \subseteq UNION sets
  <2>1. ASSUME NEW e \in AllEntries PROVE e \in UNION sets
    <3>1. e[1] \in Posted /\ e \in Of(e[1])
      BY DEF AllEntries, Entry
    <3> QED BY <3>1
  <2> QED BY <2>1
<1>6. IsFiniteSet(AllEntries)
  BY <1>4, <1>5, FS_Subset
<1>7. ASSUME NEW e \in AllEntries PROVE Amount[e] \in Int
  <2>1. e[1] \in Posted /\ e[2] \in DOMAIN rows[e[1]].lines /\ e \in Entry
    BY DEF AllEntries
  <2>2. rows[e[1]].lines[e[2]] \in Line
    BY <1>1, <2>1
  <2> QED BY <2>1, <2>2 DEF Amount, Line
<1> QED BY <1>6, <1>7 DEF Ints

(* What an account has on one side are the entries that name it.           *)
LEMMA OnAccount ==
    ASSUME Base, NEW a, NEW s
    PROVE  /\ EntriesOn(rows, a, s) \subseteq AllEntries
           /\ \A e \in AllEntries :
                e \in EntriesOn(rows, a, s) <=>
                  rows[e[1]].lines[e[2]].account = a /\ rows[e[1]].lines[e[2]].side = s
<1>1. ASSUME NEW e
      PROVE  e \in EntriesOn(rows, a, s) <=>
               \E t \in Posted : \E i \in DOMAIN rows[t].lines :
                 e = <<t, i>> /\ rows[t].lines[i].account = a /\ rows[t].lines[i].side = s
  BY DEF EntriesOn, LinesOn, Posted
<1>2. \A t \in Posted : DOMAIN rows[t].lines \subseteq Nat
  <2>1. \A t \in Posted : rows[t].lines \in Seq(Line)
    BY DEF Posted, Base, TypeOK, Row
  <2> QED BY <2>1
<1>3. ASSUME NEW e \in EntriesOn(rows, a, s) PROVE e \in AllEntries
  BY <1>1, <1>2 DEF AllEntries, Entry, Posted
<1>4. ASSUME NEW e \in AllEntries
      PROVE  e \in EntriesOn(rows, a, s) <=>
               rows[e[1]].lines[e[2]].account = a /\ rows[e[1]].lines[e[2]].side = s
  <2>1. e = <<e[1], e[2]>> /\ e[1] \in Posted /\ e[2] \in DOMAIN rows[e[1]].lines
    BY DEF AllEntries, Entry
  <2> QED BY <1>1, <2>1
<1> QED BY <1>3, <1>4

(* Total adds up amounts.                                                  *)
LEMMA TotalAdds ==
    ASSUME Base, Entered, NEW S \in SUBSET AllEntries
    PROVE  Total(S) = SumOver(Amount, S) /\ Total(S) \in Int /\ Ints(Amount, S)
<1>1. Ints(Amount, S)
  BY FewEntries, IntsBelow
<1>2. \A e \in S : Amount[e] = AmountOf(S)[e]
  BY DEF Amount, AmountOf, AllEntries
<1>3. SumOver(Amount, S) = SumOver(AmountOf(S), S) /\ SumOver(Amount, S) \in Int
  BY <1>1, <1>2, SumAgrees
<1> QED BY <1>1, <1>3 DEF Total

(* Over a workspace, what its accounts have on one side is what its rows   *)
(* have there.                                                             *)
RowTotals(biz, s) == [t \in {u \in Posted : rows[u].business = biz} |-> SumOf(rows[t].lines, s)]

LEMMA ColumnIsRows ==
    ASSUME Base, Entered, CacheCoherent, WorkspacesApart, NEW biz \in Business, NEW s \in Side
    PROVE  Column(biz, s) = SumOver(RowTotals(biz, s), {u \in Posted : rows[u].business = biz})
<1> USE DEF Base
<1> DEFINE mine == AccountsIn(biz)
           here == {u \in Posted : rows[u].business = biz}
           all == AllOn(biz, s)
           accountOf == [e \in Entry |-> rows[e[1]].lines[e[2]].account]
           rowOf == [e \in Entry |-> e[1]]
           cached == [a \in mine |-> Total(cache[a][s])]
           byRow == RowTotals(biz, s)
<1>1. all \in SUBSET AllEntries
  BY DEF AllOn, AllEntries
<1>2. Ints(Amount, all)
  BY <1>1, FewEntries, IntsBelow
<1>3. IsFiniteSet(mine) /\ IsFiniteSet(here)
  <2>1. mine \subseteq Account /\ here \subseteq Posted
    BY DEF AccountsIn
  <2> QED BY <2>1, LockAssumption, FS_Subset DEF Entered
<1>4. ASSUME NEW e \in all
      PROVE  accountOf[e] \in Account /\ AccountBusiness[accountOf[e]] = biz
  <2>1. e[1] \in Posted /\ rows[e[1]].business = biz /\ e[2] \in DOMAIN rows[e[1]].lines /\ e \in Entry
    BY DEF AllOn
  <2>2. accountOf[e] \in AccountsOf(rows[e[1]].lines)
    BY <2>1 DEF AccountsOf
  <2>3. AccountsBelong(rows[e[1]].lines, biz)
    BY <2>1 DEF WorkspacesApart
  <2> QED BY <2>2, <2>3 DEF AccountsBelong
<1>5. ASSUME NEW a \in mine
      PROVE  cached[a] = SumOver(Amount, {e \in all : accountOf[e] = a})
  <2>1. a \in Account /\ AccountBusiness[a] = biz
    BY DEF AccountsIn
  <2>2. cache[a][s] = EntriesOn(rows, a, s)
    <3>1. cache[a] = [DEBIT |-> EntriesOn(rows, a, "DEBIT"), CREDIT |-> EntriesOn(rows, a, "CREDIT")]
      BY <2>1 DEF CacheCoherent, BalanceIn
    <3>2. CASE s = "DEBIT"
      BY <3>1, <3>2
    <3>3. CASE s = "CREDIT"
      BY <3>1, <3>3
    <3> QED BY <3>2, <3>3 DEF Side
  <2>3. EntriesOn(rows, a, s) \in SUBSET AllEntries
    BY OnAccount
  <2>4. ASSUME NEW e \in AllEntries
        PROVE  e \in EntriesOn(rows, a, s) <=> e \in all /\ accountOf[e] = a
    <3>1. e[1] \in Posted /\ e[2] \in DOMAIN rows[e[1]].lines /\ e \in Entry
      BY DEF AllEntries
    <3>2. accountOf[e] = rows[e[1]].lines[e[2]].account
      BY <3>1
    <3>3. accountOf[e] = a => rows[e[1]].business = biz
      <4>1. accountOf[e] \in AccountsOf(rows[e[1]].lines)
        BY <3>1, <3>2 DEF AccountsOf
      <4>2. AccountsBelong(rows[e[1]].lines, rows[e[1]].business)
        BY <3>1 DEF WorkspacesApart
      <4> QED BY <2>1, <4>1, <4>2 DEF AccountsBelong
    <3>4. e \in EntriesOn(rows, a, s) <=> accountOf[e] = a /\ rows[e[1]].lines[e[2]].side = s
      BY <3>2, OnAccount
    <3> QED BY <3>1, <3>3, <3>4 DEF AllOn
  <2>5. EntriesOn(rows, a, s) = {e \in all : accountOf[e] = a}
    BY <1>1, <2>3, <2>4
  <2>6. Total(EntriesOn(rows, a, s)) = SumOver(Amount, EntriesOn(rows, a, s))
    BY <2>3, TotalAdds
  <2> QED BY <2>2, <2>5, <2>6
<1>6. Column(biz, s) = SumOver(cached, mine)
  BY DEF Column
<1>7. {e \in all : accountOf[e] \notin mine} = {}
  BY <1>4 DEF AccountsIn
<1>8. SumOver(Amount, all) = SumOver(cached, mine) + SumOver(Amount, {})
  <2> HIDE DEF all, accountOf, mine, cached
  <2>1. \A a \in mine : cached[a] = SumOver(Amount, {e \in all : accountOf[e] = a})
    BY <1>5
  <2>2. IsFiniteSet(mine)
    BY <1>3
  <2>3. SumOver(Amount, all)
          = SumOver(cached, mine) + SumOver(Amount, {e \in all : accountOf[e] \notin mine})
    BY ONLY <1>2, <2>1, <2>2, SumOfGroups, SMTT(60)
  <2> QED BY <1>7, <2>3
<1>9. ASSUME NEW t \in here
      PROVE  byRow[t] = SumOver(Amount, {e \in all : rowOf[e] = t})
  <2> DEFINE lines == rows[t].lines
             f == [i \in DOMAIN lines |-> lines[i].amount]
             S == {i \in DOMAIN lines : lines[i].side = s}
             T == {e \in all : rowOf[e] = t}
             to == [i \in DOMAIN lines |-> <<t, i>>]
  <2>1. t \in Posted /\ rows[t].business = biz /\ t \in Request
    BY DEF Posted
  <2>2. lines \in Seq(Line) /\ DOMAIN lines \subseteq Nat
    <3>1. lines \in Seq(Line)
      BY <2>1 DEF Posted, TypeOK, Row
    <3> QED BY <3>1
  <2>3. Ints(f, S)
    BY <2>2, LinesAddUp
  <2>4. ASSUME NEW i \in S PROVE to[i] \in T /\ Amount[to[i]] = f[i]
    <3>1. <<t, i>> \in Entry /\ i \in DOMAIN lines /\ lines[i].side = s /\ to[i] = <<t, i>>
      BY <2>1, <2>2 DEF Entry
    <3> QED BY <2>1, <3>1 DEF AllOn, Amount
  <2>5. ASSUME NEW e \in T PROVE \E i \in S : to[i] = e
    <3>1. e \in Entry /\ e[1] = t /\ e[2] \in DOMAIN lines /\ lines[e[2]].side = s
      BY DEF AllOn
    <3>2. e = <<t, e[2]>>
      BY <3>1 DEF Entry
    <3> QED BY <3>1, <3>2
  <2>6. \A i, j \in S : to[i] = to[j] => i = j
    OBVIOUS
  <2>7. IsFiniteSet(T)
    <3>1. IsFiniteSet(all)
      BY <1>2 DEF Ints
    <3> QED BY <3>1, FS_Subset
  <2>8. byRow[t] = SumOver(f, S)
    BY <2>1 DEF RowTotals, SumOf
  <2> HIDE DEF f, S, T, to
  <2>9. SumOver(f, S) = SumOver(Amount, T)
    BY <2>3, <2>4, <2>5, <2>6, <2>7, SumRenamed
  <2> QED BY <2>8, <2>9 DEF T
<1>10. {e \in all : rowOf[e] \notin here} = {}
  BY DEF AllOn
<1>11. SumOver(Amount, all) = SumOver(byRow, here) + SumOver(Amount, {})
  <2> HIDE DEF all, rowOf, here, byRow
  <2> QED BY <1>2, <1>3, <1>9, <1>10, SumOfGroups
<1>12. SumOver(Amount, {}) = 0
  BY SumOfNone
<1>13. SumOver(byRow, here) \in Int /\ SumOver(cached, mine) \in Int
  <2>1. ASSUME NEW t \in here PROVE byRow[t] \in Int
    <3>1. Ints(Amount, {e \in all : rowOf[e] = t})
      BY <1>2, IntsBelow
    <3> QED BY <1>9, <3>1, SumInt
  <2>2. ASSUME NEW a \in mine PROVE cached[a] \in Int
    <3>1. Ints(Amount, {e \in all : accountOf[e] = a})
      BY <1>2, IntsBelow
    <3> QED BY <1>5, <3>1, SumInt
  <2> HIDE DEF byRow, cached, here, mine
  <2> QED BY <1>3, <2>1, <2>2, SumInt DEF Ints
<1> HIDE DEF all, cached, mine, byRow, here
<1>14. SumOver(cached, mine) = SumOver(byRow, here)
  BY <1>8, <1>11, <1>12, <1>13
<1> QED BY <1>6, <1>14 DEF byRow, here

LEMMA TrialBalances ==
    ASSUME Base, Voids, Entered, CacheCoherent, WorkspacesApart
    PROVE  TrialBalance
<1>1. ASSUME NEW biz \in Business, NEW t \in {u \in Posted : rows[u].business = biz}
      PROVE  RowTotals(biz, "DEBIT")[t] = RowTotals(biz, "CREDIT")[t]
  BY RowsBalanced DEF RowTotals, Balanced
<1>2. ASSUME NEW biz \in Business
      PROVE  RowTotals(biz, "DEBIT") = RowTotals(biz, "CREDIT")
  BY <1>1 DEF RowTotals
<1> QED BY <1>2, ColumnIsRows DEF TrialBalance, Side

(* The other row of a void: the reversal of a voided row, or the original  *)
(* of a reversal.                                                          *)
Partner(t) ==
    IF t \in voided THEN CHOOSE u \in Posted : rows[u].reversalOf = t ELSE rows[t].reversalOf

LEMMA PartnersMirror ==
    ASSUME Base, Voids, Entered, NEW t \in Posted, ~Live(t)
    PROVE  /\ Partner(t) \in Posted /\ ~Live(Partner(t)) /\ Partner(Partner(t)) = t
           /\ DOMAIN rows[Partner(t)].lines = DOMAIN rows[t].lines
           /\ \A i \in DOMAIN rows[t].lines :
                /\ rows[Partner(t)].lines[i].account = rows[t].lines[i].account
                /\ rows[Partner(t)].lines[i].amount = rows[t].lines[i].amount
                /\ rows[Partner(t)].lines[i].side = Flip(rows[t].lines[i].side)
<1> USE DEF Base
<1>1. \A u \in Posted : /\ rows[u].lines \in Seq(Line) /\ rows[u].reversalOf \in Request \cup {NoTxn}
                        /\ u \in Request
  BY DEF Posted, TypeOK, Row
<1>2. \A u \in voided : u \in Posted /\ rows[u].reversalOf = NoTxn
  BY DEF Voids, VoidedRowsWereVoidable
<1>3. ASSUME NEW o \in voided, NEW u \in Posted, rows[u].reversalOf = o
      PROVE  /\ Partner(o) = u /\ Partner(u) = o
             /\ rows[u].lines = Mirror(rows[o].lines)
             /\ ~Live(o) /\ ~Live(u)
  <2>1. o # NoTxn /\ o \in Posted
    BY <1>1, <1>2, DataAssumption
  <2>2. u \notin voided
    BY <1>2, <1>3, <2>1
  <2>3. \A v \in Posted : rows[v].reversalOf = o => v = u
    BY <1>3, <2>1 DEF Voids, VoidedIffReversed
  <2>4. Partner(o) = u
    BY <1>3, <2>3 DEF Partner
  <2>5. Partner(u) = o
    BY <1>3, <2>2 DEF Partner
  <2> QED BY <1>3, <2>1, <2>4, <2>5 DEF Entered, Live
<1>4. ASSUME NEW o \in Posted, NEW u, rows[u].lines = Mirror(rows[o].lines)
      PROVE  /\ DOMAIN rows[u].lines = DOMAIN rows[o].lines
             /\ \A i \in DOMAIN rows[o].lines :
                  /\ rows[u].lines[i].account = rows[o].lines[i].account
                  /\ rows[u].lines[i].amount = rows[o].lines[i].amount
                  /\ rows[u].lines[i].side = Flip(rows[o].lines[i].side)
                  /\ rows[o].lines[i].side = Flip(rows[u].lines[i].side)
  <2>1. rows[o].lines \in Seq(Line)
    BY <1>1
  <2>2. \A i \in DOMAIN rows[o].lines : rows[o].lines[i] \in Line
    BY <2>1
  <2>3. \A i \in DOMAIN rows[o].lines : Flip(Flip(rows[o].lines[i].side)) = rows[o].lines[i].side
    BY <2>2 DEF Flip, Line, Side
  <2> QED BY <1>4, <2>1, <2>3, MirrorTyped
<1>5. CASE t \in voided
  <2>1. PICK u \in Posted : rows[u].reversalOf = t
    BY <1>1, <1>5 DEF Voids, VoidedIffReversed
  <2>2. Partner(t) = u /\ Partner(u) = t /\ rows[u].lines = Mirror(rows[t].lines) /\ ~Live(u)
    BY <1>3, <1>5, <2>1
  <2> QED BY <1>4, <2>1, <2>2
<1>6. CASE t \notin voided
  <2> DEFINE o == rows[t].reversalOf
  <2>1. o # NoTxn
    BY <1>6 DEF Live
  <2>2. o \in voided /\ o \in Posted
    BY <1>1, <1>2, <2>1 DEF Voids, VoidedIffReversed
  <2>3. Partner(t) = o /\ Partner(o) = t /\ rows[t].lines = Mirror(rows[o].lines) /\ ~Live(o)
    BY <1>3, <2>2
  <2> HIDE DEF o
  <2>4. /\ DOMAIN rows[t].lines = DOMAIN rows[o].lines
        /\ \A i \in DOMAIN rows[o].lines :
                  /\ rows[t].lines[i].account = rows[o].lines[i].account
                  /\ rows[t].lines[i].amount = rows[o].lines[i].amount
                  /\ rows[o].lines[i].side = Flip(rows[t].lines[i].side)
    BY <1>4, <2>2, <2>3
  <2> QED BY <2>2, <2>3, <2>4
<1> QED BY <1>5, <1>6

LEMMA VoidsRestore ==
    ASSUME Base, Voids, Entered, CacheCoherent
    PROVE  VoidRestoresBalance
<1> USE DEF Base
<1> SUFFICES ASSUME NEW a \in Account
             PROVE  Total(cache[a].DEBIT) - Total(cache[a].CREDIT)
                      = Total(LiveEntries(cache[a].DEBIT)) - Total(LiveEntries(cache[a].CREDIT))
  BY DEF VoidRestoresBalance
<1> DEFINE On(s) == EntriesOn(rows, a, s)
           Dead(s) == {e \in On(s) : ~Live(e[1])}
<1>1. cache[a].DEBIT = On("DEBIT") /\ cache[a].CREDIT = On("CREDIT")
  <2>1. cache[a] = [DEBIT |-> On("DEBIT"), CREDIT |-> On("CREDIT")]
    BY DEF CacheCoherent, BalanceIn
  <2> HIDE DEF On
  <2> QED BY <2>1
<1>2. ASSUME NEW s \in Side
      PROVE  /\ Total(On(s)) = Total(LiveEntries(On(s))) + SumOver(Amount, Dead(s))
             /\ Total(On(s)) \in Int /\ Total(LiveEntries(On(s))) \in Int
             /\ SumOver(Amount, Dead(s)) \in Int
             /\ Ints(Amount, Dead(s))
  <2> DEFINE alive == LiveEntries(On(s))
             gone == Dead(s)
             all == On(s)
  <2>1. all \in SUBSET AllEntries
    BY OnAccount
  <2>2. alive \in SUBSET AllEntries /\ gone \in SUBSET AllEntries
    BY <2>1 DEF LiveEntries
  <2>3. all = alive \cup gone /\ alive \cap gone = {}
    BY DEF LiveEntries
  <2> HIDE DEF all, alive, gone
  <2>4. /\ Total(all) = SumOver(Amount, all) /\ Ints(Amount, all) /\ Total(all) \in Int
    BY <2>1, TotalAdds
  <2>5. Total(alive) = SumOver(Amount, alive) /\ Total(alive) \in Int
    BY <2>2, TotalAdds
  <2>6. Total(gone) = SumOver(Amount, gone) /\ Total(gone) \in Int /\ Ints(Amount, gone)
    BY <2>2, TotalAdds
  <2>7. SumOver(Amount, all) = SumOver(Amount, alive) + SumOver(Amount, gone)
    BY <2>3, <2>4, SumOfUnion
  <2>8. /\ Total(all) = Total(alive) + SumOver(Amount, gone)
        /\ SumOver(Amount, gone) \in Int
    BY <2>4, <2>5, <2>6, <2>7
  <2> QED BY <2>4, <2>5, <2>6, <2>8 DEF all, alive, gone
<1>3. SumOver(Amount, Dead("DEBIT")) = SumOver(Amount, Dead("CREDIT"))
  <2> DEFINE S == Dead("DEBIT")
             T == Dead("CREDIT")
             to == [e \in Entry |-> <<Partner(e[1]), e[2]>>]
  <2>1. ASSUME NEW s \in Side, NEW e \in Dead(s)
        PROVE  to[e] \in Dead(Flip(s)) /\ Amount[to[e]] = Amount[e] /\ to[to[e]] = e
    <3> DEFINE t == e[1]
               i == e[2]
               p == Partner(t)
    <3>1. On(s) \subseteq AllEntries /\ e \in AllEntries /\ ~Live(t)
      BY OnAccount
    <3>2. /\ e = <<t, i>> /\ t \in Posted /\ i \in DOMAIN rows[t].lines /\ i \in Nat /\ t \in Request
          /\ e \in Entry
      BY <3>1 DEF AllEntries, Entry
    <3>3. rows[t].lines[i].account = a /\ rows[t].lines[i].side = s
      BY <3>1, OnAccount
    <3>4. /\ p \in Posted /\ ~Live(p) /\ Partner(p) = t
          /\ DOMAIN rows[p].lines = DOMAIN rows[t].lines
          /\ \A j \in DOMAIN rows[t].lines :
                /\ rows[p].lines[j].account = rows[t].lines[j].account
                /\ rows[p].lines[j].amount = rows[t].lines[j].amount
                /\ rows[p].lines[j].side = Flip(rows[t].lines[j].side)
      BY <3>1, <3>2, PartnersMirror
    <3> HIDE DEF t, i, p
    <3>5. /\ rows[p].lines[i].account = a /\ rows[p].lines[i].amount = rows[t].lines[i].amount
          /\ rows[p].lines[i].side = Flip(s) /\ i \in DOMAIN rows[p].lines
      BY <3>2, <3>3, <3>4
    <3>6. <<p, i>> \in Entry /\ p \in Request
      BY <3>2, <3>4 DEF Posted, Entry
    <3>7. <<p, i>> \in AllEntries
      BY <3>4, <3>5, <3>6 DEF AllEntries
    <3>8. <<p, i>> \in Dead(Flip(s))
      BY <3>4, <3>5, <3>7, OnAccount
    <3>9. to[e] = <<p, i>> /\ to[<<p, i>>] = <<t, i>>
      BY <3>2, <3>4, <3>6 DEF t, i, p
    <3>10. Amount[<<p, i>>] = Amount[e]
      BY <3>2, <3>5, <3>6 DEF Amount
    <3> QED BY <3>2, <3>8, <3>9, <3>10
  <2>2. Flip("DEBIT") = "CREDIT" /\ Flip("CREDIT") = "DEBIT" /\ "DEBIT" \in Side /\ "CREDIT" \in Side
    BY DEF Flip, Side
  <2>3. \A e \in S : to[e] \in T /\ Amount[to[e]] = Amount[e] /\ to[to[e]] = e
    BY <2>1, <2>2
  <2>4. \A e \in T : to[e] \in S /\ to[to[e]] = e
    BY <2>1, <2>2
  <2>5. Ints(Amount, S) /\ Ints(Amount, T)
    BY <1>2, <2>2
  <2> HIDE DEF S, T, to
  <2>6. \A x, z \in S : to[x] = to[z] => x = z
    BY <2>3
  <2>7. \A y \in T : \E x \in S : to[x] = y
    BY <2>4
  <2>8. IsFiniteSet(T)
    BY <2>5 DEF Ints
  <2>9. SumOver(Amount, S) = SumOver(Amount, T)
    BY <2>3, <2>5, <2>6, <2>7, <2>8, SumRenamed
  <2> QED BY <2>9 DEF S, T
<1>4. /\ Total(On("DEBIT")) = Total(LiveEntries(On("DEBIT"))) + SumOver(Amount, Dead("DEBIT"))
      /\ Total(On("DEBIT")) \in Int /\ Total(LiveEntries(On("DEBIT"))) \in Int
      /\ SumOver(Amount, Dead("DEBIT")) \in Int
  BY <1>2 DEF Side
<1>5. /\ Total(On("CREDIT")) = Total(LiveEntries(On("CREDIT"))) + SumOver(Amount, Dead("CREDIT"))
      /\ Total(On("CREDIT")) \in Int /\ Total(LiveEntries(On("CREDIT"))) \in Int
      /\ SumOver(Amount, Dead("CREDIT")) \in Int
  BY <1>2 DEF Side
<1> HIDE DEF On, Dead
<1> QED BY <1>1, <1>3, <1>4, <1>5

(* The double entry holds for what readers find cached: the debits of a    *)
(* workspace are its credits, and a void gives back what its original      *)
(* took, however postings, voids and audits interleave.                    *)
THEOREM FiguresStayBalanced == Spec => []FiguresBalance
<1>1. Base /\ Voids /\ Entered /\ CacheCoherent /\ WorkspacesApart => FiguresBalance
  BY TrialBalances, VoidsRestore DEF FiguresBalance
<1> QED BY <1>1, BaseInvariant, VoidsInvariant, EnteredInvariant, CachedBalancesExact,
           PostingsStayInWorkspace, PTL

(***************************************************************************)
(* The ledger implements the book.                                         *)
(***************************************************************************)
LEMMA MirrorMirrors ==
    ASSUME Base, NEW o \in Posted, NEW biz
    PROVE  Book!Mirrors(ReversalOf(o, biz).lines, rows[o].lines)
<1>1. rows[o].lines \in Seq(Line)
  BY DEF Posted, Base, TypeOK, Row
<1>2. ReversalOf(o, biz).lines = Mirror(rows[o].lines)
  BY DEF ReversalOf
<1> QED BY <1>1, <1>2, MirrorTyped DEF Book!Mirrors, Book!Opposite, Flip

(* The commit of a row enters it in the book.                              *)
LEMMA CommitEnters ==
    ASSUME Base, Summed, Summed', NEW r \in Request, rows[r] = NoRow, draft[r] \in Row,
           rows' = [rows EXCEPT ![r] = draft[r]],
           cache' = [a \in Account |-> cache'[a]]
    PROVE  Book!Enter(r, draft[r])
<1> USE DEF Base
<1>1. draft[r] # NoRow
  BY DataAssumption
<1>2. rows'[r] = draft[r] /\ \A u \in Request \ {r} : rows'[u] = rows[u]
  BY DEF TypeOK
<1>3. ASSUME NEW a \in Account
      PROVE  cache'[a] =
        [DEBIT |-> cache[a].DEBIT \cup {<<r, i>> : i \in Book!LinesOn(draft[r], a, "DEBIT")},
         CREDIT |-> cache[a].CREDIT \cup {<<r, i>> : i \in Book!LinesOn(draft[r], a, "CREDIT")}]
  <2>1. cache[a] = BalanceIn(rows, a) /\ cache'[a] = BalanceIn(rows', a)
    BY DEF Summed, CacheCoherent
  <2>2. ASSUME NEW s \in Side
        PROVE  EntriesOn(rows', a, s)
                 = EntriesOn(rows, a, s) \cup {<<r, i>> : i \in Book!LinesOn(draft[r], a, s)}
    <3>1. LinesOn(draft[r], a, s) = Book!LinesOn(draft[r], a, s)
      BY DEF LinesOn, Book!LinesOn
    <3> DEFINE E == {<<r, i>> : i \in LinesOn(draft[r], a, s)}
    <3>2. ASSUME NEW e
          PROVE  e \in EntriesOn(rows', a, s) <=> e \in EntriesOn(rows, a, s) \/ e \in E
      <4>1. e \in EntriesOn(rows', a, s) <=>
              \E u \in Request : rows'[u] # NoRow /\ \E i \in LinesOn(rows'[u], a, s) : e = <<u, i>>
        BY DEF EntriesOn
      <4>2. e \in EntriesOn(rows, a, s) <=>
              \E u \in Request : rows[u] # NoRow /\ \E i \in LinesOn(rows[u], a, s) : e = <<u, i>>
        BY DEF EntriesOn
      <4>3. e \in E <=> \E i \in LinesOn(draft[r], a, s) : e = <<r, i>>
        OBVIOUS
      <4> QED BY <1>1, <1>2, <4>1, <4>2, <4>3, Zenon
    <3> HIDE DEF E
    <3>3. EntriesOn(rows', a, s) = EntriesOn(rows, a, s) \cup E
      BY <3>2
    <3> QED BY <3>1, <3>3 DEF E
  <2>3. cache[a].DEBIT = EntriesOn(rows, a, "DEBIT") /\ cache[a].CREDIT = EntriesOn(rows, a, "CREDIT")
    BY <2>1 DEF BalanceIn
  <2>4. EntriesOn(rows', a, "DEBIT")
          = cache[a].DEBIT \cup {<<r, i>> : i \in Book!LinesOn(draft[r], a, "DEBIT")}
    BY <2>2, <2>3 DEF Side
  <2>5. EntriesOn(rows', a, "CREDIT")
          = cache[a].CREDIT \cup {<<r, i>> : i \in Book!LinesOn(draft[r], a, "CREDIT")}
    BY <2>2, <2>3 DEF Side
  <2>6. cache'[a] = [DEBIT |-> EntriesOn(rows', a, "DEBIT"), CREDIT |-> EntriesOn(rows', a, "CREDIT")]
    BY <2>1 DEF BalanceIn
  <2> QED BY <2>4, <2>5, <2>6
<1> QED BY <1>3 DEF Book!Enter

LEMMA BookStep ==
    ASSUME Base, Checked, Summed, Summed', Keys, NEW r \in Request, Arrive(r) \/ Step(r) \/ Abort(r)
    PROVE  [Book!Next]_(Book!vars)
<1> USE DEF Base
<1>1. CASE UNCHANGED <<committed, found>>
  BY <1>1 DEF committed, Book!vars
<1>2. CASE Commit(r)
  <2>1. cache' = [a \in Account |-> cache'[a]] /\ cache = [a \in Account |-> cache[a]]
    BY <1>2 DEF Commit, TypeOK
  <2>2. CASE body[r].op = "reconcile"
    <3>1. rows' = rows /\ voided' = voided
      BY <1>2, <2>2, CommitWrites
    <3>2. \A a \in Account : cache'[a] = cache[a]
      BY <3>1 DEF Summed, CacheCoherent
    <3> QED BY <2>1, <3>1, <3>2 DEF Book!vars
  <2>3. CASE body[r].op \in {"post", "void"}
    <3>1. rows[r] = NoRow /\ draft[r] \in Row /\ rows' = [rows EXCEPT ![r] = draft[r]] /\ rows'[r] = draft[r]
      BY <1>2, <2>3, CommitWrites DEF TypeOK
    <3>2. Book!Enter(r, rows'[r])
      BY <2>1, <3>1, CommitEnters
    <3>3. CASE body[r].op = "post"
      <4>1. draft[r].reversalOf = NoTxn /\ voided' = voided
        <5>1. draft[r] = RowOf(body[r]) /\ voided' = voided
          BY <1>2, <3>3, CommitWrites
        <5>2. RowOf(body[r]).reversalOf = NoTxn
          BY DEF RowOf
        <5> QED BY <5>1, <5>2
      <4>2. Book!KeyFree(draft[r].key)
        <5>1. draft[r] # NoRow
          BY <3>1, DataAssumption
        <5> QED BY <5>1 DEF Book!KeyFree, Book!Written, Keys, DraftKeysFree, Posted
      <4>3. Book!Post(r, rows'[r])
        BY <3>1, <3>2, <4>1, <4>2 DEF Book!Post
      <4> QED BY <3>1, <4>3 DEF Book!Next
    <3>4. CASE body[r].op = "void"
      <4> DEFINE o == body[r].target
      <4>1. /\ o \in Posted \ voided /\ rows[o].business = body[r].business
            /\ rows[o].reversalOf = NoTxn /\ ~OwnedByAFeature(o)
            /\ draft[r] = ReversalOf(o, body[r].business) /\ voided' = voided \cup {o}
        BY <1>2, <3>4, CommitWrites
      <4>2. Book!Mirrors(draft[r].lines, rows[o].lines)
        BY <4>1, MirrorMirrors
      <4>3. draft[r].reversalOf = o /\ draft[r].business = rows[o].business /\ draft[r].key = NoKey
        BY <4>1 DEF ReversalOf
      <4>4. Book!Void(r, rows'[r], o)
        BY <3>1, <3>2, <4>1, <4>2, <4>3 DEF Book!Void, Book!Written, Posted, OwnedByAFeature
      <4>5. o \in Request
        BY <4>1 DEF Posted
      <4> QED BY <3>1, <4>4, <4>5 DEF Book!Next
    <3> QED BY <2>3, <3>3, <3>4
  <2> QED BY <2>2, <2>3, BodyTyped
<1> QED BY <1>1, <1>2, Frame

(* The concurrent ledger, with its locks, lookups, claims and              *)
(* recalculations, behaves like a book of atomic postings and voids.       *)
THEOREM LedgerImplementsBook == Spec => BookSpec
<1>1. Init => Book!Init
  BY DEF Init, Book!Init, NoBalance, Book!NoBalance
<1>2. Base /\ Checked /\ Summed /\ Summed' /\ Keys /\ [Next]_vars => [Book!Next]_(Book!vars)
  <2> SUFFICES ASSUME Base, Checked, Summed, Summed', Keys, [Next]_vars
               PROVE  [Book!Next]_(Book!vars)
    OBVIOUS
  <2>1. CASE UNCHANGED vars
    BY <2>1 DEF vars, Book!vars
  <2> QED BY <2>1, BookStep DEF Next
<1> QED BY <1>1, <1>2, BaseInvariant, CheckedInvariant, SumsInvariant, KeysInvariant, PTL
        DEF Spec, BookSpec, Book!Spec

(***************************************************************************)
(* Waiting.                                                                *)
(***************************************************************************)

(* A request that others wait for without holding a lock they want is      *)
(* writing, and waits for nobody.                                          *)
LEMMA WritersDoNotWait ==
    ASSUME Base, Checked, NEW r \in Request, NEW q \in Request, WaitsFor(r, q)
    PROVE  \/ pc[q] \in {"debits", "credits"}
           \/ \E l \in Lock : WaitsForLock(r, l) /\ holder[l] = q
<1> USE DEF Base
<1>1. CASE InsertWaitsFor(r, q)
  BY <1>1 DEF InsertWaitsFor, LocalOK, RecordOK
<1>2. CASE pc[r] = "claim" /\ claim[q] = body[r].target
  <2>1. body[r].target \in Request
    BY <1>2 DEF Checked, CheckedAt, VoidAt, LocalOK, PlaceOK, Posted
  <2>2. claim[q] # NoTxn
    BY <1>2, <2>1, DataAssumption
  <2> QED BY <2>2, BodyTyped DEF Checked, CheckedAt, PostAt, VoidAt, IdleAt
<1> QED BY <1>1, <1>2 DEF WaitsFor

(* Whoever waits for a lock holds only smaller ones.                       *)
LEMMA WaitingAboveHeld ==
    ASSUME Base, Ordered, NEW q \in Request, NEW l \in Lock, NEW m \in Lock,
           WaitsForLock(q, m), holder[l] = q
    PROVE  l < m
<1>1. l \in Held(q)
  BY DEF Held
<1>2. CASE pc[q] = "keys" /\ LowestWaiting(body[q].keys, q, m)
  BY <1>1, <1>2 DEF Ordered, OrderedAt, LowestWaiting
<1>3. CASE pc[q] = "rows" /\ LowestWaiting(need[q], q, m)
  BY <1>1, <1>3 DEF Ordered, OrderedAt, LowestWaiting
<1> QED BY <1>2, <1>3 DEF WaitsForLock

(* Of any set of requests, one waits for none of the others: over advisory *)
(* locks, row locks, the unique index and the claim of a void together,    *)
(* nobody waits in a cycle.                                                *)
THEOREM NobodyWaitsInACycle == Spec => []NoWaitCycle
<1>1. Base /\ Checked /\ Ordered => NoWaitCycle
  <2> SUFFICES ASSUME Base, Checked, Ordered, NEW S \in SUBSET Request, S # {},
                      \A r \in S : \E q \in S : WaitsFor(r, q)
               PROVE  FALSE
    BY DEF NoWaitCycle
  <2>1. \A q \in S : pc[q] \in {"keys", "rows", "insert", "claim"}
    BY DEF WaitsFor, WaitsForLock, InsertWaitsFor
  <2>2. ASSUME NEW r \in S
        PROVE  \E l \in Lock, q \in S : WaitsForLock(r, l) /\ holder[l] = q
    BY <2>1, WritersDoNotWait
  <2> DEFINE Wanted == {l \in Lock : \E r \in S : WaitsForLock(r, l) /\ holder[l] \in S}
  <2>3. Wanted # {} /\ Wanted \subseteq Lock
    BY <2>2
  <2>4. Lock \subseteq Nat /\ IsFiniteSet(Lock)
    BY LockAssumption, FS_Union DEF Lock
  <2>5. Wanted \subseteq Nat /\ IsFiniteSet(Wanted)
    BY <2>3, <2>4, FS_Subset
  <2> HIDE DEF Wanted
  <2>6. PICK l \in Wanted : \A n \in Wanted : n <= l
    BY <2>3, <2>5, LargestOf
  <2>7. l \in Lock /\ holder[l] \in S
    BY <2>6 DEF Wanted
  <2>8. PICK m \in Lock : WaitsForLock(holder[l], m) /\ holder[m] \in S
    BY <2>2, <2>7
  <2>9. m \in Wanted
    BY <2>7, <2>8 DEF Wanted
  <2>10. l < m
    BY <2>7, <2>8, WaitingAboveHeld
  <2> QED BY <2>4, <2>6, <2>7, <2>9, <2>10
<1> QED BY <1>1, BaseInvariant, CheckedInvariant, OrderedInvariant, PTL

(***************************************************************************)
(* Answers.                                                                *)
(***************************************************************************)

(* A post that was answered with a transaction was answered with one of    *)
(* its own key and workspace.                                              *)
AnsweredAt(r) ==
    body[r].op = "post" /\ Succeeded(r) =>
        /\ answer[r].txn \in Posted
        /\ rows[answer[r].txn].business = body[r].business
        /\ rows[answer[r].txn].key = body[r].key

Answered == \A r \in Request : AnsweredAt(r)

LEMMA AnsweredStep ==
    ASSUME Base, Checked, Answered, NEW r \in Request, Arrive(r) \/ Step(r) \/ Abort(r)
    PROVE  Answered'
<1> USE DEF Base
<1>1. body' = body /\ \A t \in Posted : t \in Posted' /\ rows'[t] = rows[t]
  BY Frame, RowsPersist
<1>2. ASSUME NEW q \in Request, answer'[q] = answer[q] PROVE AnsweredAt(q)'
  BY <1>1, <1>2 DEF Answered, AnsweredAt, Succeeded
<1>3. \A q \in Request \ {r} : AnsweredAt(q)'
  BY <1>2, Frame DEF SameAt
<1>0. SUFFICES AnsweredAt(r)'
  BY <1>3 DEF Answered
<1>4. ASSUME NEW kind \in {"conflict", "rejected", "reconciled", "failed"}, NEW t,
             Finish(r, kind, t)
      PROVE  AnsweredAt(r)'
  <2>1. answer'[r].kind = kind
    BY <1>4 DEF Finish, TypeOK
  <2> QED BY <2>1 DEF AnsweredAt, Succeeded
<1>5. ASSUME AnswerFromKey(r) PROVE AnsweredAt(r)'
  <2>1. PICK t \in WithKey(body[r].key) :
          Finish(r, IF rows[t].business = body[r].business THEN "existing" ELSE "conflict",
                 IF rows[t].business = body[r].business THEN t ELSE NoTxn)
    BY <1>5 DEF AnswerFromKey
  <2>2. CASE rows[t].business = body[r].business
    <3>1. answer'[r].txn = t
      BY <2>1, <2>2 DEF Finish, TypeOK
    <3>2. t \in Posted /\ rows[t].key = body[r].key
      BY DEF WithKey
    <3> QED BY <1>1, <2>2, <3>1, <3>2 DEF AnsweredAt
  <2>3. CASE rows[t].business # body[r].business
    BY <1>4, <2>1, <2>3
  <2> QED BY <2>2, <2>3
<1>6. CASE Commit(r)
  <2>1. CASE body[r].op = "post"
    <3>1. rows' = [rows EXCEPT ![r] = draft[r]] /\ draft[r] = RowOf(body[r]) /\ draft[r] \in Row
      BY <1>6, <2>1, CommitWrites
    <3>2. rows'[r] = RowOf(body[r]) /\ r \in Posted'
      BY <3>1, DataAssumption DEF Posted, TypeOK
    <3>3. answer'[r].txn = r
      BY <1>6, <2>1 DEF Commit, TypeOK
    <3> QED BY <1>1, <3>2, <3>3 DEF AnsweredAt, RowOf
  <2>2. CASE body[r].op # "post"
    BY <1>1, <2>2 DEF AnsweredAt
  <2> QED BY <2>1, <2>2
<1>7. CASE Lookup(r) \/ Fallback(r)
  BY <1>2, <1>5, <1>7 DEF Lookup, Fallback
<1>8. CASE Validate(r) \/ ReadOriginal(r) \/ Claim(r) \/ Visit(r) \/ Abort(r)
  BY <1>2, <1>4, <1>8 DEF Validate, ReadOriginal, Claim, Visit, Abort
<1>9. CASE Arrive(r) \/ TakeKey(r) \/ TakeRow(r) \/ Insert(r) \/ LoseKey(r)
           \/ SumDebits(r) \/ SumCredits(r)
  BY <1>2, <1>9 DEF Arrive, TakeKey, TakeRow, Insert, LoseKey, SumDebits, SumCredits
<1> QED BY <1>6, <1>7, <1>8, <1>9 DEF Step

LEMMA AnsweredInvariant == Spec => []Answered
<1>1. Init => Answered
  BY DEF Init, Answered, AnsweredAt, Succeeded
<1>2. Base /\ Checked /\ Answered /\ [Next]_vars => Answered'
  <2> SUFFICES ASSUME Base, Checked, Answered, [Next]_vars PROVE Answered'
    OBVIOUS
  <2>1. CASE UNCHANGED vars
    BY <2>1 DEF vars, Answered, AnsweredAt, Succeeded, Posted
  <2> QED BY <2>1, AnsweredStep DEF Next
<1> QED BY <1>1, <1>2, BaseInvariant, CheckedInvariant, PTL DEF Spec

(* Everyone who posts with a key and succeeds is told of one and the same  *)
(* transaction, of his own workspace.                                      *)
THEOREM RetriesGetOneAnswer == Spec => []RetriesAgree
<1>1. Answered /\ OneTransactionPerKey => RetriesAgree
  <2> SUFFICES ASSUME Answered, OneTransactionPerKey PROVE RetriesAgree
    OBVIOUS
  <2>1. ASSUME NEW r \in Request, NEW q \in Request,
               body[r].op = "post", Succeeded(r), HasKey(r),
               body[q].op = "post", Succeeded(q), body[q].key = body[r].key
        PROVE  answer[q].txn = answer[r].txn
    BY <2>1 DEF Answered, AnsweredAt, OneTransactionPerKey, HasKey
  <2> QED BY <2>1 DEF Answered, AnsweredAt, RetriesAgree
<1> QED BY <1>1, AnsweredInvariant, KeysUsedOnce, PTL
=============================================================================
