------------------------------- MODULE Ledger -------------------------------
(***************************************************************************)
(* The double-entry ledger: TransactionsService (post and void) and the    *)
(* part of AccountBalanceService that maintains the cached balances.       *)
(*                                                                         *)
(* Every HTTP request is a process.  It runs one PostgreSQL transaction at *)
(* READ COMMITTED, the default the code never overrides: a statement sees  *)
(* every row committed before it started and the rows of its own           *)
(* transaction, and one action below is one statement (or a group of       *)
(* statements no other process can tell apart).  The rows a request has    *)
(* written but not committed are kept apart (draft, claim, fresh) and are  *)
(* applied by Commit or thrown away by Abort.                              *)
(*                                                                         *)
(* A request inserts at most one Transaction row, so the row is named      *)
(* after the request; a client that retries sends a new request with the   *)
(* same idempotency key.  A balance is kept as the entries it sums, not as *)
(* the sum, which tells apart more than the number does; Total adds them   *)
(* up.                                                                     *)
(***************************************************************************)
EXTENDS Sequences, FiniteSets, Sums

CONSTANTS
    Request,         \* the HTTP requests the system receives
    Business,        \* workspaces
    Account,         \* ids of Account rows, ordered as the ids sort
    AdvisoryKey,     \* keys of withLocks, ordered as they are sorted
    Key,             \* client-generated idempotency keys
    Contact,
    AccountBusiness, \* the workspace of each account
    ContactBusiness, \* the workspace of each contact
    ReferralBonus,   \* the accounts of subtype REFERRAL_BONUS_INCOME
    Body,            \* what a request may ask for
    NoRow, NoTxn, NoKey, NoContact, Free

Side == {"DEBIT", "CREDIT"}
Lock == AdvisoryKey \cup Account

(* One element of dto.entries.  The DTO bounds the amount's shape only, so *)
(* an id may name no account and an amount may be zero or negative.        *)
Line == [account : Nat, side : Side, amount : Int]

PostBody == [op : {"post"}, business : Business, key : Key \cup {NoKey},
             lines : Seq(Line), contact : Contact \cup {NoContact},
             appliedTo : Request \cup {NoTxn}, keys : SUBSET AdvisoryKey,
             owned : BOOLEAN]
VoidBody == [op : {"void"}, business : Business, target : Request]
ReconcileBody == [op : {"reconcile"}, business : Business]

(* The columns of a Transaction row the ledger reads back, with its        *)
(* entries.  "owned": a savings-goal entry or an asset row that names this *)
(* transaction was written in the same database transaction.               *)
Row == [business : Business, key : Key \cup {NoKey}, lines : Seq(Line),
        contact : Contact \cup {NoContact}, appliedTo : Request \cup {NoTxn},
        reversalOf : Request \cup {NoTxn}, owned : BOOLEAN]

(* withLocks takes its keys before any row is locked, hence the numbering: *)
(* every advisory key is below every account.  Keys are 64-bit hashes and  *)
(* accounts the rows of a table: there are finitely many of each.          *)
ASSUME LockAssumption ==
    /\ AdvisoryKey \subseteq Nat
    /\ Account \subseteq Nat
    /\ IsFiniteSet(AdvisoryKey)
    /\ IsFiniteSet(Account)
    /\ \A k \in AdvisoryKey, a \in Account : k < a
    /\ Free \notin Request

ASSUME DataAssumption ==
    /\ NoTxn \notin Request
    /\ NoKey \notin Key
    /\ NoContact \notin Contact
    /\ NoRow \notin Row
    /\ AccountBusiness \in [Account -> Business]
    /\ ContactBusiness \in [Contact -> Business]
    /\ ReferralBonus \subseteq Account

(* Only POST /transactions passes an idempotency key, and only a feature   *)
(* working under withLocks writes a record that owns the posting.          *)
ASSUME BodyAssumption ==
    \A b \in Body :
        \/ b \in VoidBody \/ b \in ReconcileBody
        \/ /\ b \in PostBody
           /\ b.keys # {} => b.key = NoKey
           /\ b.owned => b.keys # {}

VARIABLES
    rows,    \* committed Transaction rows (with entries), by request
    voided,  \* committed rows whose status is VOIDED
    cache,   \* committed Account.currentBalance
    body,    \* what each request asks for
    pc,      \* where each request is
    holder,  \* the database transaction that holds each lock
    need,    \* accounts the current database transaction locks
    draft,   \* uncommitted Transaction row
    claim,   \* uncommitted update to VOIDED
    todo,    \* accounts still to recalculate in this database transaction
    cur,     \* the account recalculateBalance is working on
    debits,  \* the debit aggregate it has read
    fresh,   \* uncommitted currentBalance of each account
    left,    \* reconcile: the accounts still to visit
    seen,    \* reconcile: the cached balance read before recalculating
    found,   \* reconcile: the accounts reported as discrepancies
    answer   \* what the caller is told

committed == <<rows, voided, cache>>
locks     == <<holder, need>>
work      == <<todo, cur, debits, fresh>>
audit     == <<left, seen, found>>
vars == <<rows, voided, cache, body, pc, holder, need, draft, claim, todo,
          cur, debits, fresh, left, seen, found, answer>>

Posted == {t \in Request : rows[t] # NoRow}

(* A balance: the entries summed on each side, an entry being a row and    *)
(* the position of a line in it.                                           *)
Entry == Request \X Nat
Balance == [DEBIT : SUBSET Entry, CREDIT : SUBSET Entry]

LinesOn(row, a, s) ==
    {i \in DOMAIN row.lines : row.lines[i].account = a /\ row.lines[i].side = s}

(* Bug: the sum leaves out VOIDED rows but keeps their reversals.          *)
EntriesOnPosted(table, a, s) ==
    UNION {{<<t, i>> : i \in LinesOn(table[t], a, s)} :
             t \in {u \in Request : table[u] # NoRow /\ u \notin voided
                                     /\ \A q \in Request : claim[q] # u}}

EntriesOn(table, a, s) ==
    UNION {{<<t, i>> : i \in LinesOn(table[t], a, s)} :
             t \in {u \in Request : table[u] # NoRow}}

BalanceIn(table, a) ==
    [DEBIT |-> EntriesOn(table, a, "DEBIT"), CREDIT |-> EntriesOn(table, a, "CREDIT")]

(* What a statement of r sees: the committed rows and r's own.             *)
Visible(r) == [rows EXCEPT ![r] = IF draft[r] = NoRow THEN @ ELSE draft[r]]

AccountsOf(lines) == {lines[i].account : i \in DOMAIN lines}

Held(r) == {l \in Lock : holder[l] = r}

NoBalance == [DEBIT |-> {}, CREDIT |-> {}]

Init ==
    /\ rows = [t \in Request |-> NoRow]
    /\ voided = {}
    /\ cache = [a \in Account |-> NoBalance]
    /\ body \in [Request -> Body]
    /\ pc = [r \in Request |-> "idle"]
    /\ holder = [l \in Lock |-> Free]
    /\ need = [r \in Request |-> {}]
    /\ draft = [r \in Request |-> NoRow]
    /\ claim = [r \in Request |-> NoTxn]
    /\ todo = [r \in Request |-> {}]
    /\ cur = [r \in Request |-> {}]
    /\ debits = [r \in Request |-> {}]
    /\ fresh = [r \in Request |-> [a \in Account |-> NoBalance]]
    /\ left = [r \in Request |-> {}]
    /\ seen = [r \in Request |-> NoBalance]
    /\ found = {}
    /\ answer = [r \in Request |-> [kind |-> "none", txn |-> NoTxn]]

Goto(r, l) == pc' = [pc EXCEPT ![r] = l]

(* Bug: session-level advisory locks, which outlive the transaction.       *)
EndTransactionKeepsKeys(r) ==
    /\ holder' = [l \in Lock |-> IF holder[l] = r /\ l \in Account THEN Free ELSE holder[l]]
    /\ draft' = [draft EXCEPT ![r] = NoRow]
    /\ claim' = [claim EXCEPT ![r] = NoTxn]
    /\ need' = [need EXCEPT ![r] = {}]
    /\ todo' = [todo EXCEPT ![r] = {}]
    /\ cur' = [cur EXCEPT ![r] = {}]
    /\ debits' = [debits EXCEPT ![r] = {}]
    /\ fresh' = [fresh EXCEPT ![r] = [a \in Account |-> NoBalance]]
    /\ seen' = [seen EXCEPT ![r] = NoBalance]

(* The database transaction of r ends: its locks are released and its      *)
(* variables are forgotten.                                                *)
EndTransaction(r) ==
    /\ holder' = [l \in Lock |-> IF holder[l] = r THEN Free ELSE holder[l]]
    /\ draft' = [draft EXCEPT ![r] = NoRow]
    /\ claim' = [claim EXCEPT ![r] = NoTxn]
    /\ need' = [need EXCEPT ![r] = {}]
    /\ todo' = [todo EXCEPT ![r] = {}]
    /\ cur' = [cur EXCEPT ![r] = {}]
    /\ debits' = [debits EXCEPT ![r] = {}]
    /\ fresh' = [fresh EXCEPT ![r] = [a \in Account |-> NoBalance]]
    /\ seen' = [seen EXCEPT ![r] = NoBalance]

(* An exception leaves the transaction callback: rollback and the answer.  *)
Finish(r, kind, t) ==
    /\ EndTransaction(r)
    /\ Goto(r, "done")
    /\ answer' = [answer EXCEPT ![r] = [kind |-> kind, txn |-> t]]
    /\ left' = [left EXCEPT ![r] = {}]
    /\ UNCHANGED <<committed, body, found>>

(***************************************************************************)
(* Arrival, and the advisory locks of withLocks, taken one at a time in    *)
(* sorted order before the posting starts.                                 *)
(***************************************************************************)
Arrive(r) ==
    /\ pc[r] = "idle"
    /\ Goto(r, CASE body[r].op = "post" -> IF body[r].keys = {} THEN "lookup" ELSE "keys"
                 [] body[r].op = "void" -> "read"
                 [] body[r].op = "reconcile" -> "visit")
    /\ left' = [left EXCEPT ![r] =
                  IF body[r].op = "reconcile"
                  THEN {a \in Account : AccountBusiness[a] = body[r].business}
                  ELSE {}]
    /\ UNCHANGED <<committed, body, locks, draft, claim, work, seen, found, answer>>

Waiting(wanted, r) == wanted \ Held(r)

(* Bug: locks are taken in the order of the dto's entries.                 *)
FirstWaiting(wanted, r, l) ==
    /\ l \in Waiting(wanted, r)
    /\ IF body[r].op = "post" /\ wanted \subseteq Account
       THEN \E i \in DOMAIN body[r].lines :
              /\ body[r].lines[i].account = l
              /\ \A j \in 1 .. i - 1 : body[r].lines[j].account \notin Waiting(wanted, r)
       ELSE \A m \in Waiting(wanted, r) : l <= m

LowestWaiting(wanted, r, l) ==
    /\ l \in Waiting(wanted, r)
    /\ \A m \in Waiting(wanted, r) : l <= m

TakeKey(r) ==
    /\ pc[r] = "keys"
    /\ \E l \in AdvisoryKey :
        /\ LowestWaiting(body[r].keys, r, l)
        /\ holder[l] = Free
        /\ holder' = [holder EXCEPT ![l] = r]
        /\ Goto(r, IF Waiting(body[r].keys, r) = {l} THEN "lookup" ELSE "keys")
    /\ UNCHANGED <<committed, body, need, draft, claim, work, audit, answer>>

(* Bug: lockAccounts is not called.                                        *)
TakeNoRow(r) ==
    /\ pc[r] = "rows"
    /\ Goto(r, IF body[r].op = "post" THEN "insert" ELSE "claim")
    /\ UNCHANGED <<committed, body, locks, draft, claim, work, audit, answer>>

(* lockAccounts: SELECT ... ORDER BY id FOR UPDATE locks row after row.    *)
TakeRow(r) ==
    /\ pc[r] = "rows"
    /\ \E a \in Account :
        /\ LowestWaiting(need[r], r, a)
        /\ holder[a] = Free
        /\ holder' = [holder EXCEPT ![a] = r]
        /\ Goto(r, IF Waiting(need[r], r) # {a} THEN "rows"
                   ELSE IF body[r].op = "post" THEN "insert" ELSE "claim")
    /\ UNCHANGED <<committed, body, need, draft, claim, work, audit, answer>>

(***************************************************************************)
(* post()                                                                  *)
(***************************************************************************)
HasKey(r) == body[r].key # NoKey

WithKey(k) == {t \in Posted : rows[t].key = k}

(* Bug: the existing row is returned whatever its workspace.               *)
AnswerFromAnyKey(r) ==
    \E t \in WithKey(body[r].key) : Finish(r, "existing", t)

(* The idempotency check: another workspace's row is a conflict, this      *)
(* workspace's own is the answer.                                          *)
AnswerFromKey(r) ==
    \E t \in WithKey(body[r].key) :
        Finish(r, IF rows[t].business = body[r].business THEN "existing" ELSE "conflict",
               IF rows[t].business = body[r].business THEN t ELSE NoTxn)

Lookup(r) ==
    /\ pc[r] = "lookup"
    /\ \/ HasKey(r) /\ AnswerFromKey(r)
       \/ /\ HasKey(r) => WithKey(body[r].key) = {}
          /\ Goto(r, "validate")
          /\ UNCHANGED <<committed, body, locks, draft, claim, work, audit, answer>>

ValidEntryShape(lines) ==
    /\ Len(lines) >= 2
    /\ \A i \in DOMAIN lines : lines[i].amount > 0

AccountsBelong(lines, biz) ==
    \A a \in AccountsOf(lines) : a \in Account /\ AccountBusiness[a] = biz

LinksBelong(b) ==
    /\ b.contact # NoContact => ContactBusiness[b.contact] = b.business
    /\ b.appliedTo # NoTxn =>
        /\ b.appliedTo \in Posted
        /\ rows[b.appliedTo].business = b.business
        /\ b.contact # NoContact => rows[b.appliedTo].contact = b.contact

SumOf(lines, s) ==
    SumOver([i \in DOMAIN lines |-> lines[i].amount], {i \in DOMAIN lines : lines[i].side = s})

Balanced(lines) == SumOf(lines, "DEBIT") = SumOf(lines, "CREDIT")

Acceptable(b) ==
    /\ ValidEntryShape(b.lines)
    /\ AccountsBelong(b.lines, b.business)
    /\ LinksBelong(b)
    /\ Balanced(b.lines)

Validate(r) ==
    /\ pc[r] = "validate"
    /\ \/ /\ Acceptable(body[r])
          /\ need' = [need EXCEPT ![r] = AccountsOf(body[r].lines)]
          /\ Goto(r, "rows")
          /\ UNCHANGED <<committed, body, holder, draft, claim, work, audit, answer>>
       \/ ~Acceptable(body[r]) /\ Finish(r, "rejected", NoTxn)

RowOf(b) ==
    [business |-> b.business, key |-> b.key, lines |-> b.lines, contact |-> b.contact,
     appliedTo |-> b.appliedTo, reversalOf |-> NoTxn, owned |-> b.owned]

(* The unique index on idempotencyKey: an insert waits for an uncommitted  *)
(* row with the same key.                                                  *)
InsertWaitsFor(r, q) ==
    /\ pc[r] = "insert"
    /\ q # r
    /\ HasKey(r)
    /\ draft[q] # NoRow
    /\ draft[q].key = body[r].key

(* Bug: no unique index on idempotencyKey.                                 *)
KeyNeverTaken(r) == FALSE

KeyTaken(r) == HasKey(r) /\ WithKey(body[r].key) # {}

Insert(r) ==
    /\ pc[r] = "insert"
    /\ \A q \in Request : ~InsertWaitsFor(r, q)
    /\ ~KeyTaken(r)
    /\ draft' = [draft EXCEPT ![r] = RowOf(body[r])]
    /\ todo' = [todo EXCEPT ![r] = need[r]]
    /\ Goto(r, "debits")
    /\ UNCHANGED <<committed, body, locks, claim, cur, debits, fresh, audit, answer>>

(* Bug: an insert with a key in use fails at once instead of waiting for   *)
(* the transaction that uses it.                                           *)
LoseKeyAtOnce(r) ==
    /\ pc[r] = "insert"
    /\ KeyTaken(r) \/ \E q \in Request : InsertWaitsFor(r, q)
    /\ EndTransaction(r)
    /\ Goto(r, "fallback")
    /\ UNCHANGED <<committed, body, left, found, answer>>

(* P2002: the transaction is rolled back; createTransaction catches it and *)
(* posts again outside a transaction.                                      *)
LoseKey(r) ==
    /\ pc[r] = "insert"
    /\ \A q \in Request : ~InsertWaitsFor(r, q)
    /\ KeyTaken(r)
    /\ EndTransaction(r)
    /\ Goto(r, "fallback")
    /\ UNCHANGED <<committed, body, left, found, answer>>

(* post(this.prisma, ...) after P2002: the lookup is its first statement.  *)
Fallback(r) ==
    /\ pc[r] = "fallback"
    /\ AnswerFromKey(r)

(***************************************************************************)
(* voidTransaction()                                                       *)
(***************************************************************************)
OwnedByAFeature(t) ==
    rows[t].owned \/ AccountsOf(rows[t].lines) \cap ReferralBonus # {}

(* Bug: a reversal may be voided.                                          *)
VoidableAgain(t, biz) ==
    /\ t \in Posted
    /\ rows[t].business = biz
    /\ t \notin voided
    /\ ~OwnedByAFeature(t)

Voidable(t, biz) ==
    /\ t \in Posted
    /\ rows[t].business = biz
    /\ rows[t].reversalOf = NoTxn
    /\ t \notin voided
    /\ ~OwnedByAFeature(t)

ReadOriginal(r) ==
    /\ pc[r] = "read"
    /\ \/ /\ Voidable(body[r].target, body[r].business)
          /\ need' = [need EXCEPT ![r] = AccountsOf(rows[body[r].target].lines)]
          /\ Goto(r, "rows")
          /\ UNCHANGED <<committed, body, holder, draft, claim, work, audit, answer>>
       \/ ~Voidable(body[r].target, body[r].business) /\ Finish(r, "rejected", NoTxn)

(* Bug: the reversal repeats the original.                                 *)
FlipNot(s) == s

Flip(s) == IF s = "DEBIT" THEN "CREDIT" ELSE "DEBIT"

Mirror(lines) == [i \in DOMAIN lines |-> [lines[i] EXCEPT !.side = Flip(@)]]

ReversalOf(t, biz) ==
    [business |-> biz, key |-> NoKey, lines |-> Mirror(rows[t].lines),
     contact |-> rows[t].contact, appliedTo |-> NoTxn, reversalOf |-> t, owned |-> FALSE]

(* Bug: UPDATE ... WHERE id = only.                                        *)
AnyStatus(t) == TRUE

(* UPDATE ... WHERE status = 'POSTED' counts the row or not.               *)
StillPosted(t) == t \notin voided

(* The claim and the insertion of the reversal.  The update waits for      *)
(* another transaction's uncommitted update of the same row.               *)
Claim(r) ==
    LET t == body[r].target
    IN  /\ pc[r] = "claim"
        /\ \A q \in Request : claim[q] # t
        /\ \/ /\ StillPosted(t)
              /\ claim' = [claim EXCEPT ![r] = t]
              /\ draft' = [draft EXCEPT ![r] = ReversalOf(t, body[r].business)]
              /\ todo' = [todo EXCEPT ![r] = need[r]]
              /\ Goto(r, "debits")
              /\ UNCHANGED <<committed, body, locks, cur, debits, fresh, audit, answer>>
           \/ ~StillPosted(t) /\ Finish(r, "rejected", NoTxn)

(***************************************************************************)
(* recalculateBalance(), for each account of the transaction: the debit    *)
(* aggregate, then the credit aggregate and the update.                    *)
(***************************************************************************)
SumDebits(r) ==
    /\ pc[r] = "debits"
    /\ \E a \in todo[r] :
        /\ cur' = [cur EXCEPT ![r] = {a}]
        /\ debits' = [debits EXCEPT ![r] = EntriesOn(Visible(r), a, "DEBIT")]
    /\ Goto(r, "credits")
    /\ UNCHANGED <<committed, body, locks, draft, claim, todo, fresh, audit, answer>>

SumCredits(r) ==
    /\ pc[r] = "credits"
    /\ \E a \in cur[r] :
        /\ fresh' = [fresh EXCEPT ![r][a] =
              [DEBIT |-> debits[r], CREDIT |-> EntriesOn(Visible(r), a, "CREDIT")]]
        /\ todo' = [todo EXCEPT ![r] = @ \ {a}]
    /\ cur' = [cur EXCEPT ![r] = {}]
    /\ Goto(r, "debits")
    /\ UNCHANGED <<committed, body, locks, draft, claim, debits, audit, answer>>

(* Bug: the voided original is deleted.                                    *)
CommitAndDelete(r) ==
    /\ pc[r] = "debits"
    /\ todo[r] = {}
    /\ rows' = [t \in Request |-> IF t = claim[r] THEN NoRow ELSE Visible(r)[t]]
    /\ voided' = voided \cup ({claim[r]} \ {NoTxn})
    /\ cache' = [a \in Account |-> IF a \in need[r] THEN fresh[r][a] ELSE cache[a]]
    /\ EndTransaction(r)
    /\ found' = found
    /\ IF body[r].op = "reconcile"
       THEN Goto(r, "visit") /\ UNCHANGED answer
       ELSE /\ Goto(r, "done")
            /\ answer' = [answer EXCEPT ![r] = [kind |-> "posted", txn |-> r]]
    /\ UNCHANGED <<body, left>>

(* The database transaction commits: everything it wrote at once.          *)
Commit(r) ==
    /\ pc[r] = "debits"
    /\ todo[r] = {}
    /\ rows' = Visible(r)
    /\ voided' = voided \cup ({claim[r]} \ {NoTxn})
    /\ cache' = [a \in Account |-> IF a \in need[r] THEN fresh[r][a] ELSE cache[a]]
    /\ EndTransaction(r)
    /\ found' = found \cup {a \in need[r] : body[r].op = "reconcile" /\ seen[r] # fresh[r][a]}
    /\ IF body[r].op = "reconcile"
       THEN Goto(r, "visit") /\ UNCHANGED answer
       ELSE /\ Goto(r, "done")
            /\ answer' = [answer EXCEPT ![r] = [kind |-> "posted", txn |-> r]]
    /\ UNCHANGED <<body, left>>

(* Bug: reconcile reads and rewrites the balance without the row lock.     *)
VisitUnlocked(r) ==
    /\ pc[r] = "visit"
    /\ \/ \E a \in left[r] :
            /\ need' = [need EXCEPT ![r] = {a}]
            /\ todo' = [todo EXCEPT ![r] = {a}]
            /\ left' = [left EXCEPT ![r] = @ \ {a}]
            /\ seen' = [seen EXCEPT ![r] = cache[a]]
            /\ Goto(r, "debits")
            /\ UNCHANGED <<committed, body, holder, draft, claim, cur, debits, fresh, found, answer>>
       \/ left[r] = {} /\ Finish(r, "reconciled", NoTxn)

(***************************************************************************)
(* reconcileWorkspace(): one database transaction per account.             *)
(***************************************************************************)
Visit(r) ==
    /\ pc[r] = "visit"
    /\ \/ \E a \in left[r] :
            /\ holder[a] = Free
            /\ holder' = [holder EXCEPT ![a] = r]
            /\ need' = [need EXCEPT ![r] = {a}]
            /\ todo' = [todo EXCEPT ![r] = {a}]
            /\ left' = [left EXCEPT ![r] = @ \ {a}]
            /\ seen' = [seen EXCEPT ![r] = cache[a]]
            /\ Goto(r, "debits")
            /\ UNCHANGED <<committed, body, draft, claim, cur, debits, fresh, found, answer>>
       \/ left[r] = {} /\ Finish(r, "reconciled", NoTxn)

(* A crash, a lost connection, or Prisma's time limit on an interactive    *)
(* transaction: the database rolls back and the caller gets an error.      *)
Abort(r) ==
    /\ pc[r] \notin {"idle", "done"}
    /\ Finish(r, "failed", NoTxn)

(* What the process and the database do of their own accord.               *)
Step(r) ==
    \/ TakeKey(r) \/ Lookup(r) \/ Validate(r) \/ TakeRow(r)
    \/ Insert(r) \/ LoseKey(r) \/ Fallback(r)
    \/ ReadOriginal(r) \/ Claim(r)
    \/ SumDebits(r) \/ SumCredits(r) \/ Commit(r) \/ Visit(r)

AllDone == \A r \in Request : pc[r] = "done"

Next ==
    \/ \E r \in Request : Arrive(r) \/ Step(r) \/ Abort(r)
    \/ AllDone /\ UNCHANGED vars

Spec == Init /\ [][Next]_vars

(* PostgreSQL grants a free lock to a waiter, a statement that runs ends,  *)
(* and the callback of the transaction goes on to the next one.            *)
FairSpec == Spec /\ \A r \in Request : WF_vars(Step(r))

(***************************************************************************)
(* Properties                                                              *)
(***************************************************************************)

(* Every variable holds a value of its kind.                               *)
TypeOK ==
    /\ rows \in [Request -> Row \cup {NoRow}]
    /\ voided \subseteq Request
    /\ cache \in [Account -> Balance]
    /\ body \in [Request -> Body]
    /\ pc \in [Request -> {"idle", "keys", "lookup", "validate", "rows", "insert",
                           "fallback", "read", "claim", "debits", "credits", "visit",
                           "done"}]
    /\ holder \in [Lock -> Request \cup {Free}]
    /\ need \in [Request -> SUBSET Account]
    /\ draft \in [Request -> Row \cup {NoRow}]
    /\ claim \in [Request -> Request \cup {NoTxn}]
    /\ todo \in [Request -> SUBSET Account]
    /\ cur \in [Request -> SUBSET Account]
    /\ debits \in [Request -> SUBSET Entry]
    /\ fresh \in [Request -> [Account -> Balance]]
    /\ left \in [Request -> SUBSET Account]
    /\ seen \in [Request -> Balance]
    /\ found \subseteq Account
    /\ answer \in [Request -> [kind : {"none", "posted", "existing", "conflict",
                                       "rejected", "reconciled", "failed"},
                               txn : Request \cup {NoTxn}]]

(* "the cached balance must never be visibly stale": after every commit,   *)
(* currentBalance sums exactly the committed entries of the account,       *)
(* whatever postings, voids and reconciliations ran at the same time.      *)
CacheCoherent == \A a \in Account : cache[a] = BalanceIn(rows, a)

(* reconcileWorkspace never reports an account: the balance it recomputes  *)
(* under the row lock is the cached one it read under the same lock.       *)
ReconcileFindsNothing == found = {}

(* A double click or a retry never posts twice: at most one committed      *)
(* transaction bears an idempotency key, even when two requests pass the   *)
(* lookup before either inserts.                                           *)
OneTransactionPerKey ==
    \A t, u \in Posted : rows[t].key # NoKey /\ rows[t].key = rows[u].key => t = u

Succeeded(r) == answer[r].kind \in {"posted", "existing"}

(* Whoever posts with a key is told of the one transaction that bears it,  *)
(* and never of another workspace's.                                       *)
RetriesAgree ==
    \A r \in Request : body[r].op = "post" /\ Succeeded(r) =>
        /\ answer[r].txn \in Posted
        /\ rows[answer[r].txn].business = body[r].business
        /\ rows[answer[r].txn].key = body[r].key
        /\ \A q \in Request :
            body[q].op = "post" /\ Succeeded(q) /\ HasKey(r) /\ body[q].key = body[r].key
              => answer[q].txn = answer[r].txn

(* The loser of the race for a key always finds the winner's row, so the   *)
(* posting outside a transaction ends at its lookup and never writes.      *)
FallbackFindsWinner ==
    \A r \in Request : pc[r] = "fallback" => WithKey(body[r].key) # {}

(* A transaction is VOIDED exactly when one, and only one, reversal of it  *)
(* is committed: of two concurrent voids one posts.                        *)
VoidedIffReversed ==
    /\ \A t \in Request : t \in voided <=> \E u \in Posted : rows[u].reversalOf = t
    /\ \A u, v \in Posted :
        rows[u].reversalOf # NoTxn /\ rows[u].reversalOf = rows[v].reversalOf => u = v

(* "a reversal can't itself be voided", nor can a posting a savings goal,  *)
(* an asset or a referral payout keeps its own record of.                  *)
VoidedRowsWereVoidable ==
    \A t \in voided :
        t \in Posted /\ rows[t].reversalOf = NoTxn /\ ~OwnedByAFeature(t)

(* A posting touches only accounts, contacts and invoices of its own       *)
(* workspace; so does a reversal.                                          *)
WorkspacesApart ==
    \A t \in Posted :
        /\ AccountsBelong(rows[t].lines, rows[t].business)
        /\ rows[t].contact # NoContact => ContactBusiness[rows[t].contact] = rows[t].business
        /\ rows[t].appliedTo # NoTxn =>
            /\ rows[t].appliedTo \in Posted
            /\ rows[rows[t].appliedTo].business = rows[t].business
        /\ rows[t].reversalOf # NoTxn => rows[rows[t].reversalOf].business = rows[t].business

(* What void and post refuse, no interleaving gets past: the records stay  *)
(* one reversal to a voided transaction, features' postings unvoided and   *)
(* every link within its workspace.                                        *)
RecordsSound == VoidedIffReversed /\ VoidedRowsWereVoidable /\ WorkspacesApart

(***************************************************************************)
(* Figures                                                                 *)
(***************************************************************************)
AmountOf(entries) == [e \in entries |-> rows[e[1]].lines[e[2]].amount]

Total(entries) == SumOver(AmountOf(entries), entries)

AccountsIn(biz) == {a \in Account : AccountBusiness[a] = biz}

Column(biz, s) == SumOver([a \in AccountsIn(biz) |-> Total(cache[a][s])], AccountsIn(biz))

(* The double entry holds for the cached balances themselves: over a       *)
(* workspace, at every instant, what they count as debits equals what they *)
(* count as credits.                                                       *)
TrialBalance == \A biz \in Business : Column(biz, "DEBIT") = Column(biz, "CREDIT")

Live(t) == t \in Posted \ voided /\ rows[t].reversalOf = NoTxn

LiveEntries(entries) == {e \in entries : Live(e[1])}

(* A void gives back exactly what the original took: a balance that sums   *)
(* every entry equals one that leaves out the voided rows and reversals,   *)
(* as the reports do.                                                      *)
VoidRestoresBalance ==
    \A a \in Account :
        Total(cache[a].DEBIT) - Total(cache[a].CREDIT)
          = Total(LiveEntries(cache[a].DEBIT)) - Total(LiveEntries(cache[a].CREDIT))

(* Both hold of the balances that readers find cached.                     *)
FiguresBalance == TrialBalance /\ VoidRestoresBalance

WaitsForLock(r, l) ==
    \/ /\ pc[r] = "keys"
       /\ LowestWaiting(body[r].keys, r, l)
    \/ /\ pc[r] = "rows"
       /\ LowestWaiting(need[r], r, l)

WaitsFor(r, q) ==
    \/ \E l \in Lock : WaitsForLock(r, l) /\ holder[l] = q
    \/ InsertWaitsFor(r, q)
    \/ /\ pc[r] = "claim" /\ q # r
       /\ claim[q] = body[r].target

(* "two calls never wait on each other in a cycle": no set of requests     *)
(* each of which waits for another of the set, over advisory locks, row    *)
(* locks and the unique index together.                                    *)
NoWaitCycle ==
    \A S \in SUBSET Request :
        S # {} => \E r \in S : \A q \in S : ~WaitsFor(r, q)

(* Nothing is ever unposted or rewritten: a committed row stays as it is   *)
(* and a VOIDED status is final.                                           *)
AppendOnly ==
    [][/\ \A t \in Posted : rows'[t] = rows[t]
       /\ voided \subseteq voided']_vars

(* Every request that arrives is answered.                                 *)
EveryRequestAnswered ==
    \A r \in Request : pc[r] # "idle" ~> pc[r] = "done"

(* The concurrent ledger implements the book of atomic postings.           *)
Book == INSTANCE Books WITH Txn <- Request

BookSpec == Book!Spec
=============================================================================
