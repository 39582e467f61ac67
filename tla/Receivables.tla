---------------------------- MODULE Receivables -----------------------------
(***************************************************************************)
(* ReceivablesPayablesService and ContactsService: credit sales and        *)
(* purchases, the payments that settle them, and the contacts they name.   *)
(*                                                                         *)
(* Every HTTP request is a process that posts at most one transaction, so  *)
(* a transaction is named after its request.  What is owed is computed     *)
(* from the transactions at each read; computeDirection reads the invoices *)
(* first and the payments in a second statement.  Only a payment takes the *)
(* contact's advisory lock: sales, voids, raw postings and the contact's   *)
(* own operations do not.                                                  *)
(***************************************************************************)
EXTENDS FiniteSets, Sums

CONSTANTS
    Request,
    Contact,
    Old,      \* the transactions there are at the start
    OldRow,   \* and what they say
    Known,    \* the contacts there are at the start
    Opening,  \* openingBalance of each contact: above zero they owe us
    Body,     \* what a request may ask for
    Today,    \* the present day: dates are day numbers
    NoRow, Nobody, NoDue, Free

Id == Request \cup Old

Direction == {"RECEIVABLE", "PAYABLE"}
ContactType == {"CUSTOMER", "SUPPLIER", "BOTH", "RELATIVE", "OTHER"}
Type == {"SALE", "PURCHASE", "PAYMENT", "JOURNAL"}

(* A transaction, with the one entry it has on the Accounts Receivable or  *)
(* Payable account.  raw: posted through POST /transactions, unchecked.    *)
Row == [type : Type, contact : Contact \cup {Nobody},
        account : {"AR", "AP"}, entry : {"DEBIT", "CREDIT"}, amount : Nat \ {0},
        date : Int, due : Int \cup {NoDue}, applied : Id \cup {NoRow},
        reversalOf : Id \cup {NoRow}, status : {"POSTED", "VOIDED"},
        seq : Nat, raw : BOOLEAN]

InvoiceBody == [op : {"sale", "purchase"}, contact : Contact, amount : Nat \ {0},
                date : Int, due : Int \cup {NoDue}]
PaymentBody == [op : {"receive", "pay"}, contact : Contact, amount : Nat \ {0}]
RawBody     == [op : {"raw"}, contact : Contact, type : Type, account : {"AR", "AP"},
                entry : {"DEBIT", "CREDIT"}, amount : Nat \ {0}]
ContactBody == [op : {"create", "archive", "delete"}, contact : Contact]
RetypeBody  == [op : {"retype"}, contact : Contact, type : ContactType]
VoidBody    == [op : {"void"}]

ASSUME IdAssumption ==
    /\ Request \cap Old = {} /\ IsFiniteSet(Id)
    /\ NoRow \notin Id /\ Nobody \notin Contact /\ Free \notin Request

(***************************************************************************)
(* What the transactions say by themselves.                                *)
(***************************************************************************)
(* Neither voided nor the reversal of a voided one.                        *)
Live(row) == row.status = "POSTED" /\ row.reversalOf = NoRow

InvoiceType(d) == IF d = "RECEIVABLE" THEN "SALE" ELSE "PURCHASE"
AccountOf(d) == IF d = "RECEIVABLE" THEN "AR" ELSE "AP"

(* The features post a sale as a debit on AR, a purchase as a credit on    *)
(* AP, a payment as the opposite.                                          *)
Shaped(row) ==
    row.raw \/ <<row.type, row.account, row.entry>> \in
        {<<"SALE", "AR", "DEBIT">>, <<"PURCHASE", "AP", "CREDIT">>,
         <<"PAYMENT", "AR", "CREDIT">>, <<"PAYMENT", "AP", "DEBIT">>}

(* A debit adds, a credit subtracts.                                       *)
Signed(row) == IF row.entry = "DEBIT" THEN row.amount ELSE -row.amount

Original(row, d) == IF row.account = AccountOf(d) THEN row.amount ELSE 0

Named(rows, c) == {i \in DOMAIN rows : rows[i].contact = c}

Amounts(rows, ids) == SumOver([i \in ids |-> rows[i].amount], ids)

SignedSum(rows, ids) == SumOver([i \in ids |-> Signed(rows[i])], ids)

(* Pawna (above zero) is owed on the receivable side, Dena on the other.   *)
OpeningOwed(c, d) == Max({0, IF d = "RECEIVABLE" THEN Opening[c] ELSE -Opening[c]})

(* The payments receivePayment and payPayment took from a contact.         *)
Taken(rows, c, d) ==
    {i \in Named(rows, c) : /\ rows[i].type = "PAYMENT" /\ Live(rows[i]) /\ ~rows[i].raw
                            /\ rows[i].account = AccountOf(d)}

(* All that was ever invoiced, voided since or not.                        *)
Ever(rows, c, d) ==
    {i \in Named(rows, c) : rows[i].type = InvoiceType(d) /\ rows[i].reversalOf = NoRow}

Invoiced(rows, ids, d) == SumOver([i \in ids |-> Original(rows[i], d)], ids)

WithinOwed(rows, c, d) ==
    LET taken == Taken(rows, c, d)
    IN  /\ Amounts(rows, taken) <= OpeningOwed(c, d) + Invoiced(rows, Ever(rows, c, d), d)
        /\ \A i \in DOMAIN rows :
               Amounts(rows, {p \in taken : rows[p].applied = i}) <= Original(rows[i], d)

(* A voided transaction and its reversal cancel on the contact's account.  *)
VoidsCancel(rows) ==
    \A c \in Contact : SignedSum(rows, {i \in Named(rows, c) : ~Live(rows[i])}) = 0

(* createdAt: no two rows have the same.                                   *)
Numbered(rows) ==
    /\ \A i \in DOMAIN rows : rows[i].seq <= Cardinality(DOMAIN rows)
    /\ \A i, j \in DOMAIN rows : rows[i].seq = rows[j].seq => i = j

ASSUME StartAssumption ==
    /\ OldRow \in [Old -> Row] /\ Numbered(OldRow)
    /\ \A i \in Old : Live(OldRow[i]) => Shaped(OldRow[i])
    /\ \A i \in Old : OldRow[i].applied \in Old \cup {NoRow}
    /\ VoidsCancel(OldRow)
    /\ \A c \in Contact, d \in Direction : WithinOwed(OldRow, c, d)
    /\ Known \subseteq Contact
    /\ Opening \in [Contact -> Int]
    /\ Today \in Int

ASSUME BodyAssumption ==
    Body \subseteq InvoiceBody \cup PaymentBody \cup RawBody \cup ContactBody
                     \cup RetypeBody \cup VoidBody

VARIABLES
    tx,       \* the transactions, by id
    status,   \* of each contact's row; UNUSED before it exists, DELETED after
    kind,     \* the type of each contact
    body,     \* what each request asks for
    target,   \* the transaction it is about
    pc,       \* where each request is
    holder,   \* the request that holds each contact's advisory lock
    side,     \* the direction a request is computing
    listed,   \* the invoices it has read
    sum,      \* the balance it has added up
    began     \* how many transactions there were when it first read

books == <<tx, status, kind>>
local == <<side, listed, sum, began>>
vars == <<tx, status, kind, body, target, pc, holder, side, listed, sum, began>>

Exists(c) == status[c] \in {"ACTIVE", "ARCHIVED"}

Init ==
    /\ tx = OldRow
    /\ status = [c \in Contact |-> IF c \in Known THEN "ACTIVE" ELSE "UNUSED"]
    /\ kind = [c \in Contact |-> "BOTH"]
    /\ body \in [Request -> Body]
    /\ target = [r \in Request |-> NoRow]
    /\ pc = [r \in Request |-> "idle"]
    /\ holder = [c \in Contact |-> Free]
    /\ side = [r \in Request |-> "RECEIVABLE"]
    /\ listed = [r \in Request |-> {}]
    /\ sum = [r \in Request |-> 0]
    /\ began = [r \in Request |-> 0]

(***************************************************************************)
(* computeDirection(), over sets of invoices and payments already read.    *)
(***************************************************************************)
(* A contact sold to, or bought from.                                      *)
Deals(c, d) == kind[c] \in {"BOTH", IF d = "RECEIVABLE" THEN "CUSTOMER" ELSE "SUPPLIER"}

(* Bug: the reversals of voided transactions are counted too.              *)
CountedWithReversals(c, t) ==
    {i \in Named(tx, c) : tx[i].type = t /\ tx[i].status = "POSTED"}

Counted(c, t) ==
    {i \in Named(tx, c) : tx[i].type = t /\ Live(tx[i])}

Invoices(c, d) == Counted(c, InvoiceType(d))

Payments(c, d) == {i \in Counted(c, "PAYMENT") : tx[i].account = AccountOf(d)}

Total(ids) == Amounts(tx, ids)

(* orderBy transactionDate, createdAt.                                     *)
Before(i, j) ==
    \/ tx[i].date < tx[j].date
    \/ tx[i].date = tx[j].date /\ tx[i].seq < tx[j].seq

AppliedTo(i, payments) == Total({p \in payments : tx[p].applied = i})

(* The opening balance is the oldest amount owed.                          *)
OpeningPaid(owed, general, open) == Min({general, owed})

(* What the general payments, the oldest invoice first and each up to what *)
(* is still open, leave paid on each invoice: an invoice finds in the pool *)
(* what those before it have left.                                         *)
Allocate(invoices, d, payments, pool) ==
    LET applied == [i \in invoices |-> AppliedTo(i, payments)]
        open == [i \in invoices |-> Max({0, Original(tx[i], d) - applied[i]})]
        found == [i \in invoices |->
                    Max({0, pool - SumOver(open, {j \in invoices : Before(j, i)})})]
    IN  [i \in invoices |-> applied[i] + Min({open[i], found[i]})]

(* A payment applied to an invoice that is not listed, a voided one, is a  *)
(* general one.                                                            *)
Breakdown(c, d, invoices, payments) ==
    LET general == Total({p \in payments : tx[p].applied \notin invoices})
        invoiced == Invoiced(tx, invoices, d)
        opened == OpeningPaid(OpeningOwed(c, d), general, invoiced)
        paid == Allocate(invoices, d, payments, general - opened)
    IN  [left |-> [i \in invoices |-> Max({0, Original(tx[i], d) - paid[i]})],
         remaining |-> invoiced - (Total(payments) - opened),
         openingRemaining |-> OpeningOwed(c, d) - opened,
         balance |-> invoiced - Total(payments)]

(* What a request that reads everything at once is told.                   *)
BreakdownNow(c, d) == Breakdown(c, d, Invoices(c, d), Payments(c, d))

CurrentBalance(c) ==
    Opening[c] + BreakdownNow(c, "RECEIVABLE").balance - BreakdownNow(c, "PAYABLE").balance

(***************************************************************************)
(* The other reads.                                                        *)
(***************************************************************************)
(* getLoanStatement(): every entry of the contact on either account, the   *)
(* voided and the reversing ones too.                                      *)
StatementClosing(c) == Opening[c] + SignedSum(tx, Named(tx, c))

DaysLate(due) ==
    IF Today - due <= 30 THEN "days1to30" ELSE IF Today - due <= 60 THEN "days31to60" ELSE "over60"

(* Bug: what falls due today is already late.                              *)
BucketLateToday(due) == IF due = NoDue \/ due > Today THEN "current" ELSE DaysLate(due)

Bucket(due) == IF due = NoDue \/ due >= Today THEN "current" ELSE DaysLate(due)

(* A row of getAging(), which lists the contacts that deal in d: what      *)
(* is left of the invoices, by age.                                       *)
AgingRow(c, d) ==
    LET b == BreakdownNow(c, d)
        In(bucket) == {i \in DOMAIN b.left : Bucket(tx[i].due) = bucket}
    IN  [total |-> b.remaining,
         buckets |-> [k \in {"current", "days1to30", "days31to60", "over60"} |->
                        SumOver(b.left, In(k))]]

(* The invoices of getOverdue(), and those of getDueSoon().                *)
Overdue(c, d) ==
    LET left == BreakdownNow(c, d).left
    IN  {i \in DOMAIN left : tx[i].due # NoDue /\ tx[i].due < Today /\ left[i] > 0}

DueSoon(c, d, days) ==
    LET left == BreakdownNow(c, d).left
    IN  {i \in DOMAIN left : /\ tx[i].due # NoDue /\ i \notin Overdue(c, d)
                             /\ tx[i].due <= Today + days /\ left[i] > 0}

(***************************************************************************)
(* The steps every request has.                                            *)
(***************************************************************************)
Goto(r, l) == pc' = [pc EXCEPT ![r] = l]

GoOn(r, l) ==
    /\ Goto(r, l)
    /\ UNCHANGED <<books, body, target, holder>>

GoOnQuietly(r, l) == GoOn(r, l) /\ UNCHANGED local

(* The request ends, and with it its transaction: locks are released.      *)
Close(r) ==
    /\ Goto(r, "done")
    /\ holder' = [c \in Contact |-> IF holder[c] = r THEN Free ELSE holder[c]]
    /\ listed' = [listed EXCEPT ![r] = {}]
    /\ sum' = [sum EXCEPT ![r] = 0]
    /\ side' = [side EXCEPT ![r] = "RECEIVABLE"]
    /\ began' = [began EXCEPT ![r] = 0]
    /\ UNCHANGED <<body, target>>

(* It ends with nothing written: an error, or an answer.                   *)
Finish(r) == Close(r) /\ UNCHANGED books

(***************************************************************************)
(* Arrival: the transaction the request names, and what is looked at       *)
(* before anything else.                                                   *)
(***************************************************************************)
Targets(b) ==
    CASE b.op \in {"receive", "pay", "raw"} -> DOMAIN tx \cup {NoRow}
      [] b.op = "void" -> DOMAIN tx
      [] OTHER -> {NoRow}

Refused(b) ==
    \/ b.op = "create" /\ status[b.contact] # "UNUSED"
    \/ b.op \notin {"create", "void", "raw"} /\ ~Exists(b.contact)
    \/ b.op = "sale" /\ ~Deals(b.contact, "RECEIVABLE")
    \/ b.op = "purchase" /\ ~Deals(b.contact, "PAYABLE")

FirstStep(op) ==
    CASE op \in {"receive", "pay"} -> "key"
      [] op = "archive" -> "find"
      [] op = "delete" -> "count"
      [] OTHER -> "commit"

Arrive(r) ==
    /\ pc[r] = "idle"
    /\ \/ Refused(body[r]) /\ Finish(r)
       \/ /\ ~Refused(body[r])
          /\ \E t \in Targets(body[r]) : target' = [target EXCEPT ![r] = t]
          /\ Goto(r, FirstStep(body[r].op))
          /\ UNCHANGED <<books, body, holder, local>>

(***************************************************************************)
(* receivePayment(), payPayment(): withLocks([contact:<id>]), the reads of *)
(* computeDirection and the check of validatePaymentAmount.                *)
(***************************************************************************)
SideOf(op) == IF op = "pay" THEN "PAYABLE" ELSE "RECEIVABLE"

(* Bug: no lock is taken.                                                  *)
AlwaysFree(c) == TRUE

Available(c) == holder[c] = Free

TakeKey(r) ==
    LET c == body[r].contact
    IN  /\ pc[r] = "key"
        /\ Available(c)
        /\ holder' = [holder EXCEPT ![c] = r]
        /\ side' = [side EXCEPT ![r] = SideOf(body[r].op)]
        /\ Goto(r, "invoices")
        /\ UNCHANGED <<books, body, target, listed, sum, began>>

ReadInvoices(r) ==
    /\ pc[r] = "invoices"
    /\ listed' = [listed EXCEPT ![r] = Invoices(body[r].contact, side[r])]
    /\ GoOn(r, "payments")
    /\ UNCHANGED <<side, sum, began>>

(* What the request computes once it has read the payments as well.        *)
Seen(r) ==
    LET c == body[r].contact
    IN  Breakdown(c, side[r], listed[r], Payments(c, side[r]))

Fits(amount, t, b) ==
    IF t = NoRow THEN amount <= b.remaining + b.openingRemaining
                 ELSE t \in DOMAIN b.left /\ amount <= b.left[t]

CheckPayment(r) ==
    /\ pc[r] = "payments"
    /\ body[r].op \in {"receive", "pay"}
    /\ \/ Fits(body[r].amount, target[r], Seen(r)) /\ GoOnQuietly(r, "commit")
       \/ ~Fits(body[r].amount, target[r], Seen(r)) /\ Finish(r)

(***************************************************************************)
(* createTransaction(): the contact and the invoice it names must be this  *)
(* workspace's own and belong together; the insert fails when the contact  *)
(* is gone.                                                                *)
(***************************************************************************)
Added(r, row) == [i \in DOMAIN tx \cup {r} |-> IF i = r THEN row ELSE tx[i]]

Linked(c, t) == Exists(c) /\ (t # NoRow => tx[t].contact = c)

Post(r, row) ==
    IF Linked(row.contact, row.applied)
    THEN /\ tx' = Added(r, row)
         /\ UNCHANGED <<status, kind>>
         /\ Close(r)
    ELSE Finish(r)

NewRow(b, type, account, entry) ==
    [type |-> type, contact |-> b.contact, account |-> account, entry |-> entry,
     amount |-> b.amount, date |-> Today, due |-> NoDue, applied |-> NoRow,
     reversalOf |-> NoRow, status |-> "POSTED", seq |-> Cardinality(DOMAIN tx) + 1,
     raw |-> FALSE]

Dated(row, b) == [row EXCEPT !.date = b.date, !.due = b.due]

CommitInvoice(r) ==
    LET b == body[r]
    IN  /\ pc[r] = "commit"
        /\ \/ b.op = "sale" /\ Post(r, Dated(NewRow(b, "SALE", "AR", "DEBIT"), b))
           \/ b.op = "purchase" /\ Post(r, Dated(NewRow(b, "PURCHASE", "AP", "CREDIT"), b))

CommitPayment(r) ==
    LET b == body[r]
        Applied(row) == [row EXCEPT !.applied = target[r]]
    IN  /\ pc[r] = "commit"
        /\ \/ b.op = "receive" /\ Post(r, Applied(NewRow(b, "PAYMENT", "AR", "CREDIT")))
           \/ b.op = "pay" /\ Post(r, Applied(NewRow(b, "PAYMENT", "AP", "DEBIT")))

CommitRaw(r) ==
    LET b == body[r]
    IN  /\ pc[r] = "commit"
        /\ b.op = "raw"
        /\ Post(r, [NewRow(b, b.type, b.account, b.entry)
                      EXCEPT !.applied = target[r], !.raw = TRUE])

Flip(entry) == IF entry = "DEBIT" THEN "CREDIT" ELSE "DEBIT"

Reversal(i) ==
    [tx[i] EXCEPT !.entry = Flip(@), !.date = Today, !.due = NoDue, !.applied = NoRow,
                  !.reversalOf = i, !.status = "POSTED",
                  !.seq = Cardinality(DOMAIN tx) + 1, !.raw = FALSE]

(* voidTransaction(): Ledger has its steps.  No contact's lock is taken.   *)
CommitVoid(r) ==
    LET i == target[r]
        voidable == tx[i].status = "POSTED" /\ tx[i].reversalOf = NoRow
    IN  /\ pc[r] = "commit"
        /\ body[r].op = "void"
        /\ \/ /\ voidable
              /\ tx' = [Added(r, Reversal(i)) EXCEPT ![i].status = "VOIDED"]
              /\ UNCHANGED <<status, kind>>
              /\ Close(r)
           \/ ~voidable /\ Finish(r)

(***************************************************************************)
(* The contact's own operations, outside any lock.  An update of a row     *)
(* deleted meanwhile fails.                                                *)
(***************************************************************************)
CommitCreate(r) ==
    /\ pc[r] = "commit"
    /\ body[r].op = "create"
    /\ IF status[body[r].contact] = "UNUSED"
       THEN /\ status' = [status EXCEPT ![body[r].contact] = "ACTIVE"]
            /\ UNCHANGED <<tx, kind>>
            /\ Close(r)
       ELSE Finish(r)

CommitRetype(r) ==
    /\ pc[r] = "commit"
    /\ body[r].op = "retype"
    /\ IF Exists(body[r].contact)
       THEN /\ kind' = [kind EXCEPT ![body[r].contact] = body[r].type]
            /\ UNCHANGED <<tx, status>>
            /\ Close(r)
       ELSE Finish(r)

(* delete(): the contact's transactions are counted, then its row goes.    *)
Count(r) ==
    /\ pc[r] = "count"
    /\ GoOnQuietly(r, IF \E i \in DOMAIN tx : tx[i].contact = body[r].contact
                      THEN "find" ELSE "erase")

(* ON DELETE SET NULL: the transactions stay, without a contact.           *)
Erase(r) ==
    LET c == body[r].contact
    IN  /\ pc[r] = "erase"
        /\ IF Exists(c)
           THEN /\ status' = [status EXCEPT ![c] = "DELETED"]
                /\ tx' = [i \in DOMAIN tx |->
                            IF tx[i].contact = c THEN [tx[i] EXCEPT !.contact = Nobody]
                                                 ELSE tx[i]]
                /\ UNCHANGED kind
                /\ Close(r)
           ELSE Finish(r)

(* archive(): nothing to do for an archived contact; otherwise both        *)
(* directions are computed, one after the other.                           *)
Find(r) ==
    LET c == body[r].contact
    IN  /\ pc[r] = "find"
        /\ \/ /\ status[c] = "ACTIVE"
              /\ GoOn(r, "invoices")
              /\ sum' = [sum EXCEPT ![r] = Opening[c]]
              /\ began' = [began EXCEPT ![r] = Cardinality(DOMAIN tx)]
              /\ UNCHANGED <<side, listed>>
           \/ status[c] # "ACTIVE" /\ Finish(r)

AddReceivable(r) ==
    /\ pc[r] = "payments"
    /\ body[r].op \in {"archive", "delete"}
    /\ side[r] = "RECEIVABLE"
    /\ GoOn(r, "invoices")
    /\ sum' = [sum EXCEPT ![r] = @ + Seen(r).balance]
    /\ side' = [side EXCEPT ![r] = "PAYABLE"]
    /\ UNCHANGED <<listed, began>>

(* Bug: what is owed to the contact is left out.                           *)
SettledReceivable(r) == sum[r] = 0

Settled(r) == sum[r] - Seen(r).balance = 0

CheckSettled(r) ==
    /\ pc[r] = "payments"
    /\ body[r].op \in {"archive", "delete"}
    /\ side[r] = "PAYABLE"
    /\ \/ Settled(r) /\ GoOnQuietly(r, "archive")
       \/ ~Settled(r) /\ Finish(r)

Archive(r) ==
    LET c == body[r].contact
    IN  /\ pc[r] = "archive"
        /\ IF Exists(c)
           THEN /\ status' = [status EXCEPT ![c] = "ARCHIVED"]
                /\ UNCHANGED <<tx, kind>>
                /\ Close(r)
           ELSE Finish(r)

(* A lost connection, or Prisma's time limit.                              *)
Abort(r) ==
    /\ pc[r] \notin {"idle", "done"}
    /\ Finish(r)

Step(r) ==
    \/ Arrive(r) \/ TakeKey(r) \/ ReadInvoices(r) \/ CheckPayment(r)
    \/ CommitInvoice(r) \/ CommitPayment(r) \/ CommitRaw(r) \/ CommitVoid(r)
    \/ CommitCreate(r) \/ CommitRetype(r)
    \/ Count(r) \/ Erase(r) \/ Find(r) \/ AddReceivable(r) \/ CheckSettled(r) \/ Archive(r)

AllDone == (\A r \in Request : pc[r] = "done") /\ UNCHANGED vars

Next == (\E r \in Request : Step(r) \/ Abort(r)) \/ AllDone

Spec == Init /\ [][Next]_vars

(***************************************************************************)
(* Properties                                                              *)
(***************************************************************************)

(* Every variable keeps the shape the code gives it.                       *)
TypeOK ==
    /\ DOMAIN tx \subseteq Id
    /\ \A i \in DOMAIN tx : tx[i] \in Row
    /\ status \in [Contact -> {"UNUSED", "ACTIVE", "ARCHIVED", "DELETED"}]
    /\ kind \in [Contact -> ContactType]
    /\ holder \in [Contact -> Request \cup {Free}]
    /\ side \in [Request -> Direction]
    /\ \A r \in Request : listed[r] \subseteq DOMAIN tx
    /\ sum \in [Request -> Int]
    /\ began \in [Request -> Nat]
    /\ \A r \in Request : \A c \in Contact :
         holder[c] = r => pc[r] \in {"invoices", "payments", "commit"}

(* Payments checked under the contact's lock never take more than the      *)
(* contact ever owed, nor more than an invoice says when they name one,    *)
(* whatever is voided or posted by hand meanwhile ("two payments sent at   *)
(* once can't both fit under the same outstanding balance").               *)
PaymentsWithinOwed == \A c \in Contact, d \in Direction : WithinOwed(tx, c, d)

(* Only the features' own transactions name the contact.                   *)
Plain(c) == \A i \in DOMAIN tx : tx[i].contact = c => ~tx[i].raw

(* The closing balance of getLoanStatement, summed over every entry, is    *)
(* the contact's current balance, computed without voided transactions and *)
(* their reversals, for a contact no raw posting names.                    *)
StatementAgrees ==
    \A c \in Contact : Plain(c) => StatementClosing(c) = CurrentBalance(c)

(* General payments settle the opening balance first, then the oldest      *)
(* invoice: one gets nothing of them while something older is open.        *)
PaidOldestFirst ==
    \A c \in Contact, d \in Direction :
        LET b == BreakdownNow(c, d)
            General(i) == Original(tx[i], d) - b.left[i] - AppliedTo(i, Payments(c, d))
        IN  \A j \in DOMAIN b.left :
                General(j) > 0 =>
                    /\ b.openingRemaining = 0
                    /\ \A i \in DOMAIN b.left : Before(i, j) => b.left[i] = 0

(* What is paid fits what is owed, in all and invoice by invoice, in rows  *)
(* of the right shape.                                                     *)
PaymentsFit == TypeOK /\ PaymentsWithinOwed /\ PaidOldestFirst

(* The reports agree: what getAging says a contact owes is what its        *)
(* buckets hold, the late buckets hold what getOverdue lists, and what     *)
(* getDueSoon lists is not late yet.                                       *)
ReportsAgree ==
    \A c \in Contact, d \in Direction :
        Plain(c) /\ Deals(c, d) =>
            LET row == AgingRow(c, d)
                left == BreakdownNow(c, d).left
                Left(ids) == SumOver(left, ids)
                late == row.buckets.days1to30 + row.buckets.days31to60 + row.buckets.over60
            IN  /\ Max({0, row.total}) = row.buckets.current + late
                /\ Left(Overdue(c, d)) = late
                /\ Left(DueSoon(c, d, 7)) <= row.buckets.current

(* A contact is archived with nothing owed either way, unless something    *)
(* was posted or voided after the archiving request first read.            *)
ArchiveSettled ==
    [][\A c \in Contact :
         status[c] = "ACTIVE" /\ status'[c] = "ARCHIVED" =>
            \E r \in Request :
                /\ pc[r] = "archive" /\ body[r].contact = c
                /\ CurrentBalance(c) = 0 \/ began[r] < Cardinality(DOMAIN tx)]_vars

(* A transaction keeps the contact it was posted with: delete() is said to *)
(* remove only a contact never used on a transaction.                      *)
ContactsKept ==
    [][\A i \in DOMAIN tx : tx'[i].contact = tx[i].contact]_vars
=============================================================================
