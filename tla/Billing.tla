------------------------------ MODULE Billing -------------------------------
(***************************************************************************)
(* PaymentsService, CouponsService, SubscriptionPlansService and           *)
(* RevenueService: what people have paid for their plans, the refunds and  *)
(* the invoices, and the figures over them.                                *)
(*                                                                         *)
(* Time is counted in half months: month n runs from 2n to 2n+2, and now   *)
(* is Now.  Amounts are whole, and the price of a yearly plan divides by   *)
(* twelve.                                                                 *)
(***************************************************************************)
EXTENDS Requests, Sums

CONSTANTS
    Now,
    BillStart   \* the tables at the start

PaymentIds == DOMAIN BillStart.payment

PlanIds == DOMAIN BillStart.plan

PlanRow == [slug : STRING, active : BOOLEAN, price : Nat, cycle : {"FREE", "MONTHLY", "YEARLY"}]

WorkspaceRow == [plan : PlanIds \cup {Nothing}, default : BOOLEAN, active : BOOLEAN]

(* What a payment looks like; its user is a number.                        *)
PaymentRow ==
    [user : Int, plan : PlanIds, amount : Int,
     status : {"SUCCESS", "REFUNDED", "FAILED", "PENDING"}, at : Int,
     coupon : DOMAIN BillStart.coupon \cup {Nothing}, off : Int]

RefundRow == [amount : Int, at : Int]

(* The tables are in order at the start, and nothing is refunded or moved  *)
(* yet: what was paid was paid by now, for a plan there is.                *)
ASSUME BillAssumption ==
    LET invoiced == {i \in PaymentIds : BillStart.invoice[i] # Nothing}
        plans == {p \in PlanIds : BillStart.plan[p] # Nothing}
    IN  /\ DOMAIN BillStart = {"plan", "coupon", "payment", "refund", "invoice", "on", "moved", "audit"}
        /\ IsFiniteSet(PaymentIds) /\ Request \subseteq PaymentIds \cap DOMAIN BillStart.audit
        /\ IsFiniteSet(PlanIds) /\ IsFiniteSet(DOMAIN BillStart.on)
        /\ Nothing \notin PaymentRow \cup RefundRow \cup PlanRow \cup PlanIds \cup Nat /\ Now \in Int
        /\ Nothing \notin (DOMAIN BillStart.on) \X (PlanIds \cup {Nothing}) \X PlanIds
        /\ BillStart.plan \in [PlanIds -> PlanRow \cup {Nothing}]
        /\ BillStart.on \in [DOMAIN BillStart.on -> WorkspaceRow]
        /\ \A w \in DOMAIN BillStart.on : BillStart.on[w].plan \in plans \cup {Nothing}
        /\ BillStart.moved = [i \in PaymentIds |-> Nothing]
        /\ BillStart.payment \in [PaymentIds -> PaymentRow \cup {Nothing}]
        /\ BillStart.invoice \in [PaymentIds -> Nat \cup {Nothing}]
        /\ BillStart.refund = [i \in PaymentIds |-> Nothing]
        /\ \A i \in PaymentIds : BillStart.payment[i] # Nothing =>
              /\ BillStart.payment[i].plan \in plans /\ BillStart.payment[i].at <= Now
              /\ BillStart.payment[i].status # "REFUNDED"
              /\ BillStart.payment[i].status = "SUCCESS" => i \in invoiced
        /\ {BillStart.invoice[i] : i \in invoiced} = 1 .. Cardinality(invoiced)
        /\ \A r \in Request :
              BillStart.payment[r] = Nothing /\ BillStart.invoice[r] = Nothing /\ BillStart.audit[r] # "refund"

(* What a request says fits the tables.                                    *)
BodyFits(b) ==
    /\ b.op = "simulate" => b.user \in Int /\ b.plan \in PlanIds
    /\ b.op = "retry" => b.id \in PaymentIds
    /\ b.op = "refund" => b.id \in PaymentIds /\ b.amount \in Int
    /\ b.op = "plan" => b.row \in PlanRow
    /\ b.op \in {"edit-plan", "archive-plan"} =>
          /\ b.id \in PlanIds /\ DOMAIN b.row \subseteq {"slug", "active", "price", "cycle"}
          /\ "slug" \in DOMAIN b.row => b.row.slug \in STRING
          /\ "active" \in DOMAIN b.row => b.row.active \in BOOLEAN
          /\ "price" \in DOMAIN b.row => b.row.price \in Nat
          /\ "cycle" \in DOMAIN b.row => b.row.cycle \in {"FREE", "MONTHLY", "YEARLY"}
    /\ b.op = "drop-plan" => b.id \in PlanIds
    /\ b.op = "move" => b.workspace \in DOMAIN BillStart.on /\ b.plan \in PlanIds

ASSUME BillBodies == \A s \in Scenario : \A b \in s.bodies : BodyFits(b)

VARIABLE bill   \* plan: [slug, active, price, cycle] by id, coupon: [code,
                \*   active, from, until, most, redeemed] by id
                \* payment: [user, plan, amount, status, at, coupon, off] by id
                \* refund: [amount, at] by payment; invoice: the number by payment
                \* on: [plan, default, active] of each workspace
                \* moved: <<workspace, from, to>> by request
                \* audit: what each request has left in the audit log

BillInit == bill = BillStart

BillRows(t) == {i \in DOMAIN bill[t] : bill[t][i] # Nothing}

Stay == UNCHANGED bill

LoggedBy(r, tables) == [tables EXCEPT !.audit[r] = body[r].op]

(***************************************************************************)
(* Coupons                                                                 *)
(***************************************************************************)
CodeTaken(code, but) == \E c \in BillRows("coupon") \ {but} : bill.coupon[c].code = code

CreateCoupon(r) ==
    LET b == body[r]
    IN  /\ At(r, "coupon", "start")
        /\ IF b.row.until <= b.row.from \/ CodeTaken(b.row.code, Nothing)
           THEN Finish(r) ELSE Await(r, "insert")
        /\ Stay

(* The unique index refuses a code that has been taken meanwhile.          *)
InsertCoupon(r) ==
    LET b == body[r]
    IN  /\ At(r, "coupon", "insert")
        /\ bill' = IF CodeTaken(b.row.code, Nothing) THEN bill
                   ELSE LoggedBy(r, [bill EXCEPT !.coupon[r] = b.row])
        /\ Finish(r)

(* requireCoupon(); b.row holds the fields given.                          *)
FindCoupon(r) ==
    LET b == body[r]
        row == bill.coupon[b.id]
        dates == Merged(row, b.row)
    IN  /\ b.op \in {"edit-coupon", "drop-coupon"} /\ pc[r] = "start"
        /\ IF \/ row = Nothing
              \/ b.op = "drop-coupon" /\ row.redeemed > 0
              \/ b.op = "edit-coupon" /\ dates.until <= dates.from
           THEN Finish(r) ELSE Await(r, "coupon")
        /\ Stay

(* An edit of the code runs into the unique index; a delete, into the      *)
(* redemptions.                                                            *)
UpdateCoupon(r) ==
    LET b == body[r]
        row == bill.coupon[b.id]
        clash == "code" \in DOMAIN b.row /\ CodeTaken(b.row.code, b.id)
    IN  /\ At(r, "edit-coupon", "coupon")
        /\ bill' = IF row = Nothing \/ clash THEN bill
                   ELSE LoggedBy(r, [bill EXCEPT !.coupon[b.id] = Merged(row, b.row)])
        /\ Finish(r)

RemoveCoupon(r) ==
    LET b == body[r]
    IN  /\ At(r, "drop-coupon", "coupon")
        /\ bill' = IF bill.coupon[b.id] = Nothing \/ bill.coupon[b.id].redeemed > 0 THEN bill
                   ELSE LoggedBy(r, [bill EXCEPT !.coupon[b.id] = Nothing])
        /\ Finish(r)

CouponStatus(c) ==
    CASE ~c.active -> "DISABLED"
      [] c.active /\ Now < c.from -> "SCHEDULED"
      [] c.active /\ Now > c.until -> "EXPIRED"
      [] c.active /\ Now \in c.from .. c.until ->
            IF c.most # Nothing /\ c.redeemed >= c.most THEN "USED_UP" ELSE "ACTIVE"

(***************************************************************************)
(* Plans                                                                   *)
(***************************************************************************)
SlugTaken(slug, but) == \E p \in BillRows("plan") \ {but} : bill.plan[p].slug = slug

CreatePlan(r) ==
    /\ At(r, "plan", "start")
    /\ IF SlugTaken(body[r].row.slug, Nothing) THEN Finish(r) ELSE Await(r, "insert")
    /\ Stay

InsertPlan(r) ==
    LET b == body[r]
    IN  /\ At(r, "plan", "insert")
        /\ bill' = IF SlugTaken(b.row.slug, Nothing) THEN bill
                   ELSE [bill EXCEPT !.plan[r] = b.row]
        /\ Finish(r)

(* update() looks at its slug, too: "the free plan keeps the slug".        *)
FindPlan(r) ==
    LET b == body[r]
        row == bill.plan[b.id]
        renames == "slug" \in DOMAIN b.row /\ row # Nothing /\ b.row.slug # row.slug
    IN  /\ b.op \in {"edit-plan", "archive-plan", "drop-plan"} /\ pc[r] = "start"
        /\ IF \/ row = Nothing
              \/ row.slug = "free" /\ (renames \/ b.op = "drop-plan")
              \/ renames /\ SlugTaken(b.row.slug, b.id)
           THEN Finish(r) ELSE Await(r, IF b.op = "drop-plan" THEN "users" ELSE "plan")
        /\ Stay

(* update() and archive(), whose row is [active |-> FALSE].                *)
UpdatePlan(r) ==
    LET b == body[r]
        row == bill.plan[b.id]
        clash == "slug" \in DOMAIN b.row /\ SlugTaken(b.row.slug, b.id)
    IN  /\ b.op \in {"edit-plan", "archive-plan"} /\ pc[r] = "plan"
        /\ bill' = IF row = Nothing \/ clash THEN bill
                   ELSE LoggedBy(r, [bill EXCEPT !.plan[b.id] = Merged(row, b.row)])
        /\ Finish(r)

PaidFor(p) == {i \in BillRows("payment") : bill.payment[i].plan = p}
OnPlan(p) == {w \in DOMAIN bill.on : bill.on[w].plan = p}

CountPlanUses(r) ==
    /\ At(r, "drop-plan", "users")
    /\ IF OnPlan(body[r].id) \cup PaidFor(body[r].id) = {} THEN Await(r, "plan") ELSE Finish(r)
    /\ Stay

(* A payment refuses the delete; a workspace is left on no plan.           *)
RemovePlan(r) ==
    LET p == body[r].id
    IN  /\ At(r, "drop-plan", "plan")
        /\ bill' = IF bill.plan[p] = Nothing \/ PaidFor(p) # {} THEN bill
                   ELSE LoggedBy(r, [bill EXCEPT
                            !.plan[p] = Nothing,
                            !.on = [w \in DOMAIN @ |-> IF @[w].plan = p
                                                       THEN [@[w] EXCEPT !.plan = Nothing] ELSE @[w]]])
        /\ Finish(r)

(* AdminOwnersService.changePlan() on a default workspace.                 *)
FindNewPlan(r) ==
    /\ At(r, "move", "start")
    /\ IF bill.plan[body[r].plan] = Nothing THEN Finish(r)
       ELSE Keep(r, "move", bill.on[body[r].workspace].plan)
    /\ Stay

MoveWorkspace(r) ==
    LET b == body[r]
    IN  /\ At(r, "move", "move")
        /\ bill' = IF bill.plan[b.plan] = Nothing THEN bill
                   ELSE LoggedBy(r, [bill EXCEPT !.on[b.workspace].plan = b.plan,
                                                 !.moved[r] = <<b.workspace, mem[r], b.plan>>])
        /\ Finish(r)

(***************************************************************************)
(* Payments                                                                *)
(***************************************************************************)
FindPayment(r) ==
    LET b == body[r]
        row == bill.payment[b.id]
    IN  /\ b.op \in {"retry", "refund"} /\ pc[r] = "start"
        /\ IF \/ row = Nothing
              \/ b.op = "retry" /\ row.status # "FAILED"
              \/ b.op = "refund" /\ (row.status # "SUCCESS" \/ b.amount > row.amount)
           THEN Finish(r) ELSE Await(r, "pay")
        /\ Stay

Retry(r) ==
    /\ At(r, "retry", "pay")
    /\ bill' = LoggedBy(r, [bill EXCEPT !.payment[body[r].id].status = "PENDING"])
    /\ Finish(r)

(* The status is claimed with a condition.                                 *)
Refund(r) ==
    LET b == body[r]
    IN  /\ At(r, "refund", "pay")
        /\ bill' = IF bill.payment[b.id].status # "SUCCESS" THEN bill
                   ELSE LoggedBy(r, [bill EXCEPT !.payment[b.id].status = "REFUNDED",
                                                 !.refund[b.id] = [amount |-> b.amount, at |-> Now]])
        /\ Finish(r)

SimulateLook(r) ==
    /\ At(r, "simulate", "start")
    /\ IF bill.plan[body[r].plan] = Nothing THEN Finish(r)
       ELSE Keep(r, "number", bill.plan[body[r].plan].price)
    /\ Stay

(* generateInvoiceNumber(), in the transaction.                            *)
CountInvoices(r) ==
    /\ At(r, "simulate", "number")
    /\ Keep(r, "invoice", [price |-> mem[r], number |-> Cardinality(BillRows("invoice")) + 1])
    /\ Stay

Paid(r) ==
    [bill EXCEPT !.payment[r] = [user |-> body[r].user, plan |-> body[r].plan, amount |-> mem[r].price,
                                 status |-> "SUCCESS", at |-> Now, coupon |-> Nothing, off |-> 0]]

NumberTaken(n) == \E i \in BillRows("invoice") : bill.invoice[i] = n

(* Bug: the payment is kept when its invoice is refused.                   *)
PayFirst(r) ==
    LET n == mem[r].number
    IN  /\ At(r, "simulate", "invoice")
        /\ bill' = IF bill.plan[body[r].plan] = Nothing THEN bill
                   ELSE IF NumberTaken(n) THEN Paid(r)
                   ELSE [Paid(r) EXCEPT !.invoice[r] = n]
        /\ Finish(r)

(* The payment and its invoice at once: nothing of them stays when another *)
(* has the number, or when the plan is gone.                               *)
PayAndInvoice(r) ==
    LET n == mem[r].number
    IN  /\ At(r, "simulate", "invoice")
        /\ bill' = IF NumberTaken(n) \/ bill.plan[body[r].plan] = Nothing THEN bill
                   ELSE [Paid(r) EXCEPT !.invoice[r] = n]
        /\ Finish(r)

BillStep(r) ==
    \/ CreateCoupon(r) \/ InsertCoupon(r) \/ FindCoupon(r) \/ UpdateCoupon(r) \/ RemoveCoupon(r)
    \/ CreatePlan(r) \/ InsertPlan(r) \/ FindPlan(r) \/ UpdatePlan(r) \/ CountPlanUses(r)
    \/ RemovePlan(r) \/ FindNewPlan(r) \/ MoveWorkspace(r)
    \/ FindPayment(r) \/ Retry(r) \/ Refund(r)
    \/ SimulateLook(r) \/ CountInvoices(r) \/ PayAndInvoice(r)

(***************************************************************************)
(* The figures of the payments page, the coupons page, the plans page and  *)
(* the revenue page.                                                       *)
(***************************************************************************)
Month(t) == t \div 2
ThisMonth == Month(Now)

(* Bug: a payment of which some was given back does not count.             *)
KeptWhole == {i \in BillRows("payment") : bill.payment[i].status = "SUCCESS"}

Kept == {i \in BillRows("payment") : bill.payment[i].status \in {"SUCCESS", "REFUNDED"}}

Net(i) == bill.payment[i].amount - (IF bill.refund[i] = Nothing THEN 0 ELSE bill.refund[i].amount)

Takings == [i \in BillRows("payment") |-> Net(i)]

KeptIn(m) == {i \in Kept : Month(bill.payment[i].at) = m}

Collected(m) == SumOver(Takings, KeptIn(m))

(* payments.stats()                                                        *)
PaymentStats ==
    [lastMonth |-> Collected(ThisMonth - 1), thisMonth |-> Collected(ThisMonth),
     statuses |-> [s \in {"SUCCESS", "REFUNDED", "FAILED", "PENDING"} |->
                    Cardinality({i \in BillRows("payment") : bill.payment[i].status = s})]]

(* coupons.stats()                                                         *)
CouponStats ==
    LET paid == {i \in BillRows("payment") : bill.payment[i].status = "SUCCESS"
                                             /\ Month(bill.payment[i].at) = ThisMonth}
        used == {i \in paid : bill.payment[i].coupon # Nothing}
    IN  [active |-> {c \in BillRows("coupon") : CouponStatus(bill.coupon[c]) = "ACTIVE"},
         used |-> Cardinality(used), payments |-> Cardinality(paid),
         off |-> SumOver([i \in used |-> bill.payment[i].off], used)]

(* revenue.summary(): all time from the sums of the two tables, the months *)
(* from the payments of the last twelve.                                   *)
RevenueSummary ==
    LET all == {i \in BillRows("payment") : bill.payment[i].status \in {"SUCCESS", "REFUNDED"}}
        back == all \cap BillRows("refund")
    IN  [total |-> SumOver([i \in all |-> bill.payment[i].amount], all)
                   - SumOver([i \in back |-> bill.refund[i].amount], back),
         trend |-> [m \in (ThisMonth - 11) .. ThisMonth |-> Collected(m)]]

Paying == {w \in DOMAIN bill.on :
             LET p == bill.on[w].plan
             IN  bill.on[w].active /\ p # Nothing /\ bill.plan[p].cycle # "FREE"}

PerMonth(p) ==
    IF bill.plan[p].cycle = "YEARLY" THEN bill.plan[p].price \div 12 ELSE bill.plan[p].price

Mrr == SumOver([w \in Paying |-> PerMonth(bill.on[w].plan)], Paying)

(* revenue.churn(): the workspaces moved to the free plan, whichever the   *)
(* query finds first, from another.                                        *)
FreePlan ==
    LET free == {p \in BillRows("plan") : bill.plan[p].cycle = "FREE"}
    IN  IF free = {} THEN Nothing ELSE CHOOSE p \in free : TRUE

Churn ==
    LET left == {bill.moved[r][1] : r \in {q \in BillRows("moved") :
                    FreePlan # Nothing /\ bill.moved[q][3] = FreePlan /\ bill.moved[q][2] # FreePlan}}
    IN  [churned |-> Cardinality(left), paying |-> Cardinality(Paying)]

(* paidPeopleAt(): a yearly payment lasts for twelve months, any other for *)
(* one.                                                                    *)
PaidUntil(i) ==
    bill.payment[i].at + (IF bill.plan[bill.payment[i].plan].cycle = "YEARLY" THEN 24 ELSE 2)

PaidPeopleAt(payments, p, t) ==
    {bill.payment[i].user : i \in {j \in payments : bill.payment[j].plan = p
                                     /\ bill.payment[j].at <= t /\ PaidUntil(j) > t}}

MonthEnd(m) == Min({2 * (m + 1), Now})

(* The sum of what f gives for each plan there is.                         *)
OfPlans(f) == SumOver(f, BillRows("plan"))

(* revenue.overview()                                                      *)
RevenueOverview ==
    LET people(t) == UNION {PaidPeopleAt(Kept, p, t) : p \in BillRows("plan")}
        now == people(Now)
        before == people(2 * ThisMonth)
    IN  [mrr |-> [m \in (ThisMonth - 5) .. ThisMonth |->
                    OfPlans([p \in BillRows("plan") |->
                                PerMonth(p) * Cardinality(PaidPeopleAt(Kept, p, MonthEnd(m)))])],
         people |-> Cardinality(now), left |-> Cardinality(before \ now),
         byPlan |-> [p \in BillRows("plan") |->
                        SumOver(Takings, {i \in KeptIn(ThisMonth) : bill.payment[i].plan = p})]]

(* plans.analytics()                                                       *)
PlanAnalytics ==
    [p \in BillRows("plan") |->
        LET users == {w \in OnPlan(p) : bill.on[w].default}
        IN  [users |-> Cardinality(users),
             estimate |-> bill.plan[p].price * Cardinality({w \in users : bill.on[w].active}),
             history |-> [m \in (ThisMonth - 5) .. ThisMonth |->
                            Cardinality(PaidPeopleAt(
                                {i \in Kept : bill.payment[i].status = "SUCCESS"}, p, MonthEnd(m)))]]]

(***************************************************************************)
(* Properties                                                              *)
(***************************************************************************)

(* generateInvoiceNumber() counts the invoices there are: the numbers run  *)
(* from 1 without a gap or a repeat, and every payment that was ever a     *)
(* success has one, however many payments are recorded at once.            *)
InvoicesInOrder ==
    /\ {bill.invoice[i] : i \in BillRows("invoice")} = 1 .. Cardinality(BillRows("invoice"))
    /\ Kept \subseteq BillRows("invoice")

(* Paid before the first month of the revenue page's chart.                *)
BeforeTrend == {i \in Kept : Month(bill.payment[i].at) < ThisMonth - 11}

(* A move to a plan that costs something, or did until it was deleted.     *)
MovedUp(r) ==
    LET plan == bill.plan[bill.moved[r][3]] IN plan = Nothing \/ plan.cycle # "FREE"

(* "net of refunds, like the revenue page": the revenue page's total is    *)
(* what its chart's months and the time before it took, the plans of its   *)
(* overview and the takings over the payments page tell the same story,    *)
(* whatever is paid and refunded; no more is estimated of the plans than   *)
(* the revenue page expects; and what left and what pays are different     *)
(* workspaces, but for those moved back.                                   *)
PagesAgree ==
    LET revenue == RevenueSummary
        overview == RevenueOverview
        payments == PaymentStats
        plans == PlanAnalytics
        trend == revenue.trend
        monthly == {p \in BillRows("plan") : bill.plan[p].cycle = "MONTHLY"}
    IN  /\ revenue.total = SumOver(trend, DOMAIN trend) + SumOver(Takings, BeforeTrend)
        /\ payments.thisMonth = trend[ThisMonth]
        /\ payments.lastMonth = trend[ThisMonth - 1]
        /\ trend[ThisMonth] = OfPlans(overview.byPlan)
        /\ CouponStats.payments <= payments.statuses["SUCCESS"]
        /\ \A m \in DOMAIN overview.mrr :
             OfPlans([p \in BillRows("plan") |-> PerMonth(p) * plans[p].history[m]]) <= overview.mrr[m]
        /\ SumOver([p \in monthly |-> plans[p].estimate], monthly) <= Mrr
        /\ Churn.churned + Churn.paying
             <= Cardinality(DOMAIN bill.on) + Cardinality({r \in BillRows("moved") : MovedUp(r)})

(* Of the refunds of one payment sent at once, one succeeds: nobody is     *)
(* given back more than was paid, and no payment is moved off a status     *)
(* that says what happened to its money.                                   *)
RefundsWithinPaid ==
    \A i \in BillRows("refund") :
        /\ bill.payment[i].status = "REFUNDED"
        /\ bill.refund[i].amount <= bill.payment[i].amount
        /\ Cardinality({r \in Request : bill.audit[r] = "refund" /\ body[r].id = i}) = 1

(* Money taken has its one invoice, and money given back was taken.        *)
PaymentsInOrder == InvoicesInOrder /\ RefundsWithinPaid
=============================================================================
