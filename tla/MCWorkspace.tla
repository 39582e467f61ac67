---------------------------- MODULE MCWorkspace -----------------------------
(* Small instances of the services inside a workspace.  Each mix of        *)
(* requests is of one service: services of different mixes share no table. *)
(* The ids of the rows at the start are e1, g1, p1, p2 and p3, whatever    *)
(* the table; a new row is named after its request.                        *)
EXTENDS GroupExpenses, Billing, Workspaces, Vault, AccountTree, Assets,
        Habits, Shelves, Todos, Budgets

CONSTANTS r1, r2, r3, r4, e1, g1, p1, p2, p3, a1, a2, a3, a4, a5, a6

Ids == Request \cup {e1, g1, p1, p2, p3}
Table(rows) == [i \in Ids |-> IF i \in DOMAIN rows THEN rows[i] ELSE Nothing]

(* A household of three, one archived with money in; e1 was paid for by 2. *)
MCGroupStart ==
    [member |-> 1 :> "ACTIVE" @@ 2 :> "ACTIVE" @@ 3 :> "ARCHIVED" @@ 4 :> "UNUSED" @@ 5 :> "UNUSED" @@ 6 :> "UNUSED",
     contribution |-> Table(e1 :> [member |-> 3, amount |-> 5, day |-> 1]),
     expense |-> Table(e1 :> [member |-> Nothing, amount |-> 7, day |-> 1]),
     category |-> Table(<<>>), budget |-> Table(<<>>), closed |-> Table(<<>>)]

MCDefaultCategory == e1 :> "Rent" @@ g1 :> "Other"

NewRow(t, m, n, d) ==
    [op |-> "row", table |-> t, id |-> Nothing, row |-> [member |-> m, amount |-> n, day |-> d]]
Label(t, i, n) == [op |-> "label", table |-> t, id |-> i, name |-> n]
CloseFrom(f, t) == [op |-> "close", from |-> f, to |-> t]

Settling ==
    {CloseFrom(1, 1), CloseFrom(1, 2), CloseFrom(2, 1), [op |-> "join"],
     [op |-> "leave", member |-> 2], [op |-> "member", member |-> 1, status |-> "ARCHIVED"],
     NewRow("expense", 2, 4, 2), NewRow("contribution", 2, -3, 1),
     [op |-> "row", table |-> "contribution", id |-> e1, row |-> Nothing],
     [op |-> "row", table |-> "expense", id |-> e1, row |-> [member |-> 2]]}

Labelling ==
    {[op |-> "categories"], Label("category", Nothing, "Rent"), Label("category", e1, "Rent"), Label("budget", Nothing, 5),
     Label("category", e1, Nothing), Label("category", g1, "Rent")}

(* Two workspaces; e1 was paid last month, g1 failed.                       *)
MCBillStart ==
    [plan |-> Table(p1 :> [slug |-> "free", active |-> TRUE, price |-> 0, cycle |-> "FREE"]
                    @@ p2 :> [slug |-> "pro", active |-> TRUE, price |-> 12, cycle |-> "MONTHLY"]
                    @@ p3 :> [slug |-> "year", active |-> TRUE, price |-> 24, cycle |-> "YEARLY"]),
     coupon |-> Table(e1 :> [code |-> "EID", active |-> TRUE, from |-> 10, until |-> 50, most |-> 1, redeemed |-> 1]
                      @@ g1 :> [code |-> "NEW", active |-> TRUE, from |-> 10, until |-> 50, most |-> Nothing, redeemed |-> 0]),
     payment |-> Table(p1 :> [user |-> 2, plan |-> p2, amount |-> 12, status |-> "SUCCESS", at |-> 0, coupon |-> Nothing, off |-> 0]
                       @@ e1 :> [user |-> 1, plan |-> p2, amount |-> 9, status |-> "SUCCESS", at |-> 22, coupon |-> e1, off |-> 3]
                       @@ g1 :> [user |-> 2, plan |-> p2, amount |-> 12, status |-> "FAILED", at |-> 25, coupon |-> Nothing, off |-> 0]),
     refund |-> Table(<<>>), invoice |-> Table(p1 :> 1 @@ e1 :> 2),
     on |-> 1 :> [plan |-> p2, default |-> TRUE, active |-> TRUE] @@ 2 :> [plan |-> p1, default |-> TRUE, active |-> TRUE],
     moved |-> Table(<<>>), audit |-> Table(<<>>)]

OnRow(o, i) == [op |-> o, id |-> i]
Change(o, i, row) == [op |-> o, id |-> i, row |-> row]
NewCoupon(c, f, t) ==
    [op |-> "coupon", row |-> [code |-> c, active |-> TRUE, from |-> f, until |-> t, most |-> Nothing, redeemed |-> 0]]
RefundOf(i, n) == [op |-> "refund", id |-> i, amount |-> n]
PayFor(u, p) == [op |-> "simulate", user |-> u, plan |-> p]
MoveTo(w, p) == [op |-> "move", workspace |-> w, plan |-> p]

Billed ==
    {PayFor(1, p2), PayFor(2, p3), RefundOf(e1, 9), RefundOf(e1, 4), RefundOf(g1, 1), OnRow("retry", g1),
     OnRow("retry", e1), Change("drop-plan", p3, <<>>), Change("drop-plan", p1, <<>>),
     MoveTo(1, p1), MoveTo(2, p3)}

Pricing ==
    {[op |-> "plan", row |-> [slug |-> "team", active |-> TRUE, price |-> 12, cycle |-> "MONTHLY"]],
     Change("edit-plan", p2, [slug |-> "team"]), Change("edit-plan", p1, [slug |-> "team"]), Change("archive-plan", p3, [active |-> FALSE]),
     Change("edit-plan", p3, [price |-> 36]), Change("drop-plan", p3, <<>>), PayFor(2, p3),
     NewCoupon("NEW", 1, 2), NewCoupon("TEN", 1, 2), NewCoupon("TWO", 2, 2), Change("edit-coupon", e1, [code |-> "TEN"]),
     Change("edit-coupon", g1, [until |-> 20]), Change("drop-coupon", g1, <<>>), Change("drop-coupon", e1, <<>>)}

(* User 1 has a personal workspace p1 and a locked business e1.            *)
MCPlanOf == 1 :> [price |-> 99901, cycle |-> "YEARLY"] @@ 2 :> [price |-> 501, cycle |-> "MONTHLY"]
StartRow(u, t, d, p) == [owner |-> u, type |-> t, default |-> d, pin |-> p, deleted |-> FALSE]
OldPin == [pin |-> "1", by |-> e1]
MCWorkStart ==
    [row |-> Table(p1 :> StartRow(1, "PERSONAL", TRUE, Nothing) @@ e1 :> StartRow(1, "BUSINESS", FALSE, OldPin)
                   @@ p2 :> StartRow(2, "PERSONAL", TRUE, Nothing) @@ p3 :> StartRow(2, "GROUP", FALSE, Nothing)),
     books |-> [i \in Ids |-> 0], pins |-> [i \in Ids |-> 0],
     unlock |-> [r \in Request |-> Nothing], entered |-> [r \in Request |-> Nothing]]

Inside(o, u, s, w) == [op |-> o, user |-> u, session |-> s, id |-> w]
WithPin(o, w, p) == Inside(o, 1, "s", w) @@ [pin |-> p]
NewWorkspace(u, t, p) == [op |-> "workspace", user |-> u, session |-> "s", type |-> t, pin |-> p]

Locking ==
    {Inside("open", 1, "s", e1), Inside("open", 1, "t", e1), WithPin("verify-pin", e1, "1"),
     WithPin("edit", e1, "1"), WithPin("edit", e1, "2"), WithPin("edit", e1, Nothing),
     Inside("reset-pin", 1, "s", e1) @@ [knows |-> TRUE]}
Opening ==
    {NewWorkspace(1, "BUSINESS", Nothing), NewWorkspace(1, "GROUP", "1"), NewWorkspace(1, "PERSONAL", Nothing),
     NewWorkspace(2, "BUSINESS", Nothing), Inside("open", 2, "s", p3), Inside("delete", 2, "s", p3),
     Inside("delete", 2, "s", p2), Inside("delete", 1, "s", p3), Inside("reset-pin", 1, "s", e1) @@ [knows |-> FALSE]}

MCVaultStart ==
    [hash |-> [password |-> "a", by |-> e1], sets |-> 0,
     entry |-> Table(e1 :> [owner |-> 1, login |-> "x", sealed |-> FALSE] @@ g1 :> [owner |-> 2, login |-> "y", sealed |-> FALSE]),
     token |-> Table(e1 :> [hash |-> [password |-> "a", by |-> e1], at |-> 0]),
     opened |-> [r \in Request |-> Nothing], wiped |-> {}]

VaultBody(o) == [op |-> o, user |-> 1]
Hiding ==
    {VaultBody("list"), VaultBody("save") @@ [login |-> "z"], VaultBody("change-entry") @@ [id |-> e1, login |-> "z"],
     VaultBody("drop-entry") @@ [id |-> e1], VaultBody("drop-entry") @@ [id |-> g1],
     VaultBody("unlock") @@ [password |-> "a"], VaultBody("reset-vault") @@ [password |-> "a", knows |-> TRUE],
     VaultBody("vault-password") @@ [password |-> "a", current |-> "a", knows |-> TRUE],
     VaultBody("vault-password") @@ [password |-> "b", current |-> "b", knows |-> TRUE],
     VaultBody("reset-vault") @@ [password |-> "a", knows |-> FALSE]}

(* a1 (the savings pool), a2 and the reserved a3 are of one type, a4 is of  *)
(* another, a5 is yet to be created, and a6 is archived under a2.           *)
MCAccounts == {a1, a2, a3, a4, a5, a6}
MCStatus0 == [y \in MCAccounts |-> CASE y = a5 -> "UNUSED" [] y = a6 -> "ARCHIVED" [] OTHER -> "ACTIVE"]
MCParent0 == [y \in MCAccounts |-> IF y = a6 THEN a2 ELSE NoParent]
MCKind == [y \in MCAccounts |-> IF y = a4 THEN "asset" ELSE "expense"]
Reparent(y, z) == [op |-> "reparent", account |-> y, parent |-> z]
CreateUnder(z) == [op |-> "create", account |-> a5, parent |-> z]
OnAccount(o, y) == [op |-> o, account |-> y]

Growing ==
    {Reparent(a1, a2), Reparent(a2, a1), Reparent(a1, a4), Reparent(a1, NoParent), CreateUnder(a2), CreateUnder(a4),
     OnAccount("archive", a1), OnAccount("archive", a2), OnAccount("archive", a3), OnAccount("unarchive", a1), OnAccount("unarchive", a6),
     OnAccount("unarchive", a2), OnAccount("remove", a1), OnAccount("remove", a2), OnAccount("retype", a1),
     OnAccount("retype", a3), OnAccount("post", a4), OnAccount("remove", a4), OnAccount("remove", a6), Reparent(a1, a6)}

(* The account e1 has money for one purchase; g1 was acquired for nothing.  *)
MCAssetStart ==
    [row |-> Table(g1 :> [price |-> 3, value |-> 3, account |-> Nothing, sold |-> Nothing]),
     history |-> [i \in Ids |-> IF i = g1 THEN <<3>> ELSE <<>>],
     money |-> e1 :> 5 @@ g1 :> 0, pool |-> Nothing, pools |-> 0,
     category |-> Table(<<>>), posted |-> [r \in Request |-> Nothing]]
MCAssetName == e1 :> "Land" @@ g1 :> "Other"
Buy(a, n) == [op |-> "buy", account |-> a, price |-> n]
AssetLabel(i, n) == [op |-> "asset-category", id |-> i, name |-> n]
Owning ==
    {Buy(e1, 4), Buy(e1, 3), Buy(g1, 1), Buy(Nothing, 2), [op |-> "sell", id |-> g1, account |-> g1, price |-> 4],
     [op |-> "revalue", id |-> g1, value |-> 5], [op |-> "sell", id |-> e1, account |-> g1, price |-> 4],
     [op |-> "asset-categories"], AssetLabel(Nothing, "Land"), AssetLabel(e1, "Gold"), AssetLabel(g1, Nothing)}

(* p1 is the sheet of last month, e1 a challenge, g1 the sheet of this     *)
(* month; the habit e1 was checked yesterday.                              *)
MCHabitStart ==
    [sheet |-> Table(p1 :> [kind |-> "Namaz", month |-> 1, days |-> Nothing, items |-> <<"Fajr">>]
                     @@ g1 :> [kind |-> "Namaz", month |-> 2, days |-> Nothing, items |-> <<"Fajr">>]
                     @@ e1 :> [kind |-> "Others", month |-> Nothing, days |-> 3, items |-> <<"Run", "Walk">>]),
     tick |-> {<<e1, 1, "Run">>}, added |-> {}, since |-> {}, cleared |-> {}, lost |-> {},
     row |-> Table(e1 :> [archived |-> FALSE] @@ g1 :> [archived |-> FALSE]),
     log |-> <<e1, 1>> :> TRUE]

SheetOf(kind, month, days) == [op |-> "sheet", kind |-> kind, month |-> month, days |-> days]
Tick(s, d, i, c) == [op |-> "tick", id |-> s, day |-> d, item |-> i, checked |-> c]
Column(o, s, i) == [op |-> o, id |-> s, item |-> i]
Ticking ==
    {Tick(e1, 1, "Run", FALSE), Tick(e1, 2, "Run", TRUE), Tick(e1, 4, "Run", TRUE), Tick(e1, 2, "Swim", TRUE),
     Column("add-column", e1, "Swim"), Column("add-column", e1, "Read"),
     Column("drop-column", e1, "Run"), [op |-> "drop-sheet", id |-> e1]}
Keeping ==
    {Tick(g1, 2, "Fajr", TRUE), Tick(g1, 3, "Fajr", TRUE), Tick(p1, 3, "Fajr", TRUE), Column("add-column", g1, "Run"),
     SheetOf("Namaz", 2, Nothing), SheetOf("Namaz", 3, Nothing), SheetOf("Ramadan", 9, 3), SheetOf("Others", Nothing, 2),
     [op |-> "habit"], [op |-> "drop-habit", id |-> e1], [op |-> "drop-habit", id |-> g1],
     [op |-> "check-in", id |-> g1, day |-> 2, completed |-> TRUE], [op |-> "check-out", id |-> e1, day |-> 1],
     [op |-> "edit-habit", id |-> e1, archived |-> TRUE]}

(* e1 is a skill at 2 of 4, of which 1 was learned today; g1 a finished    *)
(* book.                                                                   *)
MCShelfStart ==
    [item |-> Table(e1 :> [kind |-> "skill", status |-> "doing", progress |-> 2, total |-> 4, logged |-> 2, started |-> TRUE, updatedAt |-> 0]
                    @@ g1 :> [kind |-> "book", status |-> "done", progress |-> 3, total |-> 3, logged |-> 3, started |-> TRUE, updatedAt |-> 0]),
     log |-> [i \in Ids |-> IF i = e1 THEN 1 ELSE 0], goal |-> "skill" :> 2 @@ "book" :> Nothing]
MCMaxOnShelf == "skill" :> 2 @@ "book" :> 2
Shelve(k, c) == [op |-> "shelve", kind |-> k, change |-> c]
Edit(i, c) == [op |-> "progress", id |-> i, change |-> c]
Shelving ==
    {Shelve("skill", [total |-> 2]), Shelve("skill", [total |-> 2, progress |-> 2]), Shelve("book", [total |-> 2, progress |-> 3]),
     Edit(e1, [progress |-> 3]), Edit(e1, [progress |-> 1]), Edit(e1, [status |-> "done", progress |-> 1]),
     Edit(e1, [status |-> "todo"]), Edit(e1, [total |-> 1]), Edit(g1, [total |-> 5]), Edit(g1, [status |-> "doing"]),
     Edit(g1, [progress |-> 0]), [op |-> "unshelve", id |-> e1], [op |-> "year-goal", kind |-> "book", target |-> Nothing]}

(* e1 and p1 are categories for spending and g1 is one for income, of the  *)
(* name of e1; p1 and p3 were spent on e1, in month 0, and p2 was earned   *)
(* for g1 in month 1.                                                      *)
MCLedgerAccount ==
    LET row(t, m, n) == [type |-> t, money |-> m, active |-> TRUE, order |-> n]
    IN  a1 :> row("ASSET", TRUE, 0) @@ a2 :> row("ASSET", TRUE, 1) @@ a3 :> row("INCOME", FALSE, 0)
          @@ a4 :> row("EXPENSE", FALSE, 0)
MCBudgetStart ==
    LET entry(t, n, d, w, c) == [type |-> t, name |-> "Other", amount |-> n, day |-> d, wallet |-> w,
                                 live |-> TRUE, reverses |-> FALSE, of |-> c]
    IN  [category |-> Table(e1 :> [type |-> "EXPENSE", name |-> "Other", limit |-> 5, order |-> 0]
                            @@ p1 :> [type |-> "EXPENSE", name |-> "Pets", limit |-> 7, order |-> 1]
                            @@ g1 :> [type |-> "INCOME", name |-> "Other", limit |-> Nothing, order |-> 0]),
         goal |-> Table(p1 :> [month |-> 1, amount |-> 9]),
         entry |-> Table(p1 :> entry("EXPENSE", 1, 0, a1, e1) @@ p2 :> entry("INCOME", 2, 3, a2, g1)
                         @@ p3 :> entry("EXPENSE", 4, 1, a2, e1)),
         target |-> Nothing, crossed |-> {}, stray |-> {}]

Quick(c, n, d, w) == [op |-> "quick-entry", category |-> c, amount |-> n, day |-> d, wallet |-> w,
                      account |-> IF c = g1 THEN Nothing ELSE a4]
Rename(c, n) == [op |-> "edit-category", category |-> c, name |-> n]
Planning ==
    {[op |-> "new-category", type |-> "EXPENSE", name |-> "Food", limit |-> 3], Rename(e1, "Food"), Rename(g1, "Pay"),
     [op |-> "drop-category", category |-> e1], Rename(e1, "Rent"), [op |-> "target", amount |-> 6],
     [op |-> "new-goal", month |-> 0, amount |-> 3], [op |-> "edit-goal", goal |-> p1, month |-> 0],
     [op |-> "drop-goal", goal |-> p1], Quick(e1, 8, 2, a1), Quick(g1, 16, 3, a2), Quick(e1, 8, 1, a3),
     [op |-> "void-entry", entry |-> p3, day |-> 2], [op |-> "void-entry", entry |-> p2, day |-> 3]}

MCTodoStart ==
    [list |-> Table(e1 :> 1 @@ g1 :> 3), pushed |-> [r \in Request |-> Nothing],
     task |-> Table(e1 :> [list |-> e1, completed |-> FALSE] @@ p1 :> [list |-> g1, completed |-> TRUE])]
OnTask(o, l, t) == [op |-> o, list |-> l, id |-> t]
Listing ==
    {[op |-> "todo-list", date |-> 2], [op |-> "todo-list", date |-> 4], [op |-> "todo-list", date |-> 3],
     [op |-> "drop-list", id |-> e1], [op |-> "drop-list", id |-> g1], [op |-> "task", list |-> e1],
     OnTask("check-task", e1, e1) @@ [completed |-> TRUE], OnTask("drop-task", e1, e1), OnTask("drop-task", g1, e1),
     OnTask("push-task", e1, e1), OnTask("push-task", g1, p1)}

(* Renames of e1 and of another category that takes its name, and entries. *)
Renaming ==
    {Rename(e1, "Food"), Rename(e1, "Rent"), Rename(e1, "Other"), Rename(p1, "Other"), Rename(p1, "Rent"),
     Quick(e1, 8, 2, a1), Quick(p1, 16, 2, a1), [op |-> "void-entry", entry |-> p3, day |-> 2]}

JustTicks == {[bodies |-> Ticking, atMost |-> 3]}
JustTree == {[bodies |-> Growing, atMost |-> 2]}

Mixed ==
    {[bodies |-> Ticking, atMost |-> 3], [bodies |-> Keeping, atMost |-> 2], [bodies |-> Planning, atMost |-> 2], [bodies |-> Renaming, atMost |-> 3],
     [bodies |-> Shelving, atMost |-> 3], [bodies |-> Listing, atMost |-> 2],
     [bodies |-> Growing, atMost |-> 2], [bodies |-> Owning, atMost |-> 3],
     [bodies |-> Locking, atMost |-> 3], [bodies |-> Opening, atMost |-> 3], [bodies |-> Hiding, atMost |-> 3],
     [bodies |-> Settling, atMost |-> 3], [bodies |-> Labelling, atMost |-> 3],
     [bodies |-> Billed, atMost |-> 3], [bodies |-> Pricing, atMost |-> 2]}

Symmetry == Permutations(Request)

workspaceTables ==
    <<group, bill, work, vault, chart, asset, habit, shelf, todo, budget>>

Init ==
    /\ RequestsInit
    /\ GroupInit /\ BillInit /\ WorkInit /\ VaultInit /\ TreeInit /\ AssetInit
    /\ HabitInit /\ ShelfInit /\ TodoInit /\ BudgetInit

Next ==
    \/ \E r \in Request : GroupStep(r) /\ UNCHANGED <<bill, work, vault, chart, asset, habit, shelf, todo, budget>>
    \/ \E r \in Request : BillStep(r) /\ UNCHANGED <<group, work, vault, chart, asset, habit, shelf, todo, budget>>
    \/ \E r \in Request : WorkStep(r) /\ UNCHANGED <<group, bill, vault, chart, asset, habit, shelf, todo, budget>>
    \/ \E r \in Request : VaultStep(r) /\ UNCHANGED <<group, bill, work, chart, asset, habit, shelf, todo, budget>>
    \/ \E r \in Request : TreeStep(r) /\ UNCHANGED <<group, bill, work, vault, asset, habit, shelf, todo, budget>>
    \/ \E r \in Request : AssetStep(r) /\ UNCHANGED <<group, bill, work, vault, chart, habit, shelf, todo, budget>>
    \/ \E r \in Request : HabitStep(r) /\ UNCHANGED <<group, bill, work, vault, chart, asset, shelf, todo, budget>>
    \/ \E r \in Request : ShelfStep(r) /\ UNCHANGED <<group, bill, work, vault, chart, asset, habit, todo, budget>>
    \/ \E r \in Request : TodoStep(r) /\ UNCHANGED <<group, bill, work, vault, chart, asset, habit, shelf, budget>>
    \/ \E r \in Request : BudgetStep(r) /\ UNCHANGED <<group, bill, work, vault, chart, asset, habit, shelf, todo>>
    \/ \E r \in Request : Abort(r) /\ UNCHANGED workspaceTables
    \/ AllAnswered /\ UNCHANGED <<requests, workspaceTables>>

Spec == Init /\ [][Next]_<<requests, workspaceTables>>
=============================================================================
