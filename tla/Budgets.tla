------------------------------ MODULE Budgets -------------------------------
(***************************************************************************)
(* BudgetsService, QuickEntriesService and the category pages of           *)
(* ReportsService, in one workspace.  An entry names its category by its   *)
(* name; what was spent or earned is summed from the entries when a page   *)
(* is shown.  Only the entry of a transaction that carries the category is *)
(* kept here, with the wallet on the other side; days are numbered, and a  *)
(* month has MonthLength of them.                                          *)
(***************************************************************************)
EXTENDS Requests, Sums

CONSTANTS
    MonthLength,
    MaxReportMonths,
    LedgerAccount,  \* [type, money, active, order] of each account
    BudgetStart     \* the tables at the start

OfType(a, type) == LedgerAccount[a].type = type

MoneyAccount(a) == OfType(a, "ASSET") /\ LedgerAccount[a].money

BudgetIds == DOMAIN BudgetStart.category

EntryTypes == {"EXPENSE", "INCOME"}

CategoryRow == [type : EntryTypes, name : STRING, limit : Int \cup {Nothing}, order : Int]

EntryRow ==
    [type : EntryTypes, name : STRING, amount : Int, day : Int, wallet : DOMAIN LedgerAccount,
     live : BOOLEAN, reverses : BOOLEAN, of : BudgetIds]

GoalRow == [month : Int, amount : Int]

(* At the start no two categories of a type share a name and no two goals  *)
(* a month, and the entries bear the name of the category they are meant   *)
(* for and were paid from, or into, a wallet.                              *)
ASSUME BudgetAssumption ==
    LET category == BudgetStart.category
        entry == BudgetStart.entry
        goal == BudgetStart.goal
        rows == {c \in BudgetIds : category[c] # Nothing}
    IN  /\ MonthLength \in Nat \ {0} /\ IsFiniteSet(DOMAIN LedgerAccount)
        /\ DOMAIN BudgetStart = {"category", "goal", "entry", "target", "crossed", "stray"}
        /\ IsFiniteSet(BudgetIds) /\ Request \subseteq BudgetIds
        /\ Nothing \notin CategoryRow \cup EntryRow \cup GoalRow \cup BudgetIds \cup DOMAIN LedgerAccount
        /\ category \in [BudgetIds -> CategoryRow \cup {Nothing}]
        /\ entry \in [BudgetIds -> EntryRow \cup {Nothing}]
        /\ goal \in [BudgetIds -> GoalRow \cup {Nothing}]
        /\ \A g, h \in BudgetIds :
              goal[g] # Nothing /\ goal[h] # Nothing /\ goal[g].month = goal[h].month => g = h
        /\ \A c, d \in rows :
              category[c].type = category[d].type /\ category[c].name = category[d].name => c = d
        /\ \A e \in BudgetIds : entry[e] # Nothing =>
              LET c == entry[e].of
              IN  /\ c \notin Request /\ MoneyAccount(entry[e].wallet)
                  /\ c \in rows => entry[e].type = category[c].type /\ entry[e].name = category[c].name
        /\ \A r \in Request : category[r] = Nothing /\ entry[r] = Nothing

(* What a request says fits the tables.                                    *)
BudgetBodyFits(b) ==
    /\ b.op = "new-category" =>
          b.type \in EntryTypes /\ b.name \in STRING /\ b.limit \in Int \cup {Nothing}
    /\ b.op \in {"edit-category", "drop-category", "quick-entry"} => b.category \in BudgetIds
    /\ b.op = "edit-category" => b.name \in STRING
    /\ b.op = "quick-entry" => b.amount \in Int /\ b.day \in Int /\ b.wallet \in DOMAIN LedgerAccount
    /\ b.op = "new-goal" => b.month \in Int /\ b.amount \in Int
    /\ b.op \in {"edit-goal", "drop-goal"} => b.goal \in BudgetIds
    /\ b.op = "edit-goal" => b.month \in Int
    /\ b.op = "void-entry" => b.entry \in BudgetIds /\ b.day \in Int

ASSUME BudgetBodies == \A s \in Scenario : \A b \in s.bodies : BudgetBodyFits(b)

VARIABLE budget  \* category: [type, name, limit, order] by id
                 \* goal: the income goals, [month, amount] by id
                 \* entry: [type, name, amount, day, wallet, live, reverses,
                 \*   of] by id; of: the category it was meant for
                 \* target: the monthly budget
                 \* crossed: the categories of which two renames crossed
                 \* stray: the entries written by a name that was no longer
                 \*   the category's, or while a rename was under way that
                 \*   had already looked for the entries

BudgetInit == budget = BudgetStart

BudgetRows(t) == {i \in DOMAIN budget[t] : budget[t][i] # Nothing}

BudgetStays == UNCHANGED budget

(***************************************************************************)
(* Categories                                                              *)
(***************************************************************************)
NameTaken(type, name, but) ==
    \E c \in BudgetRows("category") \ {but} :
        budget.category[c].type = type /\ budget.category[c].name = name

CategoryCount(type) == Cardinality({c \in BudgetRows("category") : budget.category[c].type = type})

FindCategoryName(r) ==
    LET b == body[r]
    IN  /\ At(r, "new-category", "start")
        /\ IF (b.type = "EXPENSE" /\ b.limit = Nothing) \/ NameTaken(b.type, b.name, Nothing)
           THEN Finish(r) ELSE Keep(r, "insert", CategoryCount(b.type))
        /\ BudgetStays

(* The unique index refuses a name taken meanwhile.                        *)
InsertCategory(r) ==
    LET b == body[r]
    IN  /\ At(r, "new-category", "insert")
        /\ budget' = IF NameTaken(b.type, b.name, Nothing) THEN budget
                     ELSE [budget EXCEPT !.category[r] =
                              [type |-> b.type, name |-> b.name, order |-> mem[r],
                               limit |-> IF b.type = "EXPENSE" THEN b.limit ELSE Nothing]]
        /\ Finish(r)

RequireCategory(r) ==
    LET row == budget.category[body[r].category]
    IN  /\ body[r].op \in {"edit-category", "drop-category"} /\ pc[r] = "start"
        /\ IF row = Nothing THEN Finish(r) ELSE Keep(r, "category", [row |-> row, entries |-> {}])
        /\ BudgetStays

(* A name that stays the same is not taken along.                          *)
CheckClash(r) ==
    LET read == mem[r].row
    IN  /\ At(r, "edit-category", "category")
        /\ IF NameTaken(read.type, body[r].name, body[r].category) THEN Finish(r)
           ELSE Await(r, IF body[r].name = read.name THEN "save" ELSE "find-entries")
        /\ BudgetStays

(* Bug: the entries of the other type that bear the name come along.       *)
BearingAnyType(row) == {e \in BudgetRows("entry") : budget.entry[e].name = row.name}

Bearing(row) ==
    {e \in BudgetRows("entry") : budget.entry[e].name = row.name /\ budget.entry[e].type = row.type}

(* A rename carries the entries of the category's type along: those there  *)
(* are when the update of them starts.                                     *)
FindEntries(r) ==
    /\ At(r, "edit-category", "find-entries")
    /\ Keep(r, "claim-entries", [mem[r] EXCEPT !.entries = Bearing(mem[r].row)])
    /\ BudgetStays

(* The entries it finds are written once no other rename has them, if they *)
(* bear the name still; until it commits nobody sees it.                   *)
ClaimEntries(r) ==
    /\ At(r, "edit-category", "claim-entries")
    /\ \A q \in Request : At(q, "edit-category", "save") => mem[q].entries \cap mem[r].entries = {}
    /\ Keep(r, "save", [mem[r] EXCEPT !.entries = @ \cap Bearing(mem[r].row)])
    /\ BudgetStays

(* The renames of a category that have looked for its entries.             *)
Renames(c) ==
    {q \in Request :
        /\ body[q].op = "edit-category" /\ body[q].category = c
        /\ pc[q] = "claim-entries" \/ (pc[q] = "save" /\ body[q].name # mem[q].row.name)}

(* Whom a rename crosses: the category, if another rename came between, or *)
(* is now overtaken in turn; and the one that goes by the old name now.    *)
Crossed(r) ==
    LET c == body[r].category
        read == mem[r].row
        now == budget.category[c].name
    IN  {d \in BudgetRows("category") : now # read.name /\ budget.category[d].name = read.name}
          \cup (IF now # read.name \/ (now # body[r].name /\ Renames(c) \ {r} # {}) THEN {c} ELSE {})

(* The category, and the commit: nothing, if the category has gone or the  *)
(* name has been taken.                                                    *)
SaveCategory(r) ==
    LET b == body[r]
        kept == budget.category[b.category] # Nothing /\ ~NameTaken(mem[r].row.type, b.name, b.category)
    IN  /\ At(r, "edit-category", "save")
        /\ budget' = IF ~kept THEN budget
                     ELSE [budget EXCEPT !.category[b.category].name = b.name,
                                         !.entry = [e \in DOMAIN @ |->
                                             IF e \in mem[r].entries THEN [@[e] EXCEPT !.name = b.name] ELSE @[e]],
                                         !.crossed = @ \cup Crossed(r)]
        /\ Finish(r)

DropCategory(r) ==
    /\ At(r, "drop-category", "category")
    /\ budget' = [budget EXCEPT !.category[body[r].category] = Nothing]
    /\ Finish(r)

SetTarget(r) ==
    /\ At(r, "target", "start")
    /\ budget' = [budget EXCEPT !.target = body[r].amount]
    /\ Finish(r)

(***************************************************************************)
(* Income goals: one a month                                               *)
(***************************************************************************)
MonthTaken(m, but) == \E g \in BudgetRows("goal") \ {but} : budget.goal[g].month = m

FindGoalOf(r) ==
    /\ At(r, "new-goal", "start")
    /\ IF MonthTaken(body[r].month, Nothing) THEN Finish(r) ELSE Await(r, "insert")
    /\ BudgetStays

InsertGoal(r) ==
    /\ At(r, "new-goal", "insert")
    /\ budget' = IF MonthTaken(body[r].month, Nothing) THEN budget
                 ELSE [budget EXCEPT !.goal[r] = [month |-> body[r].month, amount |-> body[r].amount]]
    /\ Finish(r)

RequireIncomeGoal(r) ==
    /\ body[r].op \in {"edit-goal", "drop-goal"} /\ pc[r] = "start"
    /\ IF budget.goal[body[r].goal] = Nothing THEN Finish(r)
       ELSE Await(r, IF body[r].op = "edit-goal" THEN "clash" ELSE "save")
    /\ BudgetStays

CheckMonth(r) ==
    /\ At(r, "edit-goal", "clash")
    /\ IF MonthTaken(body[r].month, body[r].goal) THEN Finish(r) ELSE Await(r, "save")
    /\ BudgetStays

MoveGoal(r) ==
    LET g == body[r].goal
    IN  /\ At(r, "edit-goal", "save")
        /\ budget' = IF budget.goal[g] = Nothing \/ MonthTaken(body[r].month, g) THEN budget
                     ELSE [budget EXCEPT !.goal[g].month = body[r].month]
        /\ Finish(r)

DropGoal(r) ==
    /\ At(r, "drop-goal", "save")
    /\ budget' = [budget EXCEPT !.goal[body[r].goal] = Nothing]
    /\ Finish(r)

(***************************************************************************)
(* Quick entries, and voiding one                                          *)
(***************************************************************************)
(* The active account of the lowest display order.                         *)
DefaultIncomeAccount ==
    LET active == {a \in DOMAIN LedgerAccount : OfType(a, "INCOME") /\ LedgerAccount[a].active}
    IN  {a \in active : \A other \in active : LedgerAccount[a].order <= LedgerAccount[other].order}

(* The form offers the names there are; its accounts are looked up.        *)
RequireAccounts(r) ==
    LET b == body[r]
    IN  /\ At(r, "quick-entry", "start")
        /\ IF /\ budget.category[b.category] # Nothing
              /\ MoneyAccount(b.wallet)
              /\ IF b.account = Nothing THEN DefaultIncomeAccount # {}
                 ELSE OfType(b.account, budget.category[b.category].type)
           THEN Keep(r, "post-entry", [row |-> budget.category[b.category]]) ELSE Finish(r)
        /\ BudgetStays

Astray(c, read) ==
    budget.category[c] # Nothing /\ (budget.category[c].name # read.name \/ Renames(c) # {})

PostEntry(r) ==
    LET b == body[r]
        read == mem[r].row
    IN  /\ At(r, "quick-entry", "post-entry")
        /\ budget' = [budget EXCEPT
              !.entry[r] = [type |-> read.type, name |-> read.name, amount |-> b.amount,
                            day |-> b.day, wallet |-> b.wallet, live |-> TRUE, reverses |-> FALSE,
                            of |-> b.category],
              !.stray = @ \cup (IF Astray(b.category, read) THEN {r} ELSE {})]
        /\ Finish(r)

Voidable(e) == budget.entry[e] # Nothing /\ ~budget.entry[e].reverses /\ budget.entry[e].live

(* The ledger reads the transaction,                                       *)
FindOriginal(r) ==
    LET e == body[r].entry
    IN  /\ At(r, "void-entry", "start")
        /\ IF Voidable(e) THEN Keep(r, "reverse-entry", budget.entry[e]) ELSE Finish(r)
        /\ BudgetStays

(* marks it, unless another void has, and posts its reversal, dated the    *)
(* day of the void and with the category's name that was read.             *)
VoidEntry(r) ==
    LET e == body[r].entry
    IN  /\ At(r, "void-entry", "reverse-entry")
        /\ budget' = IF ~budget.entry[e].live THEN budget
                     ELSE [budget EXCEPT !.entry[e].live = FALSE,
                                         !.entry[r] = [mem[r] EXCEPT !.reverses = TRUE,
                                                                     !.day = body[r].day]]
        /\ Finish(r)

(***************************************************************************)
(* The pages                                                               *)
(***************************************************************************)
CountedFor(type, from, until) ==
    {e \in BudgetRows("entry") :
        LET row == budget.entry[e]
        IN  row.live /\ ~row.reverses /\ row.type = type /\ row.day >= from /\ row.day < until}

EntryAmount == [e \in BudgetRows("entry") |-> budget.entry[e].amount]

Amounts(entries) == SumOver(EntryAmount, entries)

Named(entries, name) == {e \in entries : budget.entry[e].name = name}

MonthStart(m) == m * MonthLength

InMonth(type, m) == CountedFor(type, MonthStart(m), MonthStart(m + 1))

(* getOverview() and listIncomeGoals()                                     *)
Overview(type, m) ==
    LET rows == {c \in BudgetRows("category") : budget.category[c].type = type}
    IN  [c \in rows |-> Amounts(Named(InMonth(type, m), budget.category[c].name))]

Earned(g) == Amounts(InMonth("INCOME", budget.goal[g].month))

(* getCategoryBreakdown(); both ends of the range count.                   *)
CategoryBreakdown(type, from, to) ==
    LET counted == CountedFor(type, from, to + 1)
    IN  [n \in {budget.entry[e].name : e \in counted} |-> Amounts(Named(counted, n))]

Total(rows) == SumOver(rows, DOMAIN rows)

(* Bug: the last month is counted to its end.                              *)
BucketsUnclipped(from, to) ==
    {[month |-> m, start |-> IF MonthStart(m) > from THEN MonthStart(m) ELSE from,
      until |-> MonthStart(m + 1)] : m \in (from \div MonthLength) .. (to \div MonthLength)}

(* The months the range touches, each clipped to it; none, if backwards or *)
(* too many.                                                               *)
MonthBuckets(from, to) ==
    LET months == (from \div MonthLength) .. (to \div MonthLength)
    IN  IF to < from \/ Cardinality(months) > MaxReportMonths THEN {}
        ELSE {[month |-> m, start |-> IF MonthStart(m) > from THEN MonthStart(m) ELSE from,
               until |-> IF MonthStart(m + 1) < to + 1 THEN MonthStart(m + 1) ELSE to + 1] : m \in months}

PaidWith(entries, wallet) == {e \in entries : wallet \in {Nothing, budget.entry[e].wallet}}

(* getMonthlyBreakdown(), of one wallet if one is asked for                *)
MonthlyBreakdown(type, from, to, wallet) ==
    [k \in MonthBuckets(from, to) |-> Amounts(PaidWith(CountedFor(type, k.start, k.until), wallet))]

(* getIncomeVsSavingsTrend(), for one of its months                        *)
TrendIncome(m) == Amounts(InMonth("INCOME", m))

BudgetStep(r) ==
    \/ FindCategoryName(r) \/ InsertCategory(r) \/ RequireCategory(r) \/ CheckClash(r)
    \/ FindEntries(r) \/ ClaimEntries(r) \/ SaveCategory(r) \/ DropCategory(r) \/ SetTarget(r)
    \/ FindGoalOf(r) \/ InsertGoal(r) \/ RequireIncomeGoal(r) \/ CheckMonth(r) \/ MoveGoal(r)
    \/ DropGoal(r) \/ RequireAccounts(r) \/ PostEntry(r) \/ FindOriginal(r) \/ VoidEntry(r)

(***************************************************************************)
(* Properties                                                              *)
(***************************************************************************)

(* "a rename carries this workspace's entries of the category's type       *)
(* along": what was entered for a category goes by the category's name, so *)
(* that it is counted for it, through every rename, also while renames of  *)
(* the category and of others that had or take its name wait for each      *)
(* other.  Set aside are the entry that was written by an old name, or     *)
(* between a rename's look at the entries and its commit, and the category *)
(* of which two renames crossed; reversals are counted nowhere.            *)
EntriesFollow ==
    \A e \in BudgetRows("entry") \ budget.stray :
        LET c == budget.entry[e].of
        IN  budget.category[c] # Nothing /\ c \notin budget.crossed /\ ~budget.entry[e].reverses =>
                budget.entry[e].name = budget.category[c].name

(* The months of a range sum up to the categories of the same range, for   *)
(* every wallet together and one by one; a month's categories, income goal *)
(* and trend are the same entries; no month has two goals and no two       *)
(* categories of a type the same name.                                     *)
Tallied ==
    LET days == 0 .. 2 * MonthLength - 1
        wallets == {a \in DOMAIN LedgerAccount : MoneyAccount(a)}
        range(type, from, to) == Total(CategoryBreakdown(type, from, to))
    IN  /\ \A type \in {"EXPENSE", "INCOME"} : \A from, to \in days : MonthBuckets(from, to) # {} =>
              /\ range(type, from, to) = Total(MonthlyBreakdown(type, from, to, Nothing))
              /\ range(type, from, to) =
                    Total([w \in wallets |-> Total(MonthlyBreakdown(type, from, to, w))])
        /\ \A type \in {"EXPENSE", "INCOME"} : \A m \in {0, 1} :
              LET rows == CategoryBreakdown(type, MonthStart(m), MonthStart(m + 1) - 1)
                  page == Overview(type, m)
              IN  \A c \in DOMAIN page :
                    LET name == budget.category[c].name
                    IN  page[c] = IF name \in DOMAIN rows THEN rows[name] ELSE 0
        /\ \A g \in BudgetRows("goal") :
              LET m == budget.goal[g].month
              IN  Earned(g) = TrendIncome(m) /\ Earned(g) = range("INCOME", MonthStart(m), MonthStart(m + 1) - 1)
        /\ \A g \in BudgetRows("goal") : ~MonthTaken(budget.goal[g].month, g)
        /\ \A c \in BudgetRows("category") : ~NameTaken(budget.category[c].type, budget.category[c].name, c)

(* The pages of the reports agree with each other after every change of    *)
(* the categories, goals and entries they are summed from.                 *)
PagesTally == [][budget' # budget => Tallied']_budget
=============================================================================
