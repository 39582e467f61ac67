---------------------------- MODULE GroupExpenses ----------------------------
(***************************************************************************)
(* GroupExpensesService: the members of a shared household, what they put  *)
(* in and spend, and the settlements that close a period.  One workspace;  *)
(* amounts are in paisa.                                                   *)
(***************************************************************************)
EXTENDS Requests, Sums

CONSTANTS
    Flatmate,   \* whoever may be a member, numbered in the order they join
    GroupStart, \* the tables at the start
    DefaultCategory  \* the names of the default expense categories, by id

GroupIds == DOMAIN GroupStart.expense

Amounted(row) == row = Nothing \/ ("amount" \in DOMAIN row /\ row.amount \in Int)

(* Two periods share no day.                                               *)
PeriodsApart(s, t) == s.to < t.from \/ t.to < s.from

SharesOf(rows) == [m \in DOMAIN rows |-> rows[m].share]

Settles(s) == SumOver(SharesOf(s.rows), DOMAIN s.rows) = s.total

ASSUME GroupAssumption ==
    LET closed == GroupStart.closed
        kept == {i \in DOMAIN closed : closed[i] # Nothing}
    IN  /\ DOMAIN GroupStart = {"member", "contribution", "expense", "category", "budget", "closed"}
        /\ IsFiniteSet(Flatmate) /\ Flatmate \subseteq Nat
        /\ IsFiniteSet(GroupIds) /\ Request \subseteq DOMAIN closed
        /\ \A i \in GroupIds : Amounted(GroupStart.expense[i])
        /\ \A i \in kept : closed[i].from \in Int /\ closed[i].to \in Int /\ Settles(closed[i])
        /\ \A i, j \in kept : i # j => PeriodsApart(closed[i], closed[j])

(* IsInt, and what the routes name.                                        *)
GroupBodyFits(b) ==
    /\ b.op = "row" =>
          /\ b.table \in {"contribution", "expense"}
          /\ b.row # Nothing =>
                /\ b.id = Nothing => "amount" \in DOMAIN b.row
                /\ "amount" \in DOMAIN b.row => b.row.amount \in Int
    /\ b.op = "label" => b.table \in {"category", "budget"}
    /\ b.op = "close" => b.from \in Int /\ b.to \in Int

ASSUME GroupBodies == \A s \in Scenario : \A b \in s.bodies : GroupBodyFits(b)

VARIABLE group  \* member: the status of each flatmate's row
                \* contribution, expense: [member, amount, day] by id
                \* category, budget: a name, or a month, by id
                \* closed: the settlement that a request has closed

GroupInit == group = GroupStart

IsMember(m) == group.member[m] \in {"ACTIVE", "ARCHIVED"}

HasRow(t, i) == group[t][i] # Nothing

GroupRows(t) == {i \in DOMAIN group[t] : HasRow(t, i)}

(***************************************************************************)
(* Members                                                                 *)
(***************************************************************************)
Join(r) ==
    LET unused == {m \in Flatmate : group.member[m] = "UNUSED"}
    IN  /\ At(r, "join", "start")
        /\ group' = [group EXCEPT !.member[Min(unused)] = "ACTIVE"]
        /\ Finish(r)

(* requireMember(), before updateMember and deleteMember.                  *)
FindMember(r) ==
    LET b == body[r]
    IN  /\ b.op \in {"member", "leave"} /\ pc[r] = "start"
        /\ IF IsMember(b.member)
           THEN Await(r, IF b.op = "leave" THEN "count" ELSE "write")
           ELSE Finish(r)
        /\ UNCHANGED group

UpdateMember(r) ==
    LET b == body[r]
    IN  /\ At(r, "member", "write")
        /\ group' = IF IsMember(b.member)
                    THEN [group EXCEPT !.member[b.member] = b.status]
                    ELSE group
        /\ Finish(r)

MembersRows(t, m) == {i \in GroupRows(t) : group[t][i].member = m}

SettledWith(m) == {i \in GroupRows("closed") : m \in DOMAIN group.closed[i].rows}

(* The three counts of deleteMember().                                     *)
CountMember(r) ==
    LET m == body[r].member
        used == MembersRows("contribution", m) \cup MembersRows("expense", m) \cup SettledWith(m)
    IN  /\ At(r, "leave", "count")
        /\ Await(r, IF used = {} THEN "delete" ELSE "archive")
        /\ UNCHANGED group

(* The foreign keys of contributions and settlements refuse the delete;    *)
(* that of an expense clears who paid it.                                  *)
DeleteMember(r) ==
    LET m == body[r].member
    IN  /\ At(r, "leave", "delete")
        /\ group' =
             IF IsMember(m) /\ MembersRows("contribution", m) \cup SettledWith(m) = {}
             THEN [group EXCEPT !.member[m] = "DELETED",
                                !.expense = [i \in DOMAIN @ |->
                                    IF i \in MembersRows("expense", m)
                                    THEN [@[i] EXCEPT !.member = Nothing] ELSE @[i]]]
             ELSE group
        /\ Finish(r)

ArchiveMember(r) ==
    LET m == body[r].member
    IN  /\ At(r, "leave", "archive")
        /\ group' = IF IsMember(m) THEN [group EXCEPT !.member[m] = "ARCHIVED"] ELSE group
        /\ Finish(r)

(***************************************************************************)
(* Contributions and expenses: b.row holds the fields that are given; a    *)
(* create has no id and a delete no row.                                   *)
(***************************************************************************)
Names(row, m) == row # Nothing /\ "member" \in DOMAIN row /\ row.member = m

MemberKnown(row) == \A m \in Flatmate : Names(row, m) => IsMember(m)

RowFits(b) == (b.id = Nothing \/ HasRow(b.table, b.id)) /\ MemberKnown(b.row)

FindRow(r) ==
    /\ At(r, "row", "start")
    /\ IF RowFits(body[r]) THEN Await(r, "write") ELSE Finish(r)
    /\ UNCHANGED group

WriteRow(r) ==
    LET b == body[r]
        id == IF b.id = Nothing THEN r ELSE b.id
        row == CASE b.row = Nothing -> Nothing
                 [] b.row # Nothing /\ b.id = Nothing -> b.row
                 [] OTHER -> Merged(group[b.table][b.id], b.row)
    IN  /\ At(r, "row", "write")
        /\ group' = IF RowFits(b) THEN [group EXCEPT ![b.table][id] = row] ELSE group
        /\ Finish(r)

(***************************************************************************)
(* Expense categories and month budgets: one name, one month, once.        *)
(***************************************************************************)
Clashes(b) ==
    b.name # Nothing /\ \E i \in GroupRows(b.table) : i # b.id /\ group[b.table][i] = b.name

LabelFits(b) == (b.id = Nothing \/ HasRow(b.table, b.id)) /\ ~Clashes(b)

FindLabel(r) ==
    /\ At(r, "label", "start")
    /\ IF LabelFits(body[r]) THEN Await(r, "write") ELSE Finish(r)
    /\ UNCHANGED group

WriteLabel(r) ==
    LET b == body[r]
        id == IF b.id = Nothing THEN r ELSE b.id
    IN  /\ At(r, "label", "write")
        /\ group' = IF LabelFits(b) THEN [group EXCEPT ![b.table][id] = b.name] ELSE group
        /\ Finish(r)

(* listExpenseCategories() on an empty list; the unique index refuses the  *)
(* defaults if one of them has come in between.                            *)
SeedLook(r) ==
    /\ At(r, "categories", "start")
    /\ IF GroupRows("category") = {} THEN Await(r, "seed") ELSE Finish(r)
    /\ UNCHANGED group

Seed(r) ==
    LET names == {DefaultCategory[i] : i \in DOMAIN DefaultCategory}
    IN  /\ At(r, "categories", "seed")
        /\ group' = IF \E i \in GroupRows("category") : group.category[i] \in names
                    THEN group ELSE [group EXCEPT !.category = Merged(@, DefaultCategory)]
        /\ Finish(r)

(***************************************************************************)
(* Settlements                                                             *)
(***************************************************************************)
Within(row, b) == row.day \in b.from .. b.to

(* What a contribution adds to its member's deposits, and to the returns.  *)
Deposited(rows, m) ==
    SumOver([c \in rows |-> IF c[2].member = m /\ c[2].amount >= 0 THEN c[2].amount ELSE 0], rows)

Returned(rows, m) ==
    SumOver([c \in rows |-> IF c[2].member = m /\ c[2].amount < 0 THEN -c[2].amount ELSE 0], rows)

(* The last to have joined takes the rest.                                 *)
Share(total, active, m) ==
    LET n == Cardinality(active)
        base == total \div n
    IN  IF m = Max(active) THEN base + (total - base * n) ELSE base

(* computeSettlement(), from the members, the expenses and the             *)
(* contributions it has read one after the other.                          *)
ComputeSettlement(members, total, given) ==
    LET active == {m \in Flatmate : members[m] = "ACTIVE"}
        former == {m \in Flatmate : members[m] = "ARCHIVED" /\ \E c \in given : c[2].member = m}
    IN  [total |-> total,
         rows |-> [m \in active \cup former |->
                    [contributed |-> Deposited(given, m) - Returned(given, m),
                     share |-> IF m \in active THEN Share(total, active, m) ELSE 0]]]

(* Bug: nobody waits for another close.                                    *)
CloseUnlocked(r) ==
    /\ At(r, "close", "start")
    /\ IF body[r].to < body[r].from THEN Finish(r) ELSE Await(r, "members")
    /\ UNCHANGED group

CloseLock(r) ==
    /\ At(r, "close", "start")
    /\ IF body[r].to < body[r].from THEN Finish(r) ELSE Take(r, "settlement", "members")
    /\ UNCHANGED group

Overlapping(b) ==
    {i \in GroupRows("closed") : group.closed[i].from <= b.to /\ group.closed[i].to >= b.from}

CloseMembers(r) ==
    /\ At(r, "close", "members")
    /\ IF Overlapping(body[r]) # {} THEN Finish(r)
       ELSE Keep(r, "expenses", [members |-> group.member])
    /\ UNCHANGED group

CloseExpenses(r) ==
    LET spent == {i \in GroupRows("expense") : Within(group.expense[i], body[r])}
    IN  /\ At(r, "close", "expenses")
        /\ Keep(r, "contributions",
                [members |-> mem[r].members,
                 total |-> SumOver([i \in spent |-> group.expense[i].amount], spent)])
        /\ UNCHANGED group

CloseContributions(r) ==
    LET given == {<<i, group.contribution[i]>> : i \in GroupRows("contribution")}
    IN  /\ At(r, "close", "contributions")
        /\ Keep(r, "insert", [members |-> mem[r].members, total |-> mem[r].total,
                              given |-> {c \in given : Within(c[2], body[r])}])
        /\ UNCHANGED group

(* Refused without an active member, and by the foreign key if one of the  *)
(* members has been deleted.                                               *)
CloseInsert(r) ==
    LET m == mem[r]
        result == ComputeSettlement(m.members, m.total, m.given)
    IN  /\ At(r, "close", "insert")
        /\ group' =
             IF /\ \E f \in Flatmate : m.members[f] = "ACTIVE"
                /\ \A f \in DOMAIN result.rows : IsMember(f)
             THEN [group EXCEPT !.closed[r] =
                     [from |-> body[r].from, to |-> body[r].to,
                      total |-> result.total, rows |-> result.rows]]
             ELSE group
        /\ Finish(r)

GroupStep(r) ==
    \/ Join(r) \/ FindMember(r) \/ UpdateMember(r)
    \/ CountMember(r) \/ DeleteMember(r) \/ ArchiveMember(r)
    \/ FindRow(r) \/ WriteRow(r) \/ FindLabel(r) \/ WriteLabel(r) \/ SeedLook(r) \/ Seed(r)
    \/ CloseLock(r) \/ CloseMembers(r) \/ CloseExpenses(r) \/ CloseContributions(r)
    \/ CloseInsert(r)

(***************************************************************************)
(* Properties                                                              *)
(***************************************************************************)

(* "A period can be closed once": no two closed settlements share a day,   *)
(* however many closes race.                                               *)
SettlementsApart ==
    \A i \in GroupRows("closed"), j \in GroupRows("closed") :
        i # j => PeriodsApart(group.closed[i], group.closed[j])

(* "shares always sum EXACTLY to totalExpense", whoever joins or leaves    *)
(* while the settlement is computed.                                       *)
SharesExact == \A i \in GroupRows("closed") : Settles(group.closed[i])

(* A closed period stays settled: once, and to the last paisa.             *)
SettlementsExact == SettlementsApart /\ SharesExact
=============================================================================
