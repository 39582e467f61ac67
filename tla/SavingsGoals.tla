---------------------------- MODULE SavingsGoals ----------------------------
(***************************************************************************)
(* SavingsGoalsService, and the asset purchases (AssetsService.purchase)   *)
(* that draw on the same savings wallets.                                  *)
(*                                                                         *)
(* Every HTTP request is a process.  A flow that checks an amount and then *)
(* posts runs under withLocks: advisory locks named after the goals and    *)
(* the wallet, taken in sorted order and held to the commit.  What it      *)
(* writes becomes visible at its commit, one action here; LedgerProofs     *)
(* shows that a posting inside it is atomic.  Everything else is a single  *)
(* statement outside any lock.                                             *)
(*                                                                         *)
(* computeCurrentAmount sums a goal's entries, which are inserted and      *)
(* never changed: saved is that sum and used the set of goals with an      *)
(* entry.  balance is the cached balance of a savings wallet, exact after  *)
(* every commit (CacheCoherent of Ledger).                                 *)
(***************************************************************************)
EXTENDS FiniteSets, Sums

CONSTANTS
    Request,
    Wallet,   \* savings wallets
    Goal,     \* ids of SavingsGoal rows
    Amount,   \* amounts of money a DTO may carry
    Target,   \* target amounts
    Existing, \* the goals there are at the start
    Stock,    \* what each of them has saved then, and its target
    Opening,  \* the balance each wallet starts with
    Body,     \* what a request may ask for
    Free

(* The keys "account:<id>" sort before the keys "savings-goal:<id>".       *)
Key == Wallet \cup Goal

ASSUME KeyAssumption ==
    /\ Wallet \subseteq Nat /\ Goal \subseteq Nat
    /\ IsFiniteSet(Wallet) /\ IsFiniteSet(Goal)
    /\ \A w \in Wallet, g \in Goal : w < g
    /\ Free \notin Request

(* IsMoney refuses an amount below 0.01.                                   *)
ASSUME MoneyAssumption ==
    /\ Amount \subseteq Nat \ {0}
    /\ Target \subseteq Nat \ {0}
    /\ Opening \in [Wallet -> Nat]
    /\ Existing \subseteq Goal
    /\ Stock \in [Goal -> [saved : Nat, target : Target]]
    /\ \A g \in Goal \ Existing : Stock[g].saved = 0

ByHand == {"ACTIVE", "PAUSED", "COMPLETED"}   \* UpdateSavingsGoalStatusDto
Status == ByHand \cup {"WITHDRAWN"}

CreateBody     == [op : {"create"}, goal : Goal, target : Target]
RetargetBody   == [op : {"retarget"}, goal : Goal, target : Target]
StatusBody     == [op : {"setStatus"}, goal : Goal, status : ByHand]
GoalBody       == [op : {"delete", "view"}, goal : Goal]
ContributeBody == [op : {"contribute"}, goal : Goal, wallet : Wallet, amount : Amount]
TransferBody   == [op : {"transfer"}, goal : Goal, to : Goal, amount : Amount]
WithdrawBody   == [op : {"withdraw"}, goal : Goal, wallet : Wallet]
WalletBody     == [op : {"purchase", "deposit", "spend"}, wallet : Wallet, amount : Amount]

ASSUME BodyAssumption ==
    Body \subseteq CreateBody \cup RetargetBody \cup StatusBody \cup GoalBody
                     \cup ContributeBody \cup TransferBody \cup WithdrawBody \cup WalletBody

VARIABLES
    status,   \* of each goal's row; UNUSED before it exists, DELETED after
    target,   \* targetAmount
    saved,    \* the sum of the goal's entries
    used,     \* goals with an entry
    balance,  \* currentBalance of each wallet
    other,    \* what purchases and plain postings have added to it, net
    spent,    \* what plain postings have taken from it
    body,     \* what each request asks for
    pc,       \* where each request is
    holder,   \* the transaction that holds each advisory lock
    amount,   \* the amount a request has decided to take
    seen      \* the goal row maybeMarkCompleted works from

goals  == <<status, target, saved, used>>
money  == <<balance, other, spent>>
vars == <<status, target, saved, used, balance, other, spent, body, pc, holder, amount, seen>>

Exists(g) == status[g] \in Status

Held(r) == {k \in Key : holder[k] = r}

Unread == [status |-> "UNUSED", target |-> 0]

Init ==
    /\ status = [g \in Goal |-> IF g \in Existing THEN "ACTIVE" ELSE "UNUSED"]
    /\ target = [g \in Goal |-> Stock[g].target]
    /\ saved = [g \in Goal |-> Stock[g].saved]
    /\ used = {g \in Goal : Stock[g].saved > 0}
    /\ balance = Opening
    /\ other = [w \in Wallet |-> 0]
    /\ spent = [w \in Wallet |-> 0]
    /\ body \in [Request -> Body]
    /\ pc = [r \in Request |-> "idle"]
    /\ holder = [k \in Key |-> Free]
    /\ amount = [r \in Request |-> 0]
    /\ seen = [r \in Request |-> Unread]

Goto(r, l) == pc' = [pc EXCEPT ![r] = l]

ReleaseKeys(r) == holder' = [k \in Key |-> IF holder[k] = r THEN Free ELSE holder[k]]

(* The request ends: its locks are released, its variables forgotten.      *)
Close(r) ==
    /\ Goto(r, "done")
    /\ ReleaseKeys(r)
    /\ amount' = [amount EXCEPT ![r] = 0]
    /\ seen' = [seen EXCEPT ![r] = Unread]
    /\ UNCHANGED body

(* It ends with nothing more written: an error, or an answer.              *)
Finish(r) == Close(r) /\ UNCHANGED <<goals, money>>

(* The request goes on, having changed nothing others can see.             *)
GoOn(r, l) ==
    /\ Goto(r, l)
    /\ UNCHANGED <<goals, money, body, holder>>

GoOnQuietly(r, l) == GoOn(r, l) /\ UNCHANGED <<amount, seen>>

(***************************************************************************)
(* Arrival.  The checks made before the locks: the goal exists, and a      *)
(* transfer names two goals.                                               *)
(***************************************************************************)
FirstStep(b) ==
    CASE b.op \in {"contribute", "transfer", "withdraw", "purchase"} -> "keys"
      [] b.op = "delete" -> "count"
      [] b.op = "view" -> "status"
      [] OTHER -> "write"

Refused(b) ==
    \/ /\ b.op \in {"contribute", "setStatus", "retarget", "delete", "view"}
       /\ ~Exists(b.goal)
    \/ b.op = "transfer" /\ b.goal = b.to
    \/ b.op = "create" /\ status[b.goal] # "UNUSED"

Arrive(r) ==
    /\ pc[r] = "idle"
    /\ \/ Refused(body[r]) /\ Finish(r)
       \/ ~Refused(body[r]) /\ GoOnQuietly(r, FirstStep(body[r]))

(* Bug: a transfer locks the receiving goal only.                          *)
KeysOfReceiver(b) ==
    CASE b.op = "contribute" -> {b.goal}
      [] b.op = "transfer" -> {b.to}
      [] b.op = "withdraw" -> {b.goal, b.wallet}
      [] OTHER -> {b.wallet}

KeysOf(b) ==
    CASE b.op = "contribute" -> {b.goal}
      [] b.op = "transfer" -> {b.goal, b.to}
      [] b.op = "withdraw" -> {b.goal, b.wallet}
      [] OTHER -> {b.wallet}

TakeKey(r) ==
    LET waiting == KeysOf(body[r]) \ Held(r)
    IN  /\ pc[r] = "keys"
        /\ \E k \in waiting :
            /\ \A l \in waiting : k <= l
            /\ holder[k] = Free
            /\ holder' = [holder EXCEPT ![k] = r]
            /\ Goto(r, IF waiting = {k} THEN "read" ELSE "keys")
        /\ UNCHANGED <<goals, money, body, amount, seen>>

(***************************************************************************)
(* The checks under the locks.                                             *)
(***************************************************************************)

(* requireGoal, the WITHDRAWN check, and the amount to take.  The sum of   *)
(* entries is stable here: it moves under the goal's lock only.            *)
ReadContribute(r) ==
    /\ body[r].op = "contribute"
    /\ IF Exists(body[r].goal) /\ status[body[r].goal] # "WITHDRAWN"
       THEN /\ GoOn(r, "commit")
            /\ amount' = [amount EXCEPT ![r] = body[r].amount]
            /\ UNCHANGED seen
       ELSE Finish(r)

ReadTransfer(r) ==
    LET from == body[r].goal
        to == body[r].to
    IN  /\ body[r].op = "transfer"
        /\ IF /\ Exists(from) /\ Exists(to)
              /\ status[to] # "WITHDRAWN"
              /\ body[r].amount <= saved[from]
           THEN /\ GoOn(r, "commit")
                /\ amount' = [amount EXCEPT ![r] = body[r].amount]
                /\ seen' = [seen EXCEPT ![r] = [status |-> status[to], target |-> target[to]]]
           ELSE Finish(r)

ReadWithdraw(r) ==
    LET g == body[r].goal
    IN  /\ body[r].op = "withdraw"
        /\ IF Exists(g) /\ status[g] # "WITHDRAWN" /\ saved[g] > 0
           THEN /\ GoOn(r, "funds")
                /\ amount' = [amount EXCEPT ![r] = saved[g]]
                /\ UNCHANGED seen
           ELSE Finish(r)

ReadPurchase(r) ==
    /\ body[r].op = "purchase"
    /\ GoOn(r, "funds")
    /\ amount' = [amount EXCEPT ![r] = body[r].amount]
    /\ UNCHANGED seen

Read(r) ==
    /\ pc[r] = "read"
    /\ ReadContribute(r) \/ ReadTransfer(r) \/ ReadWithdraw(r) \/ ReadPurchase(r)

(* Bug: the wallet's balance is not looked at.                             *)
FundsUnchecked(r) ==
    /\ pc[r] = "funds"
    /\ GoOnQuietly(r, "commit")

(* The wallet's cached balance is read without its row lock.               *)
Funds(r) ==
    /\ pc[r] = "funds"
    /\ \/ balance[body[r].wallet] >= amount[r] /\ GoOnQuietly(r, "commit")
       \/ balance[body[r].wallet] < amount[r] /\ Finish(r)

(***************************************************************************)
(* The commits.  An entry references its goal (a foreign key), so its      *)
(* insertion fails, and everything with it, when the goal is gone.         *)
(***************************************************************************)
LeaveTransaction(r, l) ==
    /\ Goto(r, l)
    /\ ReleaseKeys(r)
    /\ amount' = [amount EXCEPT ![r] = 0]
    /\ UNCHANGED <<body, seen>>

CommitContribute(r) ==
    LET g == body[r].goal
        w == body[r].wallet
    IN  /\ body[r].op = "contribute"
        /\ Exists(g)
        /\ saved' = [saved EXCEPT ![g] = @ + amount[r]]
        /\ used' = used \cup {g}
        /\ balance' = [balance EXCEPT ![w] = @ + amount[r]]
        /\ LeaveTransaction(r, "status")
        /\ UNCHANGED <<status, target, other, spent>>

(* Bug: only the receiving goal's entry is written.                        *)
CommitTransferIn(r) ==
    LET from == body[r].goal
        to == body[r].to
    IN  /\ body[r].op = "transfer"
        /\ Exists(from) /\ Exists(to)
        /\ saved' = [saved EXCEPT ![to] = @ + amount[r]]
        /\ used' = used \cup {from, to}
        /\ LeaveTransaction(r, "amount")
        /\ UNCHANGED <<status, target, money>>

CommitTransfer(r) ==
    LET from == body[r].goal
        to == body[r].to
    IN  /\ body[r].op = "transfer"
        /\ Exists(from) /\ Exists(to)
        /\ saved' = [saved EXCEPT ![from] = @ - amount[r], ![to] = @ + amount[r]]
        /\ used' = used \cup {from, to}
        /\ LeaveTransaction(r, "amount")
        /\ UNCHANGED <<status, target, money>>

CommitWithdraw(r) ==
    LET g == body[r].goal
        w == body[r].wallet
    IN  /\ body[r].op = "withdraw"
        /\ Exists(g)
        /\ saved' = [saved EXCEPT ![g] = @ - amount[r]]
        /\ used' = used \cup {g}
        /\ balance' = [balance EXCEPT ![w] = @ - amount[r]]
        /\ status' = [status EXCEPT ![g] = "WITHDRAWN"]
        /\ Close(r)
        /\ UNCHANGED <<target, other, spent>>

CommitPurchase(r) ==
    LET w == body[r].wallet
    IN  /\ body[r].op = "purchase"
        /\ balance' = [balance EXCEPT ![w] = @ - amount[r]]
        /\ other' = [other EXCEPT ![w] = @ - amount[r]]
        /\ Close(r)
        /\ UNCHANGED <<goals, spent>>

GoalGone(b) ==
    \/ b.op \in {"contribute", "transfer", "withdraw"} /\ ~Exists(b.goal)
    \/ b.op = "transfer" /\ ~Exists(b.to)

Commit(r) ==
    /\ pc[r] = "commit"
    /\ \/ CommitContribute(r) \/ CommitTransfer(r)
       \/ CommitWithdraw(r) \/ CommitPurchase(r)
       \/ GoalGone(body[r]) /\ Finish(r)

(***************************************************************************)
(* maybeMarkCompleted, after a contribution or a transfer and on every     *)
(* read of a goal: the row, the sum of its entries, and the update, each   *)
(* outside any lock.                                                       *)
(***************************************************************************)
Marked(b) == IF b.op = "transfer" THEN b.to ELSE b.goal

ReadStatus(r) ==
    LET g == body[r].goal
    IN  /\ pc[r] = "status"
        /\ \/ /\ Exists(g)
              /\ seen' = [seen EXCEPT ![r] = [status |-> status[g], target |-> target[g]]]
              /\ GoOn(r, "amount")
              /\ UNCHANGED amount
           \/ ~Exists(g) /\ Finish(r)

ReadAmount(r) ==
    LET reached == /\ seen[r].status \notin {"COMPLETED", "WITHDRAWN"}
                   /\ saved[Marked(body[r])] >= seen[r].target
    IN  /\ pc[r] = "amount"
        /\ \/ reached /\ GoOnQuietly(r, "mark")
           \/ ~reached /\ Finish(r)

(* Bug: UPDATE ... WHERE id = only.                                        *)
AnyStatus(g) == Exists(g)

(* UPDATE ... WHERE status IN ('ACTIVE', 'PAUSED').                        *)
Completable(g) == status[g] \in {"ACTIVE", "PAUSED"}

Mark(r) ==
    LET g == Marked(body[r])
    IN  /\ pc[r] = "mark"
        /\ \/ /\ Completable(g)
              /\ status' = [status EXCEPT ![g] = "COMPLETED"]
              /\ Close(r)
              /\ UNCHANGED <<target, saved, used, money>>
           \/ ~Completable(g) /\ Finish(r)

(***************************************************************************)
(* The statements outside any lock.  An update of a row deleted meanwhile  *)
(* fails.                                                                  *)
(***************************************************************************)
WriteGoal(r, s, n) ==
    /\ status' = [status EXCEPT ![body[r].goal] = s]
    /\ target' = [target EXCEPT ![body[r].goal] = n]
    /\ UNCHANGED <<saved, used, money>>

WriteCreate(r) ==
    /\ body[r].op = "create"
    /\ status[body[r].goal] = "UNUSED"
    /\ WriteGoal(r, "ACTIVE", body[r].target)

WriteStatus(r) ==
    /\ body[r].op = "setStatus"
    /\ Exists(body[r].goal)
    /\ WriteGoal(r, body[r].status, target[body[r].goal])

WriteTarget(r) ==
    /\ body[r].op = "retarget"
    /\ Exists(body[r].goal)
    /\ WriteGoal(r, status[body[r].goal], body[r].target)

(* Any other posting that adds to a wallet: an asset sold, a referral paid *)
(* out, a plain transfer in.                                               *)
WriteDeposit(r) ==
    LET w == body[r].wallet
    IN  /\ body[r].op = "deposit"
        /\ balance' = [balance EXCEPT ![w] = @ + body[r].amount]
        /\ other' = [other EXCEPT ![w] = @ + body[r].amount]
        /\ UNCHANGED <<goals, spent>>

(* Any other posting that takes from it: an expense, a plain transfer out. *)
(* It takes no advisory lock and looks at no balance.                      *)
WriteSpend(r) ==
    LET w == body[r].wallet
    IN  /\ body[r].op = "spend"
        /\ balance' = [balance EXCEPT ![w] = @ - body[r].amount]
        /\ other' = [other EXCEPT ![w] = @ - body[r].amount]
        /\ spent' = [spent EXCEPT ![w] = @ + body[r].amount]
        /\ UNCHANGED goals

RowGone(b) ==
    \/ b.op \in {"setStatus", "retarget"} /\ ~Exists(b.goal)
    \/ b.op = "create" /\ status[b.goal] # "UNUSED"

Write(r) ==
    /\ pc[r] = "write"
    /\ \/ /\ \/ WriteCreate(r) \/ WriteStatus(r) \/ WriteTarget(r)
             \/ WriteDeposit(r) \/ WriteSpend(r)
          /\ Close(r)
       \/ RowGone(body[r]) /\ Finish(r)

Count(r) ==
    /\ pc[r] = "count"
    /\ \/ body[r].goal \notin used /\ GoOnQuietly(r, "delete")
       \/ body[r].goal \in used /\ Finish(r)

Deletable(g) == g \notin used

Delete(r) ==
    LET g == body[r].goal
    IN  /\ pc[r] = "delete"
        /\ \/ /\ Exists(g) /\ Deletable(g)
              /\ status' = [status EXCEPT ![g] = "DELETED"]
              /\ Close(r)
              /\ UNCHANGED <<target, saved, used, money>>
           \/ ~(Exists(g) /\ Deletable(g)) /\ Finish(r)

(* A crash, a lost connection or the transaction's time limit.             *)
Abort(r) ==
    /\ pc[r] \notin {"idle", "done"}
    /\ Finish(r)

AllDone == \A r \in Request : pc[r] = "done"

Step(r) ==
    \/ Arrive(r) \/ TakeKey(r) \/ Read(r) \/ Funds(r) \/ Commit(r)
    \/ ReadStatus(r) \/ ReadAmount(r) \/ Mark(r)
    \/ Write(r) \/ Count(r) \/ Delete(r) \/ Abort(r)

Next ==
    \/ \E r \in Request : Step(r)
    \/ AllDone /\ UNCHANGED vars

Spec == Init /\ [][Next]_vars

(***************************************************************************)
(* Properties                                                              *)
(***************************************************************************)

(* Every variable holds a value of its kind.                               *)
TypeOK ==
    /\ status \in [Goal -> Status \cup {"UNUSED", "DELETED"}]
    /\ target \in [Goal -> Nat]
    /\ saved \in [Goal -> Int]
    /\ used \subseteq Goal
    /\ balance \in [Wallet -> Int]
    /\ other \in [Wallet -> Int]
    /\ spent \in [Wallet -> Int]
    /\ body \in [Request -> Body]
    /\ pc \in [Request -> {"idle", "keys", "read", "funds", "commit", "status", "amount",
                           "mark", "write", "count", "delete", "done"}]
    /\ holder \in [Key -> Request \cup {Free}]
    /\ amount \in [Request -> Int]
    /\ seen \in [Request -> [status : Status \cup {"UNUSED"}, target : Nat]]

(* "two transfers out of one goal can't both pass the balance check on the *)
(* same money", nor a transfer and a withdrawal: a goal is never below 0.  *)
SavedNeverNegative == \A g \in Goal : saved[g] >= 0

(* A WITHDRAWN goal holds nothing: no contribution and no transfer that    *)
(* was on its way when the goal was withdrawn lands in it.                 *)
WithdrawnIsEmpty == \A g \in Goal : status[g] = "WITHDRAWN" => saved[g] = 0

Covered(w) == balance[w] + spent[w]

(* Withdrawals and purchases, each of which checked the wallet's balance   *)
(* some time before its posting, never drive it below zero together: what  *)
(* is missing from a wallet is what plain postings took.                   *)
WalletNeverOverdrawn == \A w \in Wallet : Covered(w) >= 0

(* An entry never loses its goal: a delete that counted no entries before  *)
(* a contribution was inserted does not erase the goal under it.           *)
EntriesHaveGoal == \A g \in used : Exists(g)

(* What the locks of withLocks are for, together.                          *)
GoalsSafe == SavedNeverNegative /\ WithdrawnIsEmpty /\ WalletNeverOverdrawn /\ EntriesHaveGoal

(* The goals account for the wallets: what all goals have gained is what   *)
(* the wallets have, other postings apart, at every instant and whatever   *)
(* failed in between.                                                      *)
MoneyConserved ==
    SumOver(saved, Goal) - SumOver([g \in Goal |-> Stock[g].saved], Goal)
      = SumOver(balance, Wallet) - SumOver(Opening, Wallet) - SumOver(other, Wallet)

(* "a withdrawal that committed after goal was read must never be turned   *)
(* back into COMPLETED": only its owner's own status change reopens it.    *)
ReopenedOnlyByHand ==
    [][\A g \in Goal :
        status[g] = "WITHDRAWN" /\ status'[g] # "WITHDRAWN" =>
          \E r \in Request : /\ body[r].op = "setStatus" /\ body[r].goal = g
                             /\ pc[r] = "write" /\ pc'[r] = "done"]_vars

(* "withdraw() is a one-way transition": a WITHDRAWN goal stays WITHDRAWN. *)
WithdrawnForGood ==
    [][\A g \in Goal : status[g] = "WITHDRAWN" => status'[g] = "WITHDRAWN"]_vars

(* The goals, with their locks and stale reads, are pots of money over     *)
(* wallets, plain spending apart.                                          *)
Pot == INSTANCE Pots WITH Pot <- Goal, balance <- [w \in Wallet |-> Covered(w)]

PotSpec == Pot!Spec
=============================================================================
