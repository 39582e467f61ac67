# cashfo_backend: TLA+ specifications

cashfo_backend is a NestJS service over PostgreSQL (through Prisma) behind a
personal and small-business accounting app, with an admin panel. Requests
interleave at every `await`, and several Node processes may serve them at once;
what they share is in the database. The specifications in this directory model
what concurrent HTTP requests, aborted transactions, crashes between statements
and retries can do to the tables of its services: the ledger and everything
that posts to it, the workspaces and what people keep in them, accounts and
sessions, the support desk, and billing.

    tlasany M.tla                    parse a module
    tlc -config X.cfg MC....tla      model-check (PROJECT.json lists the runs)
    tlapm M.tla                      check the proofs of M

Sections: 1 inventory, 2 modules, 3 runs, 4 findings, 5 proofs, 6 what is not
modelled, 7 plan.

## 1. Inventory

| Component (under `src/src/`) | State | Operations | What is hard | What makes it correct |
|---|---|---|---|---|
| Ledger (`transactions/`) | Transaction and TransactionEntry rows, cached `Account.currentBalance` | post (idempotent), post inside a caller's transaction, void | postings on one account at once; a retry racing its first attempt; two voids racing; three kinds of locks | balances equal their entries; one row per key; one reversal per void; no cycle of waits |
| Account balances (`accounts/account-balance.service.ts`) | the same cache | recalculate, audit a workspace | an audit beside postings | the audit finds nothing |
| Savings goals (`savings-goals/`) | goals, entries; the money is in wallets of the ledger | create, edit, status, delete, contribute, transfer, withdraw, self-healing reads | checks before locks, reads after commits | no goal or wallet taken below zero; a withdrawn goal is empty |
| Chart of accounts (`accounts/accounts.service.ts`) | a forest of accounts | create, edit and move, archive, restore, remove | no lock anywhere: each check may be out of date | postings keep their accounts, parents fit, no loop |
| Receivables, payables, contacts | derived from the ledger | sales and purchases on credit, payments, statements | payments and voids use different locks | no payment beyond what is owed |
| Fixed assets (`assets/`) | assets, value history, categories, a hidden account | purchase, sell, revalue | the same money spent twice; a revaluation beside a sale | one sale, one posting; the hidden account holds what the assets cost |
| Group expenses (`group-expenses/`) | members, contributions, expenses, settlements | record, close a period | closing reads in several statements while others write | periods never overlap; shares add up |
| Budgets and category reports (`budgets/`, `quick-entries/`, `reports/`) | categories, limits, income goals; entries name a category by its name | create, rename with its entries, delete, enter; breakdowns | a rename beside an entry; figures computed along several paths | entries follow their category; pages agree |
| Workspaces (`businesses/`, `business-access/`, admin) | workspaces, PINs, unlocks | create under a cap, edit, lock and unlock, delete | count before insert; an unlock beside a new PIN | the cap; old unlocks end |
| Password vault (`password-vault/`) | vault password, unlocks, entries | set, unlock, save, reset | a save beside a reset | a reset forgets; old unlocks end |
| Habits, shelves, to-do lists (`habits/`, `books/`, `skills/`, `todos/`) | sheets and ticks; items with progress and a day's log; lists and tasks | edit, tick, push to the next day | updates derived from a read row; caps | compare-and-swap loses nothing; one list a date |
| Referrals and provisioning (`referrals/`, `user-auth/`) | referrals, codes, default workspaces, bonus accounts | first-use provisioning, read and confirm, pay out | double submits, stale lists | one default workspace, one bonus account, one payment |
| Sessions and passwords (`user-auth/`, `auth/`, `sign-in/`) | sessions, devices, reset links | sign in, refresh, revoke, change, reset, guards | reset racing reset; sign-in racing a reset | links used once, old sessions end |
| Administration (`admin-*/`, `platform-users/`) | status, role and plan of accounts, audit log | suspend, hire, impersonate, wipe | the change, its audit row and the end of sessions are separate | a support view only reads |
| Support desk (`tickets/`, `announcements/`, `notifications/`, `feature-requests/`) | tickets, banners, campaigns | answer, assign, publish, cancel | a status read before it is written | the time of solving follows the status; figures agree |
| Settings and flags (`settings/`, `platform/`, `system/`) | settings row, a cached copy | change, ask | a stale cache | a change is heard at once |
| Security monitoring (`security/`) | sign-in attempts, flags | record a refusal, check | two checks at once | a network over the threshold has a flag |
| Billing (`payments/`, `coupons/`, `invoices/`, `subscription-plans/`, `revenue/`) | payments, refunds, invoices, coupons, plans | record, retry, refund, move between plans; figures | unconditional updates after checks; counted numbers | one refund, one number each; pages agree |
| Analytics, seed data, plumbing, deployment | reads; lists; none | | | see section 6 |

Interactions. Every feature that moves money calls
`TransactionsService.createTransaction`; the check-then-post flows run it
inside `withLocks`, one database transaction that first takes advisory locks
(`savings-goal:`, `account:`, `referrals:`, `contact:`, `asset:`, ...) in sorted
order. `post()` then locks the rows of the accounts it touches, in id order,
inserts the rows and recalculates each cached balance before the commit.
`accounts.service.ts` works on the same Account rows without locks;
`voidTransaction` uses row locks only. Signing in provisions a user
(`Sessions` over `Referrals`), every admin route goes through the guards of
`Sessions`, what the customer app is told comes from the settings, the flags
and the announcements together (`Platform` over `Support`), and the sign-in
monitor reads what signing in recorded (`Watch`).

The hazards this gives rise to are listed in PROJECT.json, each at its line,
with the properties that cover it or the reason none does.

## 2. Modules

| Module | What it is |
|---|---|
| `Ledger` | `post()`, `createTransaction()`, `voidTransaction()`, `lockAccounts()`, `withLocks()`, `recalculateBalance()`, `reconcileWorkspace()` |
| `Books` | what the ledger promises: a posting or a void is one atomic step |
| `SavingsGoals` | `SavingsGoalsService`, with asset purchases and plain postings on the wallets |
| `Pots` | what the goals promise: pots of money, each movement one step |
| `Receivables` | `ReceivablesPayablesService`, `ContactsService` |
| `Requests` | the frame of all modules below: requests, their places, locks, aborts |
| `AccountTree`, `Assets`, `GroupExpenses`, `Budgets`, `Workspaces`, `Vault`, `Habits`, `Shelves`, `Todos`, `Billing` | the services inside a workspace, one module each |
| `Referrals`, `Sessions`, `Administration`, `Support`, `Platform`, `Watch` | people: each module extends the one before it and adds its tables and steps |
| `Sums` | the sum of a column over some of its rows, as every total of the code adds it up |
| `MCLedger`, `MCSavingsGoals`, `MCReceivables`, `MCWorkspace`, `MCPeople` | instances for TLC; the last two compose the modules of their row |
| `SumsProofs` | what sums give, for every function and every finite set |
| `LedgerProofs`, `SavingsGoalsProofs`, `ReceivablesProofs` | theorems about the ledger, the goals and the receivables |
| `RequestsProofs` | lemmas about the frame: how a request moves, what it leaves alone, that locks are apart |
| `WorkspacesProofs`, `ServicesProofs` | theorems about the services inside a workspace, each by itself |
| `PeopleProofs` | theorems about people and accounts, and about the office: support desk, settings, sign-in monitor |

### Conventions

A request is a process: `body` is what it asks for, `pc` the next statement it
will run. One action is one SQL statement, or several that no other request can
tell apart (the writes of a transaction become visible at its commit).
PostgreSQL runs the transactions at READ COMMITTED, which the code never
overrides: every statement sees what is committed when it starts. A statement that
looks for rows and then waits for them, or deletes by cascade what it did not look
at, is two actions where that makes a difference. `Abort` ends
a request at any place: a lost connection, a crash of the process, Prisma's
time limit; an open transaction is rolled back, committed steps stay. A reply
lost after the commit is not distinguished from one that arrives: the caller's
retry is another request.

The modules over `Requests` share `pc`, `body`, `mem` (what the request has
read and will still use) and `lock` (the advisory and row locks its transaction
holds); a service has one more variable, a record of its tables. `At(r, op, l)`
is the place, `Await` and `Keep` go on to the next statement, `Take` waits for a
lock, `Finish` answers (or refuses) and releases. A row that a request inserts is
named after the request. A place has the name of the statement that runs next.
An aborted request is at `"failed"`, an answered one at `"done"`: properties
that speak of an answer do not hold anyone to a crash.

A few fields of the tables are history that no action reads; each is named with
its table's variable: `pins`, `at`, `entered` of `Workspaces`, `sets`,
`opened`, `wiped` of `Vault`, `added`, `since`, `cleared`, `lost` of `Habits`,
`pushed` of `Todos`, `of`, `crossed`, `stray` of `Budgets`, `crossed` of
`Support` and `Platform`, `found` of `Watch`, `since`, `resets`, `set` of
`Sessions`, `pools` of `Assets`, `confirmed`, `paid` of `Referrals`, and
`began` of `Receivables`.

Definitions marked "Bug:" are the plausible mistakes that the mutants of
PROJECT.json put in place of the definition after them; no specification uses
them.

### Ledger

* `rows`, `voided`, `cache` are the committed rows, the status VOIDED and
  `currentBalance`; `draft`, `claim`, `fresh` the uncommitted ones of a request.
* A balance is the pair of entry sets it adds up, not the number: two different
  sets never compare equal by accident. `Total` adds the amounts of such a set up
  (`AmountOf`), for `FiguresBalance` only.
* `keys` -> `lookup` -> `validate` -> `rows` -> `insert` -> `debits`/`credits` ->
  commit follows `withLocks` and `post()` statement by statement. An insert with
  a key in use by an uncommitted row waits for that transaction, as the unique
  index makes it; if it commits, the loser rolls back and `Fallback` repeats
  `post()` outside a transaction (`transactions.service.ts:36`).
* `read` -> `rows` -> `claim` follows `voidTransaction`; `visit` is
  `reconcileWorkspace`: one transaction per account.
* A feature's posting takes advisory keys first and may be `owned` by the
  feature, which protects it from voids.
* A body may carry lines that name missing or foreign accounts, non-positive
  amounts or a one-sided sum: each check of `post()` has a body it refuses.
* Left out: accounts' opening balances (constants of the sum) and collisions of
  the advisory keys' hashes. Keys are sorted by name and hashed by the database, so
  two unrelated flows of which keys collide would wait for each other and, since the
  order of the names is then not the order of the locks, might even wait in a circle,
  which PostgreSQL ends by aborting one of them. `NoWaitCycle` is about keys that
  do not collide.

### SavingsGoals

* `saved` is the sum of a goal's entries, `used` the goals that have one,
  `balance` a wallet's `currentBalance`. The postings themselves are `Ledger`'s
  business and are one step of the commit here.
* The wallet's balance is read (`Funds`) without its row lock, before the
  posting takes it; the advisory key `account:<id>` is what makes the check hold,
  and only withdrawals and purchases take it.
* A plain posting (`spend`) takes neither key nor check, so it may take a wallet
  below zero. `spent` records what such postings took; the wallet property is
  about the rest, and says that every missing taka is one a plain posting took.
* `maybeMarkCompleted` is three statements (`status`, `amount`, `mark`) outside
  any lock, after a contribution or a transfer and on every read of a goal.

### Receivables

* `tx` maps the id of each transaction to its type, contact, one entry on the
  Accounts Receivable or Payable account, dates and status. The other entry, and
  the choice of its account, are left out.
* `Breakdown` is `computeDirection`. Its loop over the invoices, oldest first, is
  given in closed form: an invoice takes what the older ones have left of the
  pool (`Takes`). That this is the loop is a theorem (`AllocationLoops`).
* The transactions at the start are as the code leaves them: numbered apart, each
  of the shape of its type, a void and its original cancelling out, and no contact
  paid beyond what it owed (`StartAssumption`).
* A payment (`key` -> `invoices` -> `payments`
  -> `commit`) holds the contact's lock from before its reads to its commit;
  an archiving request reads both directions, two statements each, without a lock.
* `raw` marks what `POST /transactions` posted with a contact: nothing checks it
  against what is owed. `PaymentsWithinOwed` is about the checked payments and
  holds whatever raw postings and voids do meanwhile; `StatementAgrees` and
  `ReportsAgree` are about contacts no raw posting names.
* A void between a payment's check and its commit leaves the contact overpaid:
  the bound of `PaymentsWithinOwed` therefore counts what was ever invoiced.
  `ArchiveSettled`, likewise, allows for what was posted after the archiving
  request first read: `archive()` holds no lock.

### The services inside a workspace

* `AccountTree`: statuses, parents, the existence of entries (`posted`) and the
  protection of the savings pool. The foreign keys decide what a delete does:
  entries restrict it, children lose their parent. The walk of
  `refuseParentCycle` reads one ancestor per step.
* `Assets`: a purchase or sale takes its keys one after the other, reads under
  them and writes at its commit: the posting moves money between an account and
  the hidden account, which the first purchase creates. A revaluation is three
  statements without a lock. The categories of assets have their actions, but no
  property is about them: they are names that nothing is computed from.
* `GroupExpenses`: a close takes its lock, looks for an overlap, reads members,
  expenses and contributions one after the other and inserts.
  `ComputeSettlement` is the arithmetic in paisa; the last member takes the rest.
  The categories and monthly budgets of a group are, likewise, only kept.
* `Budgets`: an entry holds the name of its category, as the code does, and the
  category it was meant for (`of`). A rename looks for its entries as they are
  when its `updateMany` starts (`FindEntries`), waits for those another rename
  has written and passes over what no longer bears the name (`ClaimEntries`),
  then writes the category and commits (`SaveCategory`). Between any two of
  these, entries are posted and voided. An entry posted by a name that is no
  longer its category's, or while a rename has already looked, is in `stray`; a
  category of which two renames crossed, or whose old name another took, is in
  `crossed`. A void reads the entry and posts its reversal in steps of their
  own. `CategoryBreakdown`, `MonthlyBreakdown`, `Overview`, `Earned`,
  `TrendIncome` are the figures of the pages.
* `Workspaces`: a new workspace is counted and inserted under the lock of its
  user. A PIN's hash is salted, so a hash is the PIN and the request that set it;
  an unlock carries the hash it was made with. `PassGuard` is the guard in front
  of every route of a workspace. The fees of a yearly plan are divided and
  rounded per workspace in one place and once per owner in another.
* `Vault`: the same for the password vault. Its entries are opaque; `list()`
  seals the old ones as it has read them, one update each.
* `Habits`: habits with a log by day; sheets with columns and ticks. The columns
  of a sheet are written only if they are still those that were read, three
  times over; a removal clears the ticks under no column it has read
  (`ClearOrphans`), then deletes the sheet if it finds no tick of it (`FindUnticked`),
  and with it the ticks committed since it looked (`DeleteSheet`: the foreign key
  cascades). `since` notes the ticks that land on a sheet after its removal has read
  it, `cleared` and `lost` the ticks in sight that a removal takes, at either step.
  A column's name stands for all its spellings, and
  `HabitName` are the names there are. `filter()` takes every column of the name
  away: `Without` takes the one there is, since a name is a column once, which
  `SheetsKeep` says.
* `Shelves`: an edit is derived from the row that was read and written only if
  the row's `updatedAt` is still the same, three times over; the day's log is
  adjusted in the same transaction. With three requests nobody loses three times.
  Books are as skills without a log.
* `Todos`: a list per date; a push moves a task to the list of the next day and
  creates that list within the cap.
* `Billing`: payments with their invoice, refunds, retries, coupons, plans and
  moves between plans, and the figures of the five pages computed over them. Time
  counts half months, so that "this month", "last month" and a running yearly
  plan are different things. The revenue page charts some months and counts what
  was collected before them in its total: `MCBillStart` has a payment of a year ago.

### People

* `Referrals`: a referral is named after the user it brought in. `Age` is the
  passing of 30 days. Rewards are taken to be positive.
* `Sessions`: a session, its device and a reset link are named after the request
  that made them, a password after the request that set it (or "old"). A
  request that comes with a token comes with any of its user's. `Expire` is the
  passing of a session's time.
* `Administration`: the change, its audit row and the end of the sessions are
  separate statements, as in the code, except where it runs a transaction.
* `Support`: tickets read, then written without a condition; the figures of the
  admin page are operators over the same rows.
* `Platform`: the settings' cached copy lives in the process, which is taken to
  be one (`Lapse`: five seconds have passed); with several, each sees a change
  of another's at most five seconds later.
* `Watch`: attempts and flags are as old as the windows tell apart; `Hour` lets
  an hour pass while no check is under way.

## 3. Runs

| Run | Instance | Shows |
|---|---|---|
| `ledger` | 3 requests, 2 workspaces, 5 accounts, 1 key; 11 posting bodies, or voids of any request's row by either workspace beside payments, features' postings and an audit | `CacheCoherent`, `OneTransactionPerKey`, `RetriesAgree`, `FallbackFindsWinner`, `RecordsSound`, `ReconcileFindsNothing`, `FiguresBalance`, `AppendOnly`, and `BookSpec`: the ledger implements `Books` |
| `ledger_wait` | 3 requests, 2 advisory keys, no symmetry | `NoWaitCycle`, `EveryRequestAnswered` |
| `goals` | 4 requests, 3 goals, 1 wallet, amounts of 1, targets 1 and 2, 13 bodies | `GoalsSafe`, `MoneyConserved`, `ReopenedOnlyByHand`, and `PotSpec`: the goals implement `Pots` |
| `receivables` | 3 requests, 3 contacts (one with an opening balance and a late invoice, one settled, one to be created), 3 earlier transactions, 12 bodies | `PaymentsFit`, `StatementAgrees`, `ReportsAgree`, `ArchiveSettled` |
| `people` | 10 mixes of up to 4 requests, 4 customers, 2 admins, 2 workspaces, 2 networks | `ProvisionedOnce`, `PayoutsEarned`, `LinkOnce`, `OldSessionsEnd`, `ViewsReadOnly`, `DeskSound`, `SettingsHeard`, `CheckedFlagged` |
| `workspace` | 15 mixes of up to 3 requests, each of one service | `SettlementsExact`, `PaymentsInOrder`, `PagesAgree`, `ExtrasInOrder`, `OldPinsEnd`, `ResetForgets`, `ChartSound`, `AssetsBalance`, `SheetsKeep`, `ShelvesSerial`, `ListsSound`, `EntriesFollow`, `PagesTally` |
| `goals_reopen` | 2 requests on the goals | violation of `WithdrawnForGood` |
| `referrals_twice` | 4 requests: reads and payouts of one user | violation of `PaidOnce` |
| `sessions_survive` | 2 requests: a sign-in and a reset | violation of `ResetSignsOut` |
| `sheet_removed` | 3 requests on the sheets of habits | violation of `OnlyUntickedGo` |
| `tree_loop` | 2 requests on the chart of accounts | violation of `NoLoop` |
| `receivables_delete` | the instance of `receivables` | violation of `ContactsKept` |

The passing runs take from seconds (`ledger_wait`) to two or three minutes; the
largest is `ledger` with some 600 thousand distinct states; `workspace` has
141,495 over its mixes.

Bounds. The number of requests bounds everything: each request ends after a
fixed number of steps, so no counter needs a cap. `Ledger`, `SavingsGoals` and
`Receivables` draw the body of every request independently from one set. The
modules over `Requests` have a `Scenario`: a set of mixes, each with the bodies
its requests may have and how many may come. A service's tables are touched by
its own requests only, so a mix of two services would only interleave what
commutes; `MCWorkspace` therefore mixes one service at a time, and `MCPeople`,
whose modules share accounts and sessions, mixes across modules where they meet
(`Answering` beside a suspension, the admins' actions beside sign-ins). Within a
mix bodies are drawn independently, so each operation also races with itself.

Why so few requests are enough: a hazard here is one request between two
statements of another; a third lets one of them start from what another has
committed (an unlock, a new row, a posting to be voided). Three earlier
transactions stand behind the receivables: two payments of 2 exceed the 3 that
`c1` owes, with a third request to void or post something in between; a
backdated sale changes the order of the allocation, and a sale due on the very
day lies on the border between the buckets. Caps are 2 or 3, so that creates race
for the last place. The first and last days of a month of two or three days are
both borders that the code treats apart. Prices are chosen so that rounding does
not come out even (99901 paisa a year, 501 a month); the shares of 7 paisa among
two or three are not even either. Four failed sign-ins, one below the threshold,
become five by a refusal. A payment of last month and one retried this month
tell the windows of the billing pages apart.

Symmetry under permutation of requests is used for invariants, step properties
and refinements; `ledger_wait`, which checks liveness, does without.

Deadlock is checked in all runs: only a system that has answered every request
stutters (`AllDone`, `AllAnswered`), so a set of requests that wait for each other's
locks would be reported.

Fairness. `FairSpec` is weak fairness of each request's next statement
(`Step(r)` of `Ledger`), without `Abort` and without arrival: an arrived request
is run by the event loop and its statement answered by the database unless it
waits for a lock. Weak fairness is enough for `EveryRequestAnswered` on the
checked instance because a lock is not taken again and again: each request takes
it once. PostgreSQL's queues give more than that. The other modules state no
liveness: their requests run a fixed number of statements, or a bounded number
of attempts, and wait for at most two locks taken in sorted order.

Every property has a mutant in PROJECT.json: an operator in the module that
changes one definition as a plausible bug would (a lock not taken, a condition
dropped, a check of the wrong row, a figure summed over the wrong rows) and makes
the property fail.

## 4. Findings

1. `goals_reopen`: `updateStatus()` writes whatever status is asked for, so a
   withdrawn goal becomes ACTIVE again, also by a request sent before the
   withdrawal. The comment above `maybeMarkCompleted` calls a withdrawal a
   one-way transition. No money is lost: the goal is empty, and
   `ReopenedOnlyByHand` shows that nothing but this operation reopens it.
2. `referrals_twice`: `getReferralInfo()` reads the PENDING referrals and sets
   them to CONFIRMED one by one, by id. If another request confirmed one and it
   was paid out in between, it goes back from WITHDRAWN to CONFIRMED and is paid
   again. `PayoutsEarned` shows that the payout itself is sound.
3. `sheet_removed`: the removal of a sheet is one conditional delete, "so a tick
   landing between a 'has any ticks?' read and the delete can't slip through". At
   READ COMMITTED it can: the statement looks for ticks in the snapshot it starts
   with, the insert of a tick locks the sheet's row without changing it, so that the
   delete does not look again after waiting for it, and the tick goes by ON DELETE
   CASCADE. A tick that has been answered is then lost with its sheet. `SheetsKeep`
   shows that no other tick is: only those that landed after the removal's read.
4. `tree_loop`: two concurrent moves make the loop that `refuseParentCycle` is
   there to refuse.
5. `receivables_delete`: `delete()` of a contact counts its transactions and
   deletes the row in a later statement. A sale posted in between commits, and
   the foreign key (`ON DELETE SET NULL`) takes its contact away: the amount
   stays on the Accounts Receivable account and nobody owes it.
6. `sessions_survive`: `resetPassword()` commits the new password, then ends the
   sessions there are. A sign-in that compared the old password before the commit
   opens its session after that, and it lives on, though the reset is said to sign
   the account out on every device. `OldSessionsEnd` shows that the sessions opened
   before the reset do end.

Where a property sets a case aside, the code has that case too:

* `SheetsKeep`: beside finding 3, the first statement of a removal
  (`habit-trackers.service.ts:272`) clears the ticks under no column of those it read
  some statements earlier, so a column added and ticked in between loses its ticks,
  and the sheet goes. Both are ticks that landed since the removal's read.
* `SettingsHeard`: a read that a change overtakes refills the cache after the change
  has cleared it; the old settings are then answered for up to five seconds.
* `DeskSound`: a ticket written on a status that has changed since it was read may
  carry a time of solving while it is open, or none while it is solved.
* `EntriesFollow`: an entry posted by a category's name read before a rename, or
  committed between the rename's `updateMany` (`budgets.service.ts:240`) and its
  commit, keeps the old name and is counted for nothing, or for a category that has
  taken the name since. Of two renames of one category that cross, the later may
  leave entries at the name of the earlier.

An account can be created or moved under an archived parent: no line of
`create()` or `update()` asks, though the comment of `unarchive()`
(`accounts.service.ts:303`) says that an active account never sits under an
archived one. `ChartSound` does not bar it.

## 5. Proofs

For every set of requests, bodies and rows that satisfies the modules' named
assumptions TLAPS checks the following theorems. Each `ASSUME` is evaluated by
the runs; the assumptions say that sets of names are apart and finite where they
are counted, that amounts are numbers of the sign the DTOs ask for, and that a
body has the fields its route reads, with values of the type it validates. What
they say of the rows at the start is what the code keeps true of them: invoices
numbered without a gap, no month with two income goals, entries paid from money
accounts, no payment of the future, plans whose prices are not negative, sheets
with columns of different names and ticks on days that have come, the hidden
account of the assets in balance.

| Module | Theorems |
|---|---|
| `LedgerProofs` | `Typing`, `CachedBalancesExact`, `ReconcileIsQuiet`, `FiguresStayBalanced`; `LedgerAppendOnly`, `OneReversal`, `OnlyVoidableVoided`, `KeysUsedOnce`, `LoserFindsWinner`, `PostingsStayInWorkspace`, `RecordsStaySound`, `LedgerImplementsBook` (`Spec => BookSpec`), `NobodyWaitsInACycle`, `RetriesGetOneAnswer` |
| `SavingsGoalsProofs` | `Typing`, `GoalsNeverNegative`, `WithdrawnHoldsNothing`, `WalletsNeverNegative`, `GoalsOutliveEntries`, `GoalsStaySafe`, `MoneyIsConserved`, `GoalsImplementPots` (`Spec => PotSpec`), `OnlyByHandReopened` |
| `ReceivablesProofs` | `AllocationLoops`, `Invariance`, `PaymentsStayFit`, `StatementsAgree`, `ReportsStayInLine`, `ArchivedSettled` |
| `WorkspacesProofs` | `CapHolds`, `ExtrasStayInOrder`, `PinsHold` |
| `ServicesProofs` | `VaultForgets`, `ListsStaySound`, `BillsStayInOrder`, `PagesStayInAgreement`, `EntriesFollowRenames`, `PagesStayTallied`, `ShelvesStaySerial`, `ChartStaysSound`, `AssetsStayInBalance`, `SettlementsStayExact`, `SheetsStayKept` |
| `PeopleProofs` | `WorkspacesProvisionedOnce`, `ReferralsPaidWhenEarned`, `LinksWorkOnce`, `ViewsOnlyRead`, `NewPasswordsEndSessions`; `DeskStaysSound`, `SettingsAreHeard`, `ChecksRaiseFlags` |

Every invariant and every action property of a passing run is stated by one of
these theorems.

### Sums

A figure of the code is a column added up over the rows some condition picks.
`SumOver` is that sum; the community modules define it by recursion over finite
sets, and a fact about it for every set needs induction. `InductOnSubsets` gives
one that cites no operator: what holds of a finite set when it holds of all its
strict subsets holds of it, from the well-foundedness of strict inclusion.
`Adds` lists the sums of all subsets, each from a smaller one; `SumIsAdded` says
that `SumOver` is what it lists, and from there the rest follows: a sum is split
(`SumSplits`), grows by the row that is added (`SumGrows`) or changed (`SumWritten`),
is the sum of its groups' sums (`SumByGroups`), keeps an order (`SumOrder`) and does
not mind how the rows are named (`SumRenamed`). `MaxOf` is the same for maxima.

### The ledger and the goals

That balances are exact is not inductive: a request overwrites a balance with
sums it read earlier. The layers added are (1) types and what each place in the
code implies about the request's own variables (`Base`); (2) a request that is
recalculating holds the row of each account it is going to write, and a row is
held by one request; (3) hence what it has summed so far is still what is
committed plus its own draft, so that the commit leaves every balance exact;
(4) what a post or a void checked before its locks is still true at its commit,
since committed rows never change and the only thing that does, the status, is
claimed with a condition. The refinement follows from (3) and (4): a commit is
`Books`'s posting or void, every other step is a stutter.

`FiguresStayBalanced` follows from the same layers: every balance is that of the
committed rows, the lines of a row add up to as much on one side as on the other
(`post()` refuses the others), and a voided row and its reversal are each other's
mirror.

Nobody waits in a cycle: a request waits for a lock above all it holds, since
keys and rows are each taken in sorted order and keys before rows (`Ordered`);
and one that others wait for at the unique index or at the claim of a void is
past its locks and waits for nobody (`WritersDoNotWait`). Of the locks wanted
within a set of requests there is a highest, and its holder waits for none of
them. Retries with one key get one answer because whoever answers with a key
answers with the row of that key (`Answered`), and there is one.

`SavedNeverNegative` is not inductive: a transfer subtracts an amount it
compared with the goal's sum some steps ago. `IInv` is `Base` (types, and which
request can be where), `Locked` (between its check and its commit a request holds
every key it needs) and `Sound` (what it checked still holds: the amount is
within the goal's sum and, after `funds`, within the wallet's). `Sound` is kept
because whatever lowers a sum holds the same key. The plain spending that holds
no key is discounted by `spent`. Each commit is then one step of `Pots`.
`MoneyIsConserved` needs no more than the types: whatever changes a goal's sum
changes a wallet, another goal or the account of what is no longer there in the
same step.

That a withdrawn goal is reopened only by hand rests on one more invariant,
`WithdrawnUsed`: a withdrawn goal has the entry of its withdrawal, and a delete,
which takes goals without entries, leaves it. A late mark of completion carries
its condition on the status into the update.

### The receivables

`Invariance` proves `IInv`: types; the rows as they are posted, a void beside its
original (`Booked`, `VoidsCancel`), each payment pointing at a row there is
(`AllLinked`); and of each request `Placed`, `Locked` (a payment holds its contact
from its first read to its commit), `Listed` (the invoices it has read were there),
`Fitted` (what it has checked still fits) and `Adding` (an archiving request has the
balance right as long as nothing was posted since it began).

`Fitted` is the part a test would hardly reach. The payment has read what is owed
in two statements, and voids are not kept out by its lock. A void takes what it
cancels out of the invoices and out of the payments, so what is owed may fall
below what was checked; what was ever invoiced does not, and `FitsOwed` counts
that. `FitsKept` and `WithinKept` go through the ways the rows may change: a row
added, a row voided, a contact erased. `PaidOldestFirst`, and that statement,
balance and aging agree, are then facts about the rows of one moment: `OldestPaid`,
`StatementAdds` and `ReportsAdd` prove them of any rows that are booked, from the
allocation (`PoolGivenOut`: the invoices take the pool or all they have open,
whichever is less). `ArchivedSettled` is `Adding` at the commit.

### The services inside a workspace

`WorkspacesProofs` and `ServicesProofs` are about a component
by itself: they give it an `Init`, `Next` and `Spec` over `Requests`, with any mix
of bodies, in which the requests of other services stay where they are.
`MCWorkspace` composes the same actions with those of services that touch other
tables.

* The chart. Nothing is locked, so what a request has checked may be out of
  date; `CheckedBy` collects the checks that hold for good: a reserved account is
  never the one being archived or deleted, and a parent's workspace and type never
  change. That the parent still exists when the child is written, and that an
  account to be deleted has no entry, is the database's doing (the foreign keys),
  and the actions say so.
* Workspaces. For the cap, `Capped` adds to it that a request which has counted
  holds its user's lock (`Held`), that no lock is held twice (`Apart`), and that
  the count still leaves room (`Counted`): another request can add to the extra
  workspaces of a user only under the same lock, and every other step adds none.
  For the PIN, `Unused` says that no hash is of the making of a request which has
  not answered, and `Current` that an unlock naming a workspace's present hash was
  given since the hash was set. Setting the same digits again makes a hash of a new
  request, so no old unlock names it. For the fees, `FeesAgree` is a fact about the
  rows of one moment: a fee divided and rounded for each workspace is within half a
  paisa of the exact one, a sum rounded once likewise, and the two differ by no more
  than a half for each workspace and one for the owner (`RoundedTwice`, `SumsClose`).
* The vault (`VaultInv`). The same argument, with `HashesNew` and `TokensDated`;
  what a reset has deleted does not come back because an entry is named after the
  request that saves it, and has not been there before (`EntriesNew`): an update
  that comes late finds no row.
* To-do lists (`TodoInv`). Lists are counted and inserted under one lock, so the
  count still leaves room at the insert (`CountHeld`); the list a push has found
  is of the date it is for as long as it is there (`ForDate`), and nobody has
  found a list before it is inserted (`ListNew`). That dates are apart is the
  unique index, which the actions state.
* Billing (`BillInv`). A payment found failed is still failed or pending when it is
  retried, since nothing but a retry writes such a payment (`Found`); a refund
  claims the status with a condition, and a request under way has left nothing in
  the tables yet (`Unpaid`), so the audit row of a refund is the only one of its
  payment (`RefundsKnown`). The number a request has counted is the next one or, if
  it was slow, a taken one, which the unique index refuses (`Numbered`); hence
  numbers have no gap.
* The pages of billing (`FiguresInv`). Beside `BillInv`: rows are of their types,
  workspaces are on plans there are, and one that was ever moved is on the plan some
  request moved it to, unless that is deleted (`MovesFollow`, `Unmoved`). The rest is
  about the rows of one moment: the chart, the plans of the overview and the
  payments page each group the same takings (`SumByGroups`), and what is estimated
  of a plan is of fewer workspaces than what is expected of it (`SumOfFewer`).
* Budgets (`BudgetInv`). Names are apart among a workspace's categories of one type
  (`NamesApart`, the unique index), entries are of their category's type
  (`TypesFollow`), what a request has read is still of its type (`ReadRight`), and a
  category or an entry is new when it is inserted (`RowsNew`). The rest is about a
  rename on its way: as long as the category has the name that was read, the rename
  has found all entries meant for it (`FoundAll`); those it has claimed bear that name
  until it commits (`Claimed`), since no other rename has claimed them
  (`ClaimsApart`). So it changes exactly the entries that are meant for its category
  (`OthersHold`, `JustClaimed`), and names follow (`NamesFollow`).
* The pages of the budgets. `Tallied` is a fact about the rows of one moment once no
  month has two goals (`GoalsApart`) and every entry was paid from a money account
  (`PaidFromWallets`): the buckets of a range share no day and miss none
  (`BucketsApart`, for months of any length), and entries grouped by day, by category
  or by wallet are all there (`GroupsAdd`).
* Assets (`AssetInv`). Whoever looks at an account, an asset or the hidden account
  before a posting holds the lock of the hidden account, and what it has seen is so
  until it posts (`TradeChecked`); a posting moves the hidden account by as much as
  it changes the assets' cost (`PostStep`), and a revaluation, which holds nothing,
  moves no money (`MovesNoMoney`).
* Group expenses (`GroupInv`). A close holds its lock from the look for an overlap to
  its insert (`CloseChecked`). That the shares add up is arithmetic: each member but
  the last has the quotient, the last what is left.
* Sheets of habits (`HabitInv`). Columns are swapped only if they are those that were
  read, so adding one keeps the others and no name is twice (`ToSwap`, `Columned`);
  a sheet under way has neither ticks nor columns (`Unborn`); the cell a request
  is about to tick is of a day that has come, if the sheet is still there (`ToTick`),
  since a sheet's month and days never change. What a removal is about to take in
  sight has landed since its read (`Overlooks`), because a tick comes in sight only
  by a `SetCheck`, which `since` notes; a new column starts without ticks
  (`Noticed`). A streak is a run of days with a log, so as many of the last days as
  it is long have one (`StreaksFit`).
* Books and skills (`ShelfInv`). A row with the `updatedAt` a request has read is the
  row it has read, since every edit counts `updatedAt` up (`Swapping`) and an item
  appears once (`ItemNew`): so a swap that goes through derives from the present
  row. `settleShelf()` keeps an item in order (`SettleGives`, `EditGives`,
  `CreateGives`); a shelf is counted and added to under one lock (`Counting`).

### People

`PeopleSpec` composes `Referrals`, `Sessions` and `Administration` with everything
they do to one another.

* `WorkspacesProvisionedOnce`, `ReferralsPaidWhenEarned` (`ReferralInv`). A payout
  holds the lock of the workspace's bonus account, then that of its referrer
  (`Locking`), so that what it has listed is its referrer's, thirty days old and
  confirmed more often than it was paid (`Listing`) until it is paid. A request
  that only reads can still confirm what is paid (finding 2); this is why the
  bound counts confirmations.
* `LinksWorkOnce` (`LinkInv`). The claim of a link is an update with a condition, and
  an unused link has reset nothing (`Linked`).
* `ViewsOnlyRead` (`ViewInv`). A session opened to view an account is of a customer, is
  named after the viewing request, and is marked with its viewer before the
  request answers (`Viewing`); what has passed the guard to act never holds such a
  session (`Acting`); nobody but an admin is promoted, suspended or given a
  password by an admin (`Ruling`), which is why a customer stays one (`RolesStay`).
* `NewPasswordsEndSessions` (`OldInv`). `Setting` follows the three ways to set a
  password from the commit on: which of the sessions opened before it can be left
  at each place. Sessions that appear later are not old, and none is ever revived.

`OfficeSpec` is an open system: `Support`, `Platform` and `Watch` with every
action of theirs, beside an `Elsewhere` that may change anything else at any time,
as long as it leaves their tables and their requests alone and takes nobody's role
as a customer or an admin. The latter is what `RolesStay` proves of the people;
that each step of `MCPeople` is a step of `OfficeNext` is read off the actions, and
TLC agrees on that instance.

* `DeskStaysSound` (`DeskInv`). Rows are of their types, tickets are from customers and
  assigned to admins (`TicketsKnown`), what a handler has found out still holds
  when it writes (`Handling`), and the time of solving follows the status but where
  two writers crossed (`StampsFollow`). That the tabs and the figures agree is then
  a matter of cardinalities of disjoint sets.
* `SettingsAreHeard` (`SettingsInv`). `CacheFollows` is inductive once the cached copy
  is known to have its fields: a fill that a change overtook is marked, and a
  change that has not cleared the copy yet is the excuse.
* `ChecksRaiseFlags` (`WatchInv`). `Checking` says of each network a check has found
  over the threshold that it has a flag of this hour, or is still to be looked at:
  flags are added and reviewed but never removed, and the hour does not pass while
  a check is under way. `NewestIsOne` (of finitely many attempts one is the last)
  is why a network is shown once.

### Only model-checked

* `EveryRequestAnswered`: liveness and fairness are beyond the prover.
* The refutations of section 4: a counterexample on a small instance is all they
  need.
* That the composed instances `MCWorkspace` and `MCPeople` step as the components'
  specifications do: `MCWorkspace` runs one service at a time.
* `getOverdue`, `getAging` and the other pages are modelled as operators over the rows
  of one moment. The code reads them in several statements, and nothing here says
  that a page read while others write agrees with itself.

## 6. Not modelled

* Analytics, dashboards, listings, exports: reads that count or page through rows,
  each a query of its own; nothing depends on them.
* Ledger reports (trial balance, cash flow, running ledgers) and the loan
  dashboard: sums over the rows of `Ledger` and `Receivables`; the choice of the
  other account of a credit sale or payment.
* Account templates, translations, legal documents, seeded categories: lists that
  admins edit row by row, each in one statement.
* Error logs, rate limits and backups of `system/`; mail, uploads, cookies, tokens'
  encoding, encryption: input and output without state the properties tell apart.
* The support view's exemption from a workspace's PIN, and the 503 answer of the
  maintenance middleware: what it is answered from is modelled (`Ask`, `Get`,
  `FillCache`), the answer itself changes nothing.
* The host agent's shell scripts and the deployment: outside the program.
* Several server processes: the cache of the settings is the only state outside
  the database.

## 7. Plan

1. The ledger's reports and the account ledgers as operators over `Ledger`'s rows,
   beside `FiguresBalance`.
2. An abstract account of what each contact owes, implemented by `Receivables`.
3. Two processes with a settings cache each.
