------------------------------- MODULE Assets -------------------------------
(***************************************************************************)
(* AssetsService: what a workspace owns, bought from and sold into an      *)
(* account of money.  Purchases and sales run in one transaction under     *)
(* advisory locks, whose writes are applied by one action, the commit; a   *)
(* revaluation takes no lock.                                              *)
(***************************************************************************)
EXTENDS Requests, Sequences, Sums, TLC

CONSTANTS
    AssetName,  \* the names of the default categories, by id
    AssetStart

AssetIds == DOMAIN AssetStart.row

Moneys == DOMAIN AssetStart.money

AssetRow ==
    [price : Nat, value : Nat, account : Moneys \cup {Nothing}, sold : Nat \cup {Nothing}]

(* What each asset has cost the accounts and what it has brought them, and *)
(* what each request has entered in the hidden account.                    *)
CostOf(row) ==
    [i \in DOMAIN row |-> IF row[i] # Nothing /\ row[i].account # Nothing THEN row[i].price ELSE 0]

BroughtBy(row) ==
    [i \in DOMAIN row |-> IF row[i] # Nothing /\ row[i].sold # Nothing THEN row[i].sold ELSE 0]

EnteredIn(posted) == [i \in DOMAIN posted |-> IF posted[i] # Nothing THEN posted[i] ELSE 0]

InBalance(t) ==
    LET held == SumOver(CostOf(t.row), DOMAIN t.row) - SumOver(BroughtBy(t.row), DOMAIN t.row)
    IN  /\ t.pools <= 1
        /\ (IF t.pool = Nothing THEN 0 ELSE t.pool) = held
        /\ SumOver(EnteredIn(t.posted), DOMAIN t.posted) = held
        /\ \A a \in DOMAIN t.money : t.money[a] >= 0

ASSUME AssetAssumption ==
    /\ DOMAIN AssetStart = {"row", "history", "money", "pool", "pools", "category", "posted"}
    /\ IsFiniteSet(AssetIds) /\ IsFiniteSet(DOMAIN AssetStart.posted)
    /\ Request \subseteq AssetIds \cap DOMAIN AssetStart.posted
    /\ Nothing \notin AssetRow \cup Int \cup Moneys
    /\ AssetStart.row \in [AssetIds -> AssetRow \cup {Nothing}]
    /\ AssetStart.posted \in [DOMAIN AssetStart.posted -> Int \cup {Nothing}]
    /\ AssetStart.money \in [Moneys -> Int]
    /\ \A r \in Request : AssetStart.row[r] = Nothing /\ AssetStart.posted[r] = Nothing
    /\ AssetStart.pool \in Int \cup {Nothing}
    /\ AssetStart.pools = IF AssetStart.pool = Nothing THEN 0 ELSE 1
    /\ InBalance(AssetStart)

(* IsMoney and IsUUID.                                                     *)
AssetBodyFits(b) ==
    /\ b.op = "buy" => b.account \in Moneys \cup {Nothing} /\ b.price \in Nat
    /\ b.op = "sell" => b.id \in AssetIds /\ b.account \in Moneys /\ b.price \in Nat
    /\ b.op = "revalue" => b.id \in AssetIds /\ b.value \in Nat

ASSUME AssetBodies == \A s \in Scenario : \A b \in s.bodies : AssetBodyFits(b)

VARIABLE asset  \* row: [price, value, account, sold] by id; an asset bought
                \*   without an account has the account Nothing
                \* history: the values each asset was given, last one last
                \* money: of each account; pool: of the hidden account, or
                \*   Nothing before it exists; pools: how many were created
                \* category: the name by id; posted: the entries by request

AssetInit == asset = AssetStart

AssetRows(t) == {i \in DOMAIN asset[t] : asset[t][i] # Nothing}

AssetsStay == UNCHANGED asset

PoolKey == <<"fixed-assets", Nothing>>

(* withLocks() takes its keys one after the other.                         *)
LockAsset(r) ==
    LET b == body[r]
    IN  /\ b.op \in {"buy", "sell"} /\ pc[r] = "start"
        /\ IF b.op = "buy" THEN b.account # Nothing /\ Take(r, <<"account", b.account>>, "lock-pool")
           ELSE Take(r, <<"asset", b.id>>, "lock-pool")
        /\ AssetsStay

LockPool(r) == pc[r] = "lock-pool" /\ Take(r, PoolKey, "find-account") /\ AssetsStay

(* A plain inventory entry: no posting.                                    *)
Acquire(r) ==
    LET b == body[r]
    IN  /\ At(r, "buy", "start")
        /\ b.account = Nothing
        /\ asset' = [asset EXCEPT
                       !.row[r] = [price |-> b.price, value |-> b.price, account |-> Nothing, sold |-> Nothing],
                       !.history[r] = <<b.price>>]
        /\ Finish(r)

(* requirePaymentAccount() or, for a sale, requireAsset() and SOLD.        *)
Affordable(r) ==
    LET b == body[r]
    IN  /\ At(r, "buy", "find-account")
        /\ IF asset.money[b.account] < b.price THEN Finish(r) ELSE Await(r, "find-pool")
        /\ AssetsStay

(* Bug: the asset is read before the lock.                                 *)
UnsoldOnce(r) ==
    /\ At(r, "sell", "find-account")
    /\ IF asset.row[body[r].id] = Nothing THEN Finish(r) ELSE Await(r, "find-pool")
    /\ AssetsStay

Unsold(r) ==
    LET row == asset.row[body[r].id]
    IN  /\ At(r, "sell", "find-account")
        /\ IF row = Nothing \/ row.sold # Nothing THEN Finish(r) ELSE Await(r, "find-pool")
        /\ AssetsStay

(* requireOrCreateFixedAssetsAccount(): whether the pool is there.         *)
FindPool(r) ==
    /\ pc[r] = "find-pool"
    /\ Keep(r, "post", asset.pool)
    /\ AssetsStay

(* What the posting adds to the pool, which it creates if none was found.  *)
Pooled(r, n) ==
    IF mem[r] = Nothing THEN [asset EXCEPT !.pool = n, !.pools = @ + 1]
    ELSE [asset EXCEPT !.pool = @ + n]

CommitPurchase(r) ==
    LET b == body[r]
    IN  /\ At(r, "buy", "post")
        /\ asset' = [Pooled(r, b.price) EXCEPT
                       !.money[b.account] = @ - b.price,
                       !.row[r] = [price |-> b.price, value |-> b.price, account |-> b.account, sold |-> Nothing],
                       !.history[r] = <<b.price>>,
                       !.posted[r] = b.price]
        /\ Finish(r)

CommitSale(r) ==
    LET b == body[r]
    IN  /\ At(r, "sell", "post")
        /\ asset' = [Pooled(r, -b.price) EXCEPT
                       !.money[b.account] = @ + b.price,
                       !.row[b.id].sold = b.price,
                       !.posted[r] = -b.price]
        /\ Finish(r)

(***************************************************************************)
(* updateValue(): three statements.                                        *)
(***************************************************************************)
FindAsset(r) ==
    LET row == asset.row[body[r].id]
    IN  /\ At(r, "revalue", "start")
        /\ IF row = Nothing \/ row.sold # Nothing THEN Finish(r) ELSE Await(r, "history")
        /\ AssetsStay

LogValue(r) ==
    /\ At(r, "revalue", "history")
    /\ asset' = [asset EXCEPT !.history[body[r].id] = Append(@, body[r].value)]
    /\ Await(r, "value")

SetValue(r) ==
    /\ At(r, "revalue", "value")
    /\ asset' = [asset EXCEPT !.row[body[r].id].value = body[r].value]
    /\ Finish(r)

(***************************************************************************)
(* Categories: a name once in the workspace, which the unique index        *)
(* enforces; the defaults come when the list is first looked at.           *)
(***************************************************************************)
AssetNamed(n, but) == \E i \in AssetRows("category") \ {but} : asset.category[i] = n

CategoryFits(b) ==
    /\ b.id = Nothing \/ asset.category[b.id] # Nothing
    /\ b.name = Nothing \/ ~AssetNamed(b.name, b.id)

FindCategory(r) ==
    /\ At(r, "asset-category", "start")
    /\ IF CategoryFits(body[r]) THEN Await(r, "write") ELSE Finish(r)
    /\ AssetsStay

WriteCategory(r) ==
    LET b == body[r]
    IN  /\ At(r, "asset-category", "write")
        /\ asset' = IF CategoryFits(b) THEN [asset EXCEPT !.category[IF b.id = Nothing THEN r ELSE b.id] = b.name]
                    ELSE asset
        /\ Finish(r)

ListCategories(r) ==
    /\ At(r, "asset-categories", "start")
    /\ IF AssetRows("category") = {} THEN Await(r, "seed") ELSE Finish(r)
    /\ AssetsStay

SeedCategories(r) ==
    /\ At(r, "asset-categories", "seed")
    /\ asset' = IF \E i \in DOMAIN AssetName : AssetNamed(AssetName[i], Nothing) THEN asset
                ELSE [asset EXCEPT !.category = AssetName @@ @]
    /\ Finish(r)

AssetStep(r) ==
    \/ LockAsset(r) \/ LockPool(r) \/ Acquire(r) \/ Affordable(r) \/ Unsold(r) \/ FindPool(r)
    \/ CommitPurchase(r) \/ CommitSale(r) \/ FindAsset(r) \/ LogValue(r) \/ SetValue(r)
    \/ FindCategory(r) \/ WriteCategory(r) \/ ListCategories(r) \/ SeedCategories(r)

(***************************************************************************)
(* Properties                                                              *)
(***************************************************************************)

(* "two purchases from one account can't both pass the check on the same   *)
(* money" and "one sale, one income posting": there is one hidden account, *)
(* what it holds is what the assets that were paid for have cost less what *)
(* those sold have brought, and no account is overspent.                   *)
AssetsBalance == InBalance(asset)
=============================================================================
