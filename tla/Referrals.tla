----------------------------- MODULE Referrals ------------------------------
(***************************************************************************)
(* ReferralsService (reading a user's referrals, paying them out) and      *)
(* UserProvisioningService, which gives a user the default workspace and   *)
(* records who referred them.                                              *)
(*                                                                         *)
(* A referral is named after the user it brought in (referredUserId is     *)
(* unique).  A request that holds an advisory lock runs one database       *)
(* transaction, whose writes are applied by one action, the commit.        *)
(* Rewards are taken to be positive.                                       *)
(***************************************************************************)
EXTENDS Requests

CONSTANTS
    User,
    Business,  \* workspaces a payout can go to
    Member,    \* the users provisioned at the start, long ago
    Inviter    \* who had referred each of them; their referral is PENDING

ASSUME ReferralAssumption ==
    /\ Nothing \notin User
    /\ Member \subseteq User
    /\ Inviter \in [Member -> Member \cup {Nothing}]
    /\ \A u \in Member : Inviter[u] # u

BonusKey(b) == <<"referral-bonus", b>>
PayoutKey(u) == <<"referrals", u>>
SignupKey(u) == <<"user", u>>

VARIABLES
    status,      \* of the referral that brought in each user
    referrer,    \* whose it is
    aged,        \* users registered 30 days ago or more
    coded,       \* users with a referral code
    workspaces,  \* how many default workspaces each user has
    accounts,    \* how many referral-bonus accounts each workspace has
    confirmed,   \* how often each referral was set to CONFIRMED
    paid         \* how often each referral was part of a payout

referrals == <<status, referrer, confirmed, paid>>
users     == <<aged, coded, workspaces>>
referralTables == <<referrals, users, accounts>>

ReferralsInit ==
    /\ referrer = [u \in User |-> IF u \in Member THEN Inviter[u] ELSE Nothing]
    /\ status = [u \in User |-> IF referrer[u] = Nothing THEN "NONE" ELSE "PENDING"]
    /\ aged = Member
    /\ coded = Member
    /\ workspaces = [u \in User |-> IF u \in Member THEN 1 ELSE 0]
    /\ accounts = [b \in Business |-> 0]
    /\ confirmed = [u \in User |-> 0]
    /\ paid = [u \in User |-> 0]

(* Every operation but the first is by a provisioned user, who alone is    *)
(* issued a token.                                                         *)
Begins(r, op) == At(r, op, "start") /\ (op # "provision" => workspaces[body[r].user] > 0)

Unpaid(r) == Finish(r) /\ UNCHANGED referralTables

(***************************************************************************)
(* ensureDefaultWorkspace(), called by signing in as well as by itself.    *)
(***************************************************************************)
Provisioned(r) ==
    IF body[r].op = "provision" THEN Finish(r)
    ELSE /\ Goto(r, "record")
         /\ lock' = [lock EXCEPT ![r] = {}]
         /\ UNCHANGED <<body, mem>>

Provision(r) ==
    /\ Begins(r, "provision")
    /\ Await(r, "look")
    /\ UNCHANGED referralTables

LookForWorkspace(r) ==
    /\ pc[r] = "look"
    /\ IF workspaces[body[r].user] > 0 THEN Provisioned(r) ELSE Await(r, "signup")
    /\ UNCHANGED referralTables

TakeSignupKey(r) ==
    /\ pc[r] = "signup"
    /\ Take(r, SignupKey(body[r].user), "recheck")
    /\ UNCHANGED referralTables

(* Bug: nothing is looked up again under the lock.                         *)
RecheckNothing(r) ==
    /\ pc[r] = "recheck"
    /\ Await(r, "seed-chart")
    /\ UNCHANGED referralTables

Recheck(r) ==
    /\ pc[r] = "recheck"
    /\ IF workspaces[body[r].user] > 0 THEN Provisioned(r) ELSE Await(r, "seed-chart")
    /\ UNCHANGED referralTables

(* recordReferral ignores an unknown code and one's own.                   *)
CodeCounts(u, via) == via \in coded /\ via # u

(* The commit: the code, the referral and the workspace at once.           *)
CreateWorkspace(r) ==
    LET u == body[r].user
        via == body[r].via
    IN  /\ pc[r] = "seed-chart"
        /\ coded' = coded \cup {u}
        /\ workspaces' = [workspaces EXCEPT ![u] = @ + 1]
        /\ status' = IF CodeCounts(u, via) THEN [status EXCEPT ![u] = "PENDING"] ELSE status
        /\ referrer' = IF CodeCounts(u, via) THEN [referrer EXCEPT ![u] = via] ELSE referrer
        /\ Provisioned(r)
        /\ UNCHANGED <<aged, accounts, confirmed, paid>>

(***************************************************************************)
(* getReferralInfo(): assigns a missing code, lists the PENDING referrals  *)
(* and confirms those that are old enough, one update each, by id and      *)
(* outside any transaction.                                                *)
(***************************************************************************)
AssignCode(r) ==
    /\ Begins(r, "info")
    /\ coded' = coded \cup {body[r].user}
    /\ Await(r, "list")
    /\ UNCHANGED <<referrals, aged, workspaces, accounts>>

Due(u) == {x \in User : referrer[x] = u /\ status[x] = "PENDING" /\ x \in aged}

ListPending(r) ==
    /\ At(r, "info", "list")
    /\ Keep(r, "confirm", Due(body[r].user))
    /\ UNCHANGED referralTables

Confirm(r) ==
    /\ At(r, "info", "confirm")
    /\ \/ \E x \in mem[r] :
            /\ status' = [status EXCEPT ![x] = "CONFIRMED"]
            /\ confirmed' = [confirmed EXCEPT ![x] = @ + 1]
            /\ Keep(r, "confirm", mem[r] \ {x})
            /\ UNCHANGED <<referrer, paid, users, accounts>>
       \/ mem[r] = {} /\ Unpaid(r)

(***************************************************************************)
(* withdraw(): under the lock of the workspace's bonus account and that of *)
(* the referrer, in this order.                                            *)
(***************************************************************************)

TakeBonusKey(r) ==
    /\ Begins(r, "withdraw")
    /\ Take(r, BonusKey(body[r].business), "payout")
    /\ UNCHANGED referralTables

(* Bug: one lock, the workspace's.                                         *)
TakeNoPayoutKey(r) ==
    /\ At(r, "withdraw", "payout")
    /\ Await(r, "read")
    /\ UNCHANGED referralTables

TakePayoutKey(r) ==
    /\ At(r, "withdraw", "payout")
    /\ Take(r, PayoutKey(body[r].user), "read")
    /\ UNCHANGED referralTables

Payable(u) == {x \in User : referrer[x] = u /\ status[x] = "CONFIRMED"}

ReadPayable(r) ==
    LET due == Payable(body[r].user)
    IN  /\ At(r, "withdraw", "read")
        /\ IF due = {} THEN Finish(r) ELSE Keep(r, "account", due)
        /\ UNCHANGED referralTables

(* requireOrCreateReferralBonusAccount: the lookup.                        *)
FindBonusAccount(r) ==
    /\ At(r, "withdraw", "account")
    /\ Await(r, IF accounts[body[r].business] = 0 THEN "open-and-pay" ELSE "pay")
    /\ UNCHANGED referralTables

(* The commit: the account if it was missing, the posting, and the update  *)
(* of the listed referrals, by id.                                         *)
Pay(r) ==
    /\ At(r, "withdraw", "pay") \/ At(r, "withdraw", "open-and-pay")
    /\ accounts' = [accounts EXCEPT ![body[r].business] =
                       @ + (IF pc[r] = "open-and-pay" THEN 1 ELSE 0)]
    /\ status' = [x \in User |-> IF x \in mem[r] THEN "WITHDRAWN" ELSE status[x]]
    /\ paid' = [x \in User |-> paid[x] + (IF x \in mem[r] THEN 1 ELSE 0)]
    /\ Finish(r)
    /\ UNCHANGED <<referrer, confirmed, users>>

(* 30 days go by since a user registered.                                  *)
Age(u) ==
    /\ workspaces[u] > 0
    /\ u \notin aged
    /\ aged' = aged \cup {u}
    /\ UNCHANGED <<requests, referrals, coded, workspaces, accounts>>

ReferralStep(r) ==
    \/ Provision(r) \/ LookForWorkspace(r) \/ TakeSignupKey(r) \/ Recheck(r)
    \/ CreateWorkspace(r)
    \/ AssignCode(r) \/ ListPending(r) \/ Confirm(r)
    \/ TakeBonusKey(r) \/ TakePayoutKey(r) \/ ReadPayable(r) \/ FindBonusAccount(r) \/ Pay(r)

(***************************************************************************)
(* Properties                                                              *)
(***************************************************************************)

(* "Two first requests racing ... this lock lets exactly one create it":   *)
(* no user ends up with two default workspaces.                            *)
OneDefaultWorkspace == \A u \in User : workspaces[u] <= 1

(* Two users paid out into one workspace share its referral-bonus account. *)
OneBonusAccount == \A b \in Business : accounts[b] <= 1

(* Looked up, then created under a lock: each exists once.                 *)
ProvisionedOnce == OneDefaultWorkspace /\ OneBonusAccount

(* However many payouts race, one confirmation pays at most once.          *)
PaidPerConfirmation == \A x \in User : paid[x] <= confirmed[x]

(* Nothing is paid before the 30 days are over.                            *)
PaidAfterThirtyDays == \A x \in User : paid[x] > 0 => x \in aged

(* A referrer is paid when a bonus is due, and once for it.                *)
PayoutsEarned == PaidPerConfirmation /\ PaidAfterThirtyDays

(* "the earnings are paid once": a referral is part of one payout.         *)
PaidOnce == \A x \in User : paid[x] <= 1
=============================================================================
