------------------------------ MODULE MCLedger ------------------------------
(***************************************************************************)
(* Instances of Ledger for TLC.                                            *)
(***************************************************************************)
EXTENDS Ledger, TLC

CONSTANTS r1, r2, r3, r4, A, B, k1, c1, d1

Goal == 1
Wallet == 2

Cash == 11
Sales == 12
Bonus == 13
CashOfB == 21
SalesOfB == 22

MCAccountBusiness ==
    Cash :> A @@ Sales :> A @@ Bonus :> A @@ CashOfB :> B @@ SalesOfB :> B
MCContactBusiness == c1 :> A @@ d1 :> B
MCReferralBonus == {Bonus}
MCKeys == {Goal, Wallet}
MCAccounts == {Cash, Sales, Bonus, CashOfB, SalesOfB}

Dr(a, n) == [account |-> a, side |-> "DEBIT", amount |-> n]
Cr(a, n) == [account |-> a, side |-> "CREDIT", amount |-> n]

PostOf(biz, k, ls) ==
    [op |-> "post", business |-> biz, key |-> k, lines |-> ls, contact |-> NoContact,
     appliedTo |-> NoTxn, keys |-> {}, owned |-> FALSE]

(* Postings that share a key, over the same accounts in both orders, from  *)
(* both workspaces, and one that each check of post() refuses.             *)
Sale(k) == PostOf(A, k, <<Dr(Cash, 5), Cr(Sales, 5)>>)
Refund(k) == PostOf(A, k, <<Dr(Sales, 2), Cr(Cash, 1), Cr(Cash, 1)>>)
SaleOfB(k) == PostOf(B, k, <<Dr(CashOfB, 3), Cr(SalesOfB, 3)>>)
OneSided == PostOf(A, NoKey, <<Dr(Cash, 5)>>)
NotPositive == PostOf(A, NoKey, <<Dr(Cash, 0), Cr(Sales, 0)>>)
Unbalanced == PostOf(A, NoKey, <<Dr(Cash, 5), Cr(Sales, 4)>>)
Foreign == PostOf(A, NoKey, <<Dr(Cash, 3), Cr(SalesOfB, 3)>>)
Missing == PostOf(A, NoKey, <<Dr(Cash, 3), Cr(99, 3)>>)
Stranger == [Sale(NoKey) EXCEPT !.contact = d1]
Payment(t) == [Refund(NoKey) EXCEPT !.contact = c1, !.appliedTo = t]
Invoice == [Sale(k1) EXCEPT !.contact = c1]

Reconcile(biz) == [op |-> "reconcile", business |-> biz]
VoidOf(biz, t) == [op |-> "void", business |-> biz, target |-> t]

(* Postings of features: a goal's deposit, two features that lock a wallet *)
(* and a goal in the same order, a referral payout.                        *)
Feature(keys, ls) ==
    [PostOf(A, NoKey, ls) EXCEPT !.keys = keys, !.owned = TRUE]
Deposit == Feature({Goal}, <<Dr(Sales, 4), Cr(Cash, 4)>>)
Withdrawal == Feature({Goal, Wallet}, <<Dr(Cash, 4), Cr(Sales, 4)>>)
Payout == [Feature({Wallet}, <<Dr(Cash, 7), Cr(Bonus, 7)>>) EXCEPT !.owned = FALSE]

PostBodies ==
    {Sale(k1), Refund(k1), SaleOfB(k1), Sale(NoKey), Reconcile(A),
     OneSided, NotPositive, Unbalanced, Foreign, Missing, Stranger}

VoidBodies ==
    {Invoice, Deposit, Payout, Reconcile(A)}
      \cup {VoidOf(biz, t) : biz \in Business, t \in Request}
      \cup {Payment(t) : t \in Request}

WaitBodies == {Sale(k1), Refund(k1), Withdrawal, VoidOf(A, r1)}

(* The requests of a behaviour are all of one kind.                        *)
RecordBodies == PostBodies \cup VoidBodies

MCInit ==
    /\ Init
    /\ \/ body \in [Request -> PostBodies]
       \/ body \in [Request -> VoidBodies]

MCSpec == MCInit /\ [][Next]_vars

Symmetry == Permutations(Request)
=============================================================================
