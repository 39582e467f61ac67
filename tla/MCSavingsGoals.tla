--------------------------- MODULE MCSavingsGoals ---------------------------
(* Small instances of SavingsGoals.                                        *)
EXTENDS SavingsGoals, TLC

CONSTANTS r1, r2, r3, r4

w1 == 1
g1 == 11
g2 == 12
g3 == 13

Wallets == {w1}
Goals == {g1, g2, g3}
Openings == [w \in Wallets |-> 1]

(* g1 is one short of its target, g2 is empty, g3 is yet to be created.    *)
Stocks == [g \in Goals |-> [saved |-> IF g = g1 THEN 1 ELSE 0,
                           target |-> IF g = g1 THEN 2 ELSE 1]]

Contribute(g) == [op |-> "contribute", goal |-> g, wallet |-> w1, amount |-> 1]
Transfer(g, h) == [op |-> "transfer", goal |-> g, to |-> h, amount |-> 1]
Withdraw(g) == [op |-> "withdraw", goal |-> g, wallet |-> w1]

Bodies ==
    {Contribute(g1), Contribute(g2), Transfer(g1, g2), Withdraw(g1), Withdraw(g2),
     [op |-> "setStatus", goal |-> g1, status |-> "ACTIVE"],
     [op |-> "purchase", wallet |-> w1, amount |-> 1],
     [op |-> "deposit", wallet |-> w1, amount |-> 1],
     [op |-> "spend", wallet |-> w1, amount |-> 1],
     [op |-> "view", goal |-> g1],
     [op |-> "delete", goal |-> g2],
     [op |-> "retarget", goal |-> g1, target |-> 1],
     [op |-> "create", goal |-> g3, target |-> 1]}

Symmetry == Permutations(Request)
=============================================================================
