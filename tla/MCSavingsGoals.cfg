CONSTANTS
    r1 = r1  r2 = r2  r3 = r3  r4 = r4
    Request = {r1, r2, r3, r4}
    Wallet <- Wallets
    Goal <- Goals
    Amount = {1}
    Target = {1, 2}
    Existing = {11, 12}
    Stock <- Stocks
    Opening <- Openings
    Body <- Bodies
    Free = Free
SYMMETRY Symmetry
SPECIFICATION Spec
INVARIANTS
    GoalsSafe
    MoneyConserved
PROPERTIES
    ReopenedOnlyByHand
    PotSpec
