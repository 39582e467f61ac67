------------------------- MODULE SavingsGoalsProofs -------------------------
(***************************************************************************)
(* Proofs that the savings goals are pots of money, for every set of       *)
(* requests, goals, wallets and amounts.                                   *)
(*                                                                         *)
(* The argument has three layers: types, and which place belongs to which  *)
(* request (Base); who holds the locks a place needs (Locked); what the    *)
(* request has checked, and why it still holds at the commit (Sound).      *)
(***************************************************************************)
EXTENDS SavingsGoals, SumsProofs

LockOp == {"contribute", "transfer", "withdraw", "purchase"}

(* What the fields of a body are.                                          *)
LEMMA BodyFields ==
    ASSUME NEW b \in Body
    PROVE  /\ b.op \in {"create", "retarget", "setStatus", "delete", "view", "deposit", "spend"} \cup LockOp
           /\ b.op \notin {"purchase", "deposit", "spend"} => b.goal \in Goal
           /\ b.op \in {"create", "retarget"} => b.target \in Target
           /\ b.op = "setStatus" => b.status \in ByHand
           /\ b.op \in {"contribute", "withdraw", "purchase", "deposit", "spend"} => b.wallet \in Wallet
           /\ b.op \in {"contribute", "transfer", "purchase", "deposit", "spend"} =>
                b.amount \in Amount
           /\ b.op = "transfer" => b.to \in Goal
<1>1. CASE b \in CreateBody \cup RetargetBody
  BY <1>1 DEF CreateBody, RetargetBody, LockOp
<1>2. CASE b \in StatusBody \cup GoalBody
  BY <1>2 DEF StatusBody, GoalBody, LockOp
<1>3. CASE b \in ContributeBody \cup TransferBody
  BY <1>3 DEF ContributeBody, TransferBody, LockOp
<1>4. CASE b \in WithdrawBody \cup WalletBody
  BY <1>4 DEF WithdrawBody, WalletBody, LockOp
<1> QED BY <1>1, <1>2, <1>3, <1>4, BodyAssumption

LEMMA MoneyFacts ==
    /\ \A n \in Amount : n \in Nat /\ n \in Int /\ n > 0
    /\ \A n \in Target : n \in Nat
    /\ \A g \in Goal : Stock[g].saved \in Nat /\ Stock[g].target \in Nat
    /\ \A w \in Wallet : Opening[w] \in Nat
<1>1. \A g \in Goal : Stock[g] \in [saved : Nat, target : Target]
  BY MoneyAssumption
<1>2. \A n \in Target : n \in Nat
  BY MoneyAssumption
<1>3. \A n \in Amount : n \in Nat /\ n \in Int /\ n > 0
  BY MoneyAssumption
<1>4. \A w \in Wallet : Opening[w] \in Nat
  BY MoneyAssumption
<1> QED BY <1>1, <1>2, <1>3, <1>4

(* A flow under locks takes locks there are, and at least one.             *)
LEMMA KeysThere ==
    ASSUME NEW b \in Body, b.op \in LockOp
    PROVE  KeysOf(b) \subseteq Key
<1>1. CASE b.op = "contribute"
  BY <1>1, BodyFields DEF KeysOf, Key
<1>2. CASE b.op = "transfer"
  BY <1>2, BodyFields DEF KeysOf, Key
<1>3. CASE b.op = "withdraw"
  BY <1>3, BodyFields DEF KeysOf, Key
<1>4. CASE b.op = "purchase"
  BY <1>4, BodyFields DEF KeysOf, Key
<1> QED BY <1>1, <1>2, <1>3, <1>4 DEF LockOp

(***************************************************************************)
(* First layer: types and places.                                          *)
(***************************************************************************)
PlaceAt(r) ==
    /\ pc[r] \in {"keys", "read", "funds", "commit"} =>
        body[r].op \in LockOp /\ (body[r].op = "transfer" => body[r].goal # body[r].to)
    /\ pc[r] = "funds" => body[r].op \in {"withdraw", "purchase"}
    /\ pc[r] = "status" => body[r].op \in {"contribute", "view"}
    /\ pc[r] \in {"amount", "mark"} => body[r].op \in {"contribute", "view", "transfer"}
    /\ pc[r] = "write" => body[r].op \in {"create", "retarget", "setStatus", "deposit", "spend"}
    /\ pc[r] \in {"count", "delete"} => body[r].op = "delete"

Base == TypeOK /\ \A r \in Request : PlaceAt(r)

LEMMA CloseTyped ==
    ASSUME TypeOK, NEW r \in Request, Close(r)
    PROVE  /\ body' \in [Request -> Body]
           /\ pc' \in [Request -> {"idle", "keys", "read", "funds", "commit", "status", "amount",
                                   "mark", "write", "count", "delete", "done"}]
           /\ holder' \in [Key -> Request \cup {Free}]
           /\ amount' \in [Request -> Int]
           /\ seen' \in [Request -> [status : Status \cup {"UNUSED"}, target : Nat]]
           /\ body' = body /\ pc'[r] = "done" /\ \A q \in Request \ {r} : pc'[q] = pc[q]
<1>1. Unread \in [status : Status \cup {"UNUSED"}, target : Nat]
  BY DEF Unread
<1> QED BY <1>1 DEF TypeOK, Close, Goto, ReleaseKeys

(* A request that ends only has to leave the shared state well typed.      *)
LEMMA CloseBase ==
    ASSUME Base, NEW r \in Request, Close(r),
           status' \in [Goal -> Status \cup {"UNUSED", "DELETED"}],
           target' \in [Goal -> Nat], saved' \in [Goal -> Int], used' \subseteq Goal,
           balance' \in [Wallet -> Int], other' \in [Wallet -> Int],
           spent' \in [Wallet -> Int]
    PROVE  Base'
BY CloseTyped DEF Base, TypeOK, PlaceAt

LEMMA FinishBase ==
    ASSUME Base, NEW r \in Request, Finish(r)
    PROVE  Base'
BY CloseBase DEF Base, TypeOK, Finish, goals, money

LEMMA FieldsOf ==
    ASSUME Base, NEW r \in Request
    PROVE  body[r] \in Body
BY DEF Base, TypeOK

LEMMA BaseStep ==
    ASSUME Base, NEW r \in Request, Step(r)
    PROVE  Base'
<1> USE DEF Base
<1> body[r] \in Body
  BY FieldsOf
<1>1. CASE Finish(r)
  BY <1>1, FinishBase
<1>2. CASE Arrive(r)
  <2>1. CASE GoOnQuietly(r, FirstStep(body[r])) /\ ~Refused(body[r])
    <3>1. body[r].op \in {"create", "retarget", "setStatus", "delete", "view", "deposit", "spend"} \cup LockOp
      BY BodyFields
    <3> PICK l : l = FirstStep(body[r])
      OBVIOUS
    <3>2. \/ l = "keys" /\ body[r].op \in LockOp
          \/ l = "count" /\ body[r].op = "delete"
          \/ l = "status" /\ body[r].op = "view"
          \/ l = "write" /\ body[r].op \in {"create", "retarget", "setStatus", "deposit", "spend"}
      BY <3>1 DEF FirstStep, LockOp
    <3>3. body[r].op = "transfer" => body[r].goal # body[r].to
      BY <2>1 DEF Refused
    <3>4. TypeOK'
      BY <2>1, <3>2 DEF GoOnQuietly, GoOn, Goto, TypeOK, goals, money
    <3>5. ASSUME NEW q \in Request PROVE PlaceAt(q)'
      BY <2>1, <3>2, <3>3 DEF GoOnQuietly, GoOn, Goto, TypeOK, PlaceAt
    <3> QED BY <3>4, <3>5
  <2> QED BY <1>2, <1>1, <2>1 DEF Arrive
<1>3. CASE TakeKey(r)
  <2>1. pc[r] = "keys" /\ UNCHANGED <<goals, money, body, amount, seen>>
    BY <1>3 DEF TakeKey
  <2>4. KeysOf(body[r]) \subseteq Key
    BY <2>1, KeysThere DEF PlaceAt
  <2> PICK k \in Key, l \in {"read", "keys"} :
        holder' = [holder EXCEPT ![k] = r] /\ Goto(r, l)
    <3> PICK k \in KeysOf(body[r]) \ Held(r) :
          /\ holder' = [holder EXCEPT ![k] = r]
          /\ Goto(r, IF KeysOf(body[r]) \ Held(r) = {k} THEN "read" ELSE "keys")
      BY <1>3 DEF TakeKey
    <3> PICK l : l = IF KeysOf(body[r]) \ Held(r) = {k} THEN "read" ELSE "keys"
      OBVIOUS
    <3> l \in {"read", "keys"}
      OBVIOUS
    <3> QED BY <2>4
  <2>2. TypeOK'
    BY <2>1 DEF Goto, TypeOK, goals, money
  <2>3. ASSUME NEW q \in Request PROVE PlaceAt(q)'
    BY <2>1 DEF Goto, TypeOK, PlaceAt
  <2> QED BY <2>2, <2>3
<1>4. CASE Read(r)
  <2>1. pc[r] = "read" /\ body[r].op \in LockOp
    BY <1>4 DEF Read, PlaceAt
  <2>2. CASE /\ body[r].op \in {"contribute", "transfer"} /\ GoOn(r, "commit")
             /\ amount' = [amount EXCEPT ![r] = body[r].amount]
             /\ seen' \in [Request -> [status : Status \cup {"UNUSED"}, target : Nat]]
    <3>1. body[r].amount \in Int
      BY <2>2, BodyFields, MoneyFacts
    <3>2. TypeOK'
      BY <2>2, <3>1 DEF GoOn, Goto, TypeOK, goals, money
    <3>3. ASSUME NEW q \in Request PROVE PlaceAt(q)'
      BY <2>1, <2>2 DEF GoOn, Goto, TypeOK, PlaceAt
    <3> QED BY <3>2, <3>3
  <2>3. CASE /\ body[r].op \in {"withdraw", "purchase"} /\ GoOn(r, "funds")
             /\ \E n \in Int : amount' = [amount EXCEPT ![r] = n]
             /\ UNCHANGED seen
    <3>2. TypeOK'
      BY <2>3 DEF GoOn, Goto, TypeOK, goals, money
    <3>3. ASSUME NEW q \in Request PROVE PlaceAt(q)'
      BY <2>1, <2>3 DEF GoOn, Goto, TypeOK, PlaceAt
    <3> QED BY <3>2, <3>3
  <2>4. CASE ReadContribute(r)
    <3>1. seen \in [Request -> [status : Status \cup {"UNUSED"}, target : Nat]]
      BY DEF TypeOK
    <3> QED BY <1>1, <2>2, <2>4, <3>1 DEF ReadContribute
  <2>5. CASE ReadTransfer(r)
    <3>1. CASE Finish(r)
      BY <1>1, <3>1
    <3>2. CASE /\ GoOn(r, "commit") /\ Exists(body[r].to)
               /\ amount' = [amount EXCEPT ![r] = body[r].amount]
               /\ seen' = [seen EXCEPT ![r] = [status |-> status[body[r].to],
                                                target |-> target[body[r].to]]]
      <4>1. body[r].to \in Goal
        BY <2>5, BodyFields DEF ReadTransfer
      <4>2. [status |-> status[body[r].to], target |-> target[body[r].to]]
              \in [status : Status \cup {"UNUSED"}, target : Nat]
        BY <3>2, <4>1 DEF TypeOK, Exists
      <4>3. seen' \in [Request -> [status : Status \cup {"UNUSED"}, target : Nat]]
        BY <3>2, <4>2 DEF TypeOK
      <4> QED BY <2>2, <2>5, <3>2, <4>3 DEF ReadTransfer
    <3> QED BY <2>5, <3>1, <3>2 DEF ReadTransfer
  <2>6. CASE ReadWithdraw(r)
    <3>1. saved[body[r].goal] \in Int
      BY <2>6, BodyFields DEF ReadWithdraw, TypeOK
    <3> QED BY <1>1, <2>3, <2>6, <3>1 DEF ReadWithdraw
  <2>7. CASE ReadPurchase(r)
    <3>1. body[r].amount \in Int
      BY <2>7, BodyFields, MoneyFacts DEF ReadPurchase
    <3> QED BY <2>3, <2>7, <3>1 DEF ReadPurchase
  <2> QED BY <1>4, <2>4, <2>5, <2>6, <2>7 DEF Read
<1>5. CASE Funds(r)
  <2>1. CASE pc[r] = "funds" /\ GoOnQuietly(r, "commit")
    BY <2>1 DEF GoOnQuietly, GoOn, Goto, TypeOK, PlaceAt, goals, money, LockOp
  <2> QED BY <1>1, <1>5, <2>1 DEF Funds
<1>6. CASE Commit(r)
  <2>1. CASE CommitContribute(r)
    BY <2>1, BodyFields DEF CommitContribute, LeaveTransaction, Goto, ReleaseKeys,
                            TypeOK, PlaceAt
  <2>2. CASE CommitTransfer(r)
    BY <2>2, BodyFields DEF CommitTransfer, LeaveTransaction, Goto, ReleaseKeys,
                            TypeOK, PlaceAt, money
  <2>3. CASE CommitWithdraw(r)
    <3>1. body[r].goal \in Goal /\ body[r].wallet \in Wallet
      BY <2>3, BodyFields DEF CommitWithdraw
    <3> QED BY <2>3, <3>1, CloseBase DEF CommitWithdraw, TypeOK, Status
  <2>4. CASE CommitPurchase(r)
    <3>1. body[r].wallet \in Wallet
      BY <2>4, BodyFields DEF CommitPurchase
    <3>2. balance' \in [Wallet -> Int] /\ other' \in [Wallet -> Int]
      BY <2>4, <3>1 DEF CommitPurchase, TypeOK
    <3> QED BY <2>4, <3>2, CloseBase DEF CommitPurchase, TypeOK, goals
  <2> QED BY <1>1, <1>6, <2>1, <2>2, <2>3, <2>4 DEF Commit
<1>7. CASE ReadStatus(r)
  <2>1. CASE pc[r] = "status" /\ Exists(body[r].goal) /\ GoOn(r, "amount") /\ UNCHANGED amount
             /\ seen' = [seen EXCEPT ![r] = [status |-> status[body[r].goal],
                                              target |-> target[body[r].goal]]]
    BY <2>1, BodyFields DEF GoOn, Goto, TypeOK, PlaceAt, goals, money, Exists
  <2> QED BY <1>1, <1>7, <2>1 DEF ReadStatus
<1>8. CASE ReadAmount(r)
  <2>1. CASE pc[r] = "amount" /\ GoOnQuietly(r, "mark")
    BY <2>1 DEF GoOnQuietly, GoOn, Goto, TypeOK, PlaceAt, goals, money
  <2> QED BY <1>1, <1>8, <2>1 DEF ReadAmount
<1>9. CASE Mark(r)
  <2>1. CASE Close(r) /\ UNCHANGED <<target, saved, used, money>>
             /\ status' = [status EXCEPT ![Marked(body[r])] = "COMPLETED"]
    BY <2>1, CloseBase DEF TypeOK, money, Status, ByHand
  <2> QED BY <1>1, <1>9, <2>1 DEF Mark
<1>10. CASE Write(r)
  <2>1. CASE Close(r) /\ WriteCreate(r)
    BY <2>1, CloseBase, BodyFields, MoneyAssumption
       DEF WriteCreate, WriteGoal, TypeOK, money, Status, ByHand
  <2>2. CASE Close(r) /\ WriteStatus(r)
    BY <2>2, CloseBase, BodyFields DEF WriteStatus, WriteGoal, TypeOK, money, Status, ByHand
  <2>3. CASE Close(r) /\ WriteTarget(r)
    BY <2>3, CloseBase, BodyFields, MoneyAssumption
       DEF WriteTarget, WriteGoal, TypeOK, money
  <2>4. CASE Close(r) /\ WriteDeposit(r)
    <3>1. body[r].wallet \in Wallet /\ body[r].amount \in Int
      BY <2>4, BodyFields, MoneyFacts DEF WriteDeposit
    <3>2. balance' \in [Wallet -> Int] /\ other' \in [Wallet -> Int]
      BY <2>4, <3>1 DEF WriteDeposit, TypeOK
    <3> QED BY <2>4, <3>2, CloseBase DEF WriteDeposit, TypeOK, goals
  <2>5. CASE Close(r) /\ WriteSpend(r)
    <3>1. body[r].wallet \in Wallet /\ body[r].amount \in Int
      BY <2>5, BodyFields, MoneyFacts DEF WriteSpend
    <3>2. /\ balance' \in [Wallet -> Int] /\ other' \in [Wallet -> Int]
          /\ spent' \in [Wallet -> Int]
      BY <2>5, <3>1 DEF WriteSpend, TypeOK
    <3> QED BY <2>5, <3>2, CloseBase DEF WriteSpend, TypeOK, goals
  <2> QED BY <1>1, <1>10, <2>1, <2>2, <2>3, <2>4, <2>5 DEF Write
<1>11. CASE Count(r)
  <2>1. CASE pc[r] = "count" /\ GoOnQuietly(r, "delete")
    BY <2>1 DEF GoOnQuietly, GoOn, Goto, TypeOK, PlaceAt, goals, money
  <2> QED BY <1>1, <1>11, <2>1 DEF Count
<1>12. CASE Delete(r)
  <2>1. CASE Close(r) /\ UNCHANGED <<target, saved, used, money>>
             /\ status' = [status EXCEPT ![body[r].goal] = "DELETED"]
    BY <2>1, CloseBase DEF TypeOK, money
  <2> QED BY <1>1, <1>12, <2>1 DEF Delete
<1>13. CASE Abort(r)
  BY <1>1, <1>13 DEF Abort
<1> QED BY <1>2, <1>3, <1>4, <1>5, <1>6, <1>7, <1>8, <1>9, <1>10, <1>11, <1>12, <1>13 DEF Step

LEMMA InitBase == Init => Base
<1> SUFFICES ASSUME Init PROVE Base
  OBVIOUS
<1>1. /\ status \in [Goal -> Status \cup {"UNUSED", "DELETED"}]
      /\ used \subseteq Goal
  BY DEF Init, Status, ByHand
<1>2. target \in [Goal -> Nat] /\ saved \in [Goal -> Int]
  BY MoneyFacts DEF Init
<1>3. /\ balance \in [Wallet -> Int] /\ other \in [Wallet -> Int]
      /\ spent \in [Wallet -> Int] /\ amount \in [Request -> Int]
  BY MoneyAssumption DEF Init
<1>4. /\ body \in [Request -> Body]
      /\ holder \in [Key -> Request \cup {Free}]
      /\ pc = [r \in Request |-> "idle"]
  BY DEF Init
<1>5. seen \in [Request -> [status : Status \cup {"UNUSED"}, target : Nat]]
  BY DEF Init, Unread
<1> QED BY <1>1, <1>2, <1>3, <1>4, <1>5 DEF Base, TypeOK, PlaceAt

LEMMA BaseInvariant == Spec => []Base
<1>1. Base /\ [Next]_vars => Base'
  <2> SUFFICES ASSUME Base, [Next]_vars PROVE Base'
    OBVIOUS
  <2>1. CASE UNCHANGED vars
    BY <2>1 DEF vars, Base, TypeOK, PlaceAt
  <2> QED BY <2>1, BaseStep DEF Next
<1> QED BY <1>1, InitBase, PTL DEF Spec

(* Every variable holds a value of its kind.                               *)
THEOREM Typing == Spec => []TypeOK
BY BaseInvariant, PTL DEF Base

(***************************************************************************)
(* Second layer: a request that checks and posts holds its locks.          *)
(***************************************************************************)
UnderLocks == {"read", "funds", "commit"}

Locked == \A r \in Request : pc[r] \in UnderLocks =>
            \A k \in KeysOf(body[r]) : holder[k] = r

LeavesLocks(r) == ReleaseKeys(r) /\ pc'[r] \notin UnderLocks

StaysPut(r) == UNCHANGED holder /\ (pc'[r] \in UnderLocks => pc[r] \in UnderLocks)

(* A step touches no other request's place, body or amount, and gives up   *)
(* all locks or none.                                                      *)
LEMMA Alone ==
    ASSUME Base, NEW r \in Request, Step(r)
    PROVE  /\ UNCHANGED body
           /\ \A q \in Request \ {r} : pc'[q] = pc[q] /\ amount'[q] = amount[q]
           /\ LeavesLocks(r) \/ StaysPut(r) \/ TakeKey(r)
<1> DEFINE Goal3 == /\ UNCHANGED body
                    /\ \A q \in Request \ {r} : pc'[q] = pc[q] /\ amount'[q] = amount[q]
                    /\ LeavesLocks(r) \/ StaysPut(r) \/ TakeKey(r)
<1> USE DEF Base, TypeOK
<1>1. CASE Close(r)
  BY <1>1 DEF Close, Goto, LeavesLocks, UnderLocks
<1>2. CASE TakeKey(r)
  BY <1>2 DEF TakeKey, Goto
<1>3. ASSUME NEW l \in {"status", "amount"}, LeaveTransaction(r, l) PROVE Goal3
  BY <1>3 DEF LeaveTransaction, Goto, LeavesLocks, UnderLocks
<1>4. ASSUME NEW l, GoOn(r, l), NEW n, amount' = [amount EXCEPT ![r] = n],
             l \in UnderLocks => pc[r] \in UnderLocks
      PROVE  Goal3
  BY <1>4 DEF GoOn, Goto, StaysPut
<1>5. ASSUME NEW l, GoOn(r, l), UNCHANGED amount, l \in UnderLocks => pc[r] \in UnderLocks
      PROVE  Goal3
  BY <1>5 DEF GoOn, Goto, StaysPut
<1>6. CASE Arrive(r)
  BY <1>1, <1>5, <1>6 DEF Arrive, Finish, GoOnQuietly, FirstStep, UnderLocks
<1>7. CASE Read(r)
  BY <1>1, <1>4, <1>7 DEF Read, ReadContribute, ReadTransfer, ReadWithdraw, ReadPurchase,
                          Finish, UnderLocks
<1>8. CASE Funds(r)
  BY <1>1, <1>5, <1>8 DEF Funds, Finish, GoOnQuietly, UnderLocks
<1>9. CASE Commit(r)
  BY <1>1, <1>3, <1>9 DEF Commit, CommitContribute, CommitTransfer, CommitWithdraw,
                          CommitPurchase, Finish
<1>10. CASE ReadStatus(r) \/ ReadAmount(r) \/ Count(r)
  BY <1>1, <1>5, <1>10 DEF ReadStatus, ReadAmount, Count, Finish, GoOnQuietly, UnderLocks
<1>11. CASE Mark(r) \/ Write(r) \/ Delete(r) \/ Abort(r)
  BY <1>1, <1>11 DEF Mark, Write, Delete, Abort, Finish
<1> QED BY <1>2, <1>6, <1>7, <1>8, <1>9, <1>10, <1>11 DEF Step

LEMMA LockedStep ==
    ASSUME Base, Locked, NEW r \in Request, Step(r)
    PROVE  Locked'
<1> SUFFICES ASSUME NEW q \in Request, pc'[q] \in UnderLocks, NEW k \in KeysOf(body'[q])
             PROVE  holder'[k] = q
  BY DEF Locked
<1>1. body' = body /\ (q # r => pc'[q] = pc[q])
  BY Alone
<1>2. KeysOf(body'[q]) = KeysOf(body[q])
  BY <1>1
<1>3. body[q].op \in LockOp
  <2>1. PlaceAt(q)'
    BY BaseStep DEF Base
  <2> QED BY <2>1, <1>1 DEF PlaceAt, UnderLocks
<1>4. k \in Key
  BY <1>2, <1>3, KeysThere, FieldsOf
<1>5. pc[q] \in UnderLocks => holder[k] = q
  BY <1>2 DEF Locked
<1>6. CASE LeavesLocks(r)
  BY <1>1, <1>4, <1>5, <1>6 DEF LeavesLocks, ReleaseKeys
<1>7. CASE StaysPut(r)
  BY <1>1, <1>5, <1>7 DEF StaysPut
<1>8. CASE TakeKey(r)
  <2> PICK j \in KeysOf(body[r]) \ Held(r) :
        /\ holder[j] = Free
        /\ holder' = [holder EXCEPT ![j] = r]
        /\ Goto(r, IF KeysOf(body[r]) \ Held(r) = {j} THEN "read" ELSE "keys")
    BY <1>8 DEF TakeKey
  <2>1. /\ holder \in [Key -> Request \cup {Free}]
        /\ pc = [p \in Request |-> pc[p]]
    BY DEF Base, TypeOK
  <2>2. CASE q # r
    BY <1>1, <1>4, <1>5, <2>1, <2>2, KeyAssumption
  <2>3. CASE q = r
    <3>1. KeysOf(body[r]) \ Held(r) = {j}
      BY <2>1, <2>3 DEF Goto, UnderLocks
    <3> QED BY <1>2, <1>4, <2>1, <2>3, <3>1 DEF Held
  <2> QED BY <2>2, <2>3
<1> QED BY <1>6, <1>7, <1>8, Alone

(* No two requests under locks share a lock.                               *)
LEMMA Apart ==
    ASSUME Locked, NEW q \in Request, NEW r \in Request, q # r,
           pc[q] \in UnderLocks, pc[r] \in UnderLocks
    PROVE  KeysOf(body[q]) \cap KeysOf(body[r]) = {}
BY DEF Locked
(***************************************************************************)
(* Third layer: what a request has checked still holds when it commits.    *)
(***************************************************************************)
ContributionSound(r) ==
    pc[r] = "commit" /\ body[r].op = "contribute" =>
        /\ status[body[r].goal] # "WITHDRAWN"
        /\ amount[r] = body[r].amount

TransferSound(r) ==
    pc[r] = "commit" /\ body[r].op = "transfer" =>
        /\ status[body[r].to] # "WITHDRAWN"
        /\ amount[r] = body[r].amount
        /\ amount[r] <= saved[body[r].goal]

WithdrawalSound(r) ==
    pc[r] \in {"funds", "commit"} /\ body[r].op = "withdraw" =>
        /\ status[body[r].goal] # "WITHDRAWN"
        /\ amount[r] = saved[body[r].goal]
        /\ amount[r] > 0

PurchaseSound(r) ==
    pc[r] \in {"funds", "commit"} /\ body[r].op = "purchase" => amount[r] = body[r].amount

FundsSound(r) ==
    pc[r] = "commit" /\ body[r].op \in {"withdraw", "purchase"} =>
        amount[r] <= Covered(body[r].wallet)

SoundAt(r) ==
    /\ ContributionSound(r) /\ TransferSound(r)
    /\ WithdrawalSound(r) /\ PurchaseSound(r) /\ FundsSound(r)

Savings ==
    /\ SavedNeverNegative
    /\ WithdrawnIsEmpty
    /\ WalletNeverOverdrawn
    /\ EntriesHaveGoal
    /\ \A g \in Goal : saved[g] > 0 => g \in used
    /\ \A w \in Wallet : spent[w] \in Nat

Sound == Savings /\ \A r \in Request : SoundAt(r)

(* What a step can do to the shared state.                                 *)
Quiet == UNCHANGED <<status, saved, used, balance, other, spent>>

RowWritten ==
    /\ \E g \in Goal, s \in Status \cup {"DELETED"} :
        /\ status' = [status EXCEPT ![g] = s]
        /\ s = "WITHDRAWN" => status[g] = "WITHDRAWN"
        /\ s = "DELETED" => g \notin used
    /\ UNCHANGED <<saved, used, balance, other, spent>>

Earned ==
    /\ \E w \in Wallet, n \in Nat : /\ balance' = [balance EXCEPT ![w] = @ + n]
                                    /\ other' = [other EXCEPT ![w] = @ + n]
    /\ UNCHANGED <<status, saved, used, spent>>

Spent ==
    /\ \E w \in Wallet, n \in Nat : /\ balance' = [balance EXCEPT ![w] = @ - n]
                                    /\ other' = [other EXCEPT ![w] = @ - n]
                                    /\ spent' = [spent EXCEPT ![w] = @ + n]
    /\ UNCHANGED <<status, saved, used>>

Committed(r) ==
    /\ pc[r] = "commit"
    /\ CommitContribute(r) \/ CommitTransfer(r) \/ CommitWithdraw(r) \/ CommitPurchase(r)

LEMMA Effect ==
    ASSUME Base, NEW r \in Request, Step(r)
    PROVE  Quiet \/ RowWritten \/ Earned \/ Spent \/ Committed(r)
<1> body[r] \in Body
  BY FieldsOf
<1>1. CASE Finish(r)
  BY <1>1 DEF Finish, Quiet, goals, money
<1>2. ASSUME NEW l, GoOn(r, l) PROVE Quiet
  BY <1>2 DEF GoOn, Quiet, goals, money
<1>3. CASE Arrive(r) \/ Read(r) \/ Funds(r) \/ ReadStatus(r) \/ ReadAmount(r) \/ Count(r) \/ Abort(r)
  BY <1>1, <1>2, <1>3 DEF Arrive, Read, ReadContribute, ReadTransfer, ReadWithdraw, ReadPurchase,
                          Funds, ReadStatus, ReadAmount, Count, Abort, GoOnQuietly
<1>4. CASE TakeKey(r)
  BY <1>4 DEF TakeKey, Quiet, goals, money
<1>5. CASE Commit(r)
  BY <1>1, <1>5 DEF Commit, Committed
<1>6. CASE Mark(r)
  <2>1. pc[r] = "mark" => Marked(body[r]) \in Goal
    BY BodyFields DEF Base, PlaceAt, Marked
  <2> QED BY <1>1, <1>6, <2>1 DEF Mark, RowWritten, Completable, Status, ByHand, money
<1>7. CASE Write(r)
  <2>1. CASE WriteCreate(r)
    <3>1. body[r].goal \in Goal
      BY <2>1, BodyFields DEF WriteCreate
    <3>2. /\ status' = [status EXCEPT ![body[r].goal] = "ACTIVE"]
          /\ UNCHANGED <<saved, used, balance, other, spent>>
      BY <2>1 DEF WriteCreate, WriteGoal, money
    <3>3. "ACTIVE" \in Status \cup {"DELETED"}
      BY DEF Status, ByHand
    <3> QED BY <3>1, <3>2, <3>3 DEF RowWritten
  <2>2. CASE WriteStatus(r)
    BY <2>2, BodyFields DEF WriteStatus, WriteGoal, RowWritten, Status, ByHand, money
  <2>3. CASE WriteTarget(r)
    BY <2>3, BodyFields DEF WriteTarget, WriteGoal, RowWritten, Exists, Status, ByHand, money
  <2>4. CASE WriteDeposit(r)
    <3>1. body[r].wallet \in Wallet /\ body[r].amount \in Nat
      BY <2>4, BodyFields, MoneyFacts DEF WriteDeposit
    <3> QED BY <2>4, <3>1 DEF WriteDeposit, Earned, goals
  <2>5. CASE WriteSpend(r)
    <3>1. body[r].wallet \in Wallet /\ body[r].amount \in Nat
      BY <2>5, BodyFields, MoneyFacts DEF WriteSpend
    <3> QED BY <2>5, <3>1 DEF WriteSpend, Spent, goals
  <2> QED BY <1>1, <1>7, <2>1, <2>2, <2>3, <2>4, <2>5 DEF Write
<1>8. CASE Delete(r)
  <2>1. pc[r] = "delete" => body[r].goal \in Goal
    BY BodyFields DEF Base, PlaceAt
  <2> QED BY <1>1, <1>8, <2>1 DEF Delete, RowWritten, Deletable, Status, ByHand, money
<1> QED BY <1>3, <1>4, <1>5, <1>6, <1>7, <1>8 DEF Step

(* What each commit finds, from what its request has checked.              *)
LEMMA CommitFinds ==
    ASSUME Base, Sound, NEW r \in Request, Committed(r)
    PROVE  LET g == body[r].goal
               w == body[r].wallet
           IN  \/ /\ CommitContribute(r) /\ g \in Goal /\ w \in Wallet
                  /\ amount[r] \in Amount /\ status[g] \in ByHand
               \/ /\ CommitTransfer(r) /\ g \in Goal /\ body[r].to \in Goal /\ g # body[r].to
                  /\ amount[r] \in Amount /\ amount[r] <= saved[g]
                  /\ status[g] \in ByHand /\ status[body[r].to] \in ByHand
               \/ /\ CommitWithdraw(r) /\ g \in Goal /\ w \in Wallet
                  /\ status[g] \in ByHand /\ amount[r] = saved[g]
                  /\ amount[r] > 0 /\ amount[r] <= Covered(w)
               \/ /\ CommitPurchase(r) /\ w \in Wallet
                  /\ amount[r] \in Amount /\ amount[r] <= Covered(w)
<1> body[r] \in Body /\ pc[r] = "commit" /\ SoundAt(r) /\ PlaceAt(r)
  BY FieldsOf DEF Committed, Sound, Base
<1>1. CASE CommitContribute(r)
  <2>1. body[r].op = "contribute" /\ Exists(body[r].goal)
    BY <1>1 DEF CommitContribute
  <2>2. body[r].goal \in Goal /\ body[r].wallet \in Wallet /\ body[r].amount \in Amount
    BY <2>1, BodyFields
  <2> QED BY <1>1, <2>1, <2>2 DEF SoundAt, ContributionSound, Exists, Status
<1>2. CASE CommitTransfer(r)
  <2>1. body[r].op = "transfer" /\ Exists(body[r].goal) /\ Exists(body[r].to)
    BY <1>2 DEF CommitTransfer
  <2>2. /\ body[r].goal \in Goal /\ body[r].to \in Goal /\ body[r].amount \in Amount
        /\ body[r].goal # body[r].to
    BY <2>1, BodyFields DEF PlaceAt
  <2>3. saved[body[r].goal] # 0
    BY <2>1, <2>2, MoneyFacts DEF SoundAt, TransferSound
  <2>4. status[body[r].goal] # "WITHDRAWN"
    BY <2>2, <2>3 DEF Sound, Savings, WithdrawnIsEmpty
  <2> QED BY <1>2, <2>1, <2>2, <2>4 DEF SoundAt, TransferSound, Exists, Status
<1>3. CASE CommitWithdraw(r)
  <2>1. body[r].op = "withdraw" /\ Exists(body[r].goal)
    BY <1>3 DEF CommitWithdraw
  <2>2. body[r].goal \in Goal /\ body[r].wallet \in Wallet
    BY <2>1, BodyFields
  <2> QED BY <1>3, <2>1, <2>2 DEF SoundAt, WithdrawalSound, FundsSound, Exists, Status
<1>4. CASE CommitPurchase(r)
  <2>1. body[r].op = "purchase"
    BY <1>4 DEF CommitPurchase
  <2>2. body[r].wallet \in Wallet /\ body[r].amount \in Amount
    BY <2>1, BodyFields
  <2> QED BY <1>4, <2>1, <2>2 DEF SoundAt, PurchaseSound, FundsSound
<1> QED BY <1>1, <1>2, <1>3, <1>4 DEF Committed

LEMMA SavingsStep ==
    ASSUME Base, Sound, NEW r \in Request, Step(r)
    PROVE  Savings'
<1> DEFINE g == body[r].goal
           w == body[r].wallet
           n == amount[r]
<1> USE DEF Savings, SavedNeverNegative, WithdrawnIsEmpty, WalletNeverOverdrawn, EntriesHaveGoal,
            Covered
<1>1. /\ status \in [Goal -> Status \cup {"UNUSED", "DELETED"}]
      /\ saved \in [Goal -> Int] /\ used \subseteq Goal
      /\ balance \in [Wallet -> Int] /\ spent \in [Wallet -> Int]
      /\ Savings
  BY DEF Base, TypeOK, Sound
<1>2. CASE Quiet
  BY <1>1, <1>2 DEF Quiet, Exists
<1>3. CASE RowWritten
  BY <1>1, <1>3 DEF RowWritten, Exists, Status, ByHand
<1>4. CASE Earned
  BY <1>1, <1>4 DEF Earned, Exists
<1>5. CASE Spent
  BY <1>1, <1>5 DEF Spent, Exists
<1>6. CASE Committed(r)
  <2>1. CASE /\ CommitContribute(r) /\ g \in Goal /\ w \in Wallet
             /\ n \in Amount /\ status[g] \in ByHand
    BY <1>1, <2>1, MoneyFacts DEF CommitContribute, Exists, Status, ByHand
  <2>2. CASE /\ CommitTransfer(r) /\ g \in Goal /\ body[r].to \in Goal /\ g # body[r].to
             /\ n \in Amount /\ n <= saved[g]
             /\ status[g] \in ByHand /\ status[body[r].to] \in ByHand
    BY <1>1, <2>2, MoneyFacts DEF CommitTransfer, Exists, Status, ByHand, money
  <2>3. CASE /\ CommitWithdraw(r) /\ g \in Goal /\ w \in Wallet
             /\ status[g] \in ByHand /\ n = saved[g] /\ n > 0 /\ n <= Covered(w)
    BY <1>1, <2>3 DEF CommitWithdraw, Exists, Status, ByHand
  <2>4. CASE /\ CommitPurchase(r) /\ w \in Wallet /\ n \in Amount /\ n <= Covered(w)
    BY <1>1, <2>4, MoneyFacts DEF CommitPurchase, Exists, goals
  <2> QED BY <1>6, CommitFinds, <2>1, <2>2, <2>3, <2>4
<1> QED BY <1>2, <1>3, <1>4, <1>5, <1>6, Effect
(* What another request has checked stays so: whatever the step changes    *)
(* that the check relied on, it changes under a lock the other holds.      *)
LEMMA OthersSound ==
    ASSUME Base, Locked, Sound, NEW r \in Request, Step(r),
           NEW q \in Request, q # r
    PROVE  SoundAt(q)'
<1> DEFINE g == body[r].goal
           w == body[r].wallet
           n == amount[r]
<1>1. /\ status \in [Goal -> Status \cup {"UNUSED", "DELETED"}]
      /\ saved \in [Goal -> Int]
      /\ balance \in [Wallet -> Int] /\ spent \in [Wallet -> Int]
      /\ SoundAt(q) /\ PlaceAt(q)
  BY DEF Base, TypeOK, Sound
<1>2. body' = body /\ pc'[q] = pc[q] /\ amount'[q] = amount[q]
  BY Alone
<1>3. CASE pc[q] \notin {"funds", "commit"}
  BY <1>2, <1>3 DEF SoundAt, ContributionSound, TransferSound, WithdrawalSound,
                    PurchaseSound, FundsSound
<1>4. CASE pc[q] \in {"funds", "commit"}
  <2> USE <1>4
  <2>1. body[q].op \in LockOp /\ body[q] \in Body
    BY <1>1, FieldsOf DEF PlaceAt
  <2>2. /\ body[q].op # "purchase" => body[q].goal \in Goal
        /\ body[q].op = "transfer" => body[q].to \in Goal
        /\ body[q].op \in {"withdraw", "purchase"} => body[q].wallet \in Wallet
    BY <2>1, BodyFields DEF LockOp
  <2> DEFINE Kept == /\ body[q].op # "purchase" =>
                          /\ saved'[body[q].goal] = saved[body[q].goal]
                          /\ status[body[q].goal] # "WITHDRAWN" => status'[body[q].goal] # "WITHDRAWN"
                     /\ body[q].op = "transfer" =>
                          (status[body[q].to] # "WITHDRAWN" => status'[body[q].to] # "WITHDRAWN")
                     /\ body[q].op \in {"withdraw", "purchase"} =>
                          balance'[body[q].wallet] + spent'[body[q].wallet]
                            >= balance[body[q].wallet] + spent[body[q].wallet]
  <2>3. Kept
    <3>1. CASE Quiet
      BY <1>1, <2>2, <3>1 DEF Quiet
    <3>2. CASE RowWritten
      BY <1>1, <2>2, <3>2 DEF RowWritten
    <3>3. CASE Earned
      BY <1>1, <2>2, <3>3 DEF Earned
    <3>4. CASE Spent
      BY <1>1, <2>2, <3>4 DEF Spent
    <3>5. CASE Committed(r)
      <4>1. KeysOf(body[q]) \cap KeysOf(body[r]) = {}
        BY <3>5, Apart DEF Committed, UnderLocks
      <4>2. /\ body[q].op # "purchase" => body[q].goal \in KeysOf(body[q])
            /\ body[q].op = "transfer" => body[q].to \in KeysOf(body[q])
            /\ body[q].op \in {"withdraw", "purchase"} => body[q].wallet \in KeysOf(body[q])
        BY <2>1 DEF KeysOf, LockOp
      <4>3. CASE /\ CommitContribute(r) /\ g \in Goal /\ w \in Wallet
                 /\ n \in Amount /\ status[g] \in ByHand
        <5>1. g \in KeysOf(body[r])
          BY <4>3 DEF CommitContribute, KeysOf
        <5> QED BY <1>1, <2>2, <4>1, <4>2, <4>3, <5>1, MoneyFacts DEF CommitContribute
      <4>4. CASE /\ CommitTransfer(r) /\ g \in Goal /\ body[r].to \in Goal /\ g # body[r].to
                 /\ n \in Amount /\ n <= saved[g]
                 /\ status[g] \in ByHand /\ status[body[r].to] \in ByHand
        <5>1. g \in KeysOf(body[r]) /\ body[r].to \in KeysOf(body[r])
          BY <4>4 DEF CommitTransfer, KeysOf
        <5> QED BY <1>1, <2>2, <4>1, <4>2, <4>4, <5>1 DEF CommitTransfer, money
      <4>5. CASE /\ CommitWithdraw(r) /\ g \in Goal /\ w \in Wallet
                 /\ status[g] \in ByHand /\ n = saved[g] /\ n > 0 /\ n <= Covered(w)
        <5>1. g \in KeysOf(body[r]) /\ w \in KeysOf(body[r])
          BY <4>5 DEF CommitWithdraw, KeysOf
        <5> QED BY <1>1, <2>2, <4>1, <4>2, <4>5, <5>1 DEF CommitWithdraw
      <4>6. CASE /\ CommitPurchase(r) /\ w \in Wallet /\ n \in Amount /\ n <= Covered(w)
        <5>1. w \in KeysOf(body[r])
          BY <4>6 DEF CommitPurchase, KeysOf
        <5> QED BY <1>1, <2>2, <4>1, <4>2, <4>6, <5>1 DEF CommitPurchase, goals
      <4> QED BY <3>5, CommitFinds, <4>3, <4>4, <4>5, <4>6
    <3> QED BY <3>1, <3>2, <3>3, <3>4, <3>5, Effect
  <2>4. amount[q] \in Int
    BY DEF Base, TypeOK
  <2>5. balance' \in [Wallet -> Int] /\ spent' \in [Wallet -> Int]
    BY BaseStep DEF Base, TypeOK
  <2>6. FundsSound(q)'
    BY <1>1, <1>2, <2>2, <2>3, <2>4, <2>5 DEF SoundAt, FundsSound, Covered
  <2> QED BY <1>1, <1>2, <2>1, <2>3, <2>6 DEF SoundAt, ContributionSound, TransferSound,
                                           WithdrawalSound, PurchaseSound
<1> QED BY <1>3, <1>4

(* A request goes to the commit only after its own checks.                 *)
LEMMA OwnSound ==
    ASSUME Base, Sound, NEW r \in Request, Step(r)
    PROVE  SoundAt(r)'
<1> USE DEF SoundAt, ContributionSound, TransferSound, WithdrawalSound, PurchaseSound, FundsSound
<1>0. /\ pc = [q \in Request |-> pc[q]] /\ amount = [q \in Request |-> amount[q]]
      /\ body' = body
  BY Alone DEF Base, TypeOK
<1>1. CASE pc'[r] \notin {"funds", "commit"}
  BY <1>1
<1>2. CASE Read(r)
  <2>1. CASE ReadContribute(r)
    BY <1>0, <1>1, <2>1 DEF ReadContribute, GoOn, Goto, Finish, Close, goals, money
  <2>2. CASE ReadTransfer(r)
    BY <1>0, <1>1, <2>2 DEF ReadTransfer, GoOn, Goto, Finish, Close, goals, money
  <2>3. CASE ReadWithdraw(r)
    BY <1>0, <1>1, <2>3 DEF ReadWithdraw, GoOn, Goto, Finish, Close, goals, money
  <2>4. CASE ReadPurchase(r)
    BY <1>0, <1>1, <2>4 DEF ReadPurchase, GoOn, Goto, goals, money
  <2> QED BY <1>2, <2>1, <2>2, <2>3, <2>4 DEF Read
<1>3. CASE Funds(r)
  <2>1. CASE Finish(r)
    BY <1>0, <1>1, <2>1 DEF Finish, Close, Goto
  <2>2. SoundAt(r) /\ body[r].op \in {"withdraw", "purchase"}
    BY <1>3 DEF Sound, Funds, Base, PlaceAt
  <2>3. CASE balance[body[r].wallet] >= amount[r] /\ pc[r] = "funds" /\ GoOnQuietly(r, "commit")
    <3>1. body[r].wallet \in Wallet
      BY <2>2, BodyFields, FieldsOf
    <3>2. /\ balance[body[r].wallet] \in Int /\ spent[body[r].wallet] \in Nat
          /\ amount[r] \in Int
      BY <3>1 DEF Sound, Savings, Base, TypeOK
    <3>3. amount[r] <= Covered(body[r].wallet)
      BY <2>3, <3>2 DEF Covered
    <3> QED BY <1>0, <2>2, <2>3, <3>3 DEF GoOnQuietly, GoOn, Goto, goals, money, Covered
  <2> QED BY <1>3, <2>1, <2>3 DEF Funds
<1>4. CASE ~Read(r) /\ ~Funds(r)
  <2>1. CASE Close(r)
    BY <1>0, <1>1, <2>1 DEF Close, Goto
  <2>2. ASSUME NEW l \in {"keys", "read", "status", "amount", "mark", "write", "count", "delete"},
               Goto(r, l)
        PROVE  SoundAt(r)'
    BY <1>0, <1>1, <2>2 DEF Goto
  <2>3. CASE Arrive(r)
    BY <2>1, <2>2, <2>3 DEF Arrive, Finish, GoOnQuietly, GoOn, FirstStep
  <2>4. CASE TakeKey(r)
    BY <2>2, <2>4 DEF TakeKey
  <2>5. CASE Commit(r)
    BY <2>1, <2>2, <2>5 DEF Commit, CommitContribute, CommitTransfer, CommitWithdraw,
                            CommitPurchase, LeaveTransaction, Finish
  <2>6. CASE ReadStatus(r) \/ ReadAmount(r) \/ Count(r)
    BY <2>1, <2>2, <2>6 DEF ReadStatus, ReadAmount, Count, Finish, GoOnQuietly, GoOn
  <2>7. CASE Mark(r) \/ Write(r) \/ Delete(r) \/ Abort(r)
    BY <2>1, <2>7 DEF Mark, Write, Delete, Abort, Finish
  <2> QED BY <1>4, <2>3, <2>4, <2>5, <2>6, <2>7 DEF Step
<1> QED BY <1>2, <1>3, <1>4

IInv == Base /\ Locked /\ Sound

LEMMA InitIInv == Init => IInv
<1> SUFFICES ASSUME Init PROVE IInv
  OBVIOUS
<1>1. Base
  BY InitBase
<1>2. \A r \in Request : pc[r] = "idle"
  BY DEF Init
<1>3. Locked
  BY <1>2 DEF Locked, UnderLocks
<1>4. \A r \in Request : SoundAt(r)
  BY <1>2 DEF SoundAt, ContributionSound, TransferSound, WithdrawalSound, PurchaseSound, FundsSound
<1>5. /\ \A g \in Goal : status[g] = IF g \in Existing THEN "ACTIVE" ELSE "UNUSED"
      /\ \A g \in Goal : saved[g] = Stock[g].saved
      /\ used = {g \in Goal : Stock[g].saved > 0}
      /\ balance = Opening /\ spent = [w \in Wallet |-> 0]
  BY DEF Init
<1>6. \A g \in Goal : g \in used => g \in Existing
  BY <1>5, MoneyAssumption
<1>7. Savings
  BY <1>5, <1>6, MoneyFacts
     DEF Savings, SavedNeverNegative, WithdrawnIsEmpty, WalletNeverOverdrawn, EntriesHaveGoal,
         Exists, Status, ByHand, Covered
<1> QED BY <1>1, <1>3, <1>4, <1>7 DEF IInv, Sound

LEMMA NextIInv == IInv /\ [Next]_vars => IInv'
<1> SUFFICES ASSUME IInv, [Next]_vars PROVE IInv'
  OBVIOUS
<1> USE DEF IInv
<1>1. ASSUME NEW r \in Request, Step(r) PROVE IInv'
  <2>1. Base' /\ Locked' /\ Savings'
    BY <1>1, BaseStep, LockedStep, SavingsStep
  <2>2. \A q \in Request : SoundAt(q)'
    BY <1>1, OwnSound, OthersSound
  <2> QED BY <2>1, <2>2 DEF Sound
<1>2. CASE UNCHANGED vars
  BY <1>2 DEF vars, Base, TypeOK, PlaceAt, Locked, UnderLocks, Sound, Savings, SavedNeverNegative,
              WithdrawnIsEmpty, WalletNeverOverdrawn, EntriesHaveGoal, Exists, SoundAt, Covered,
              ContributionSound, TransferSound, WithdrawalSound, PurchaseSound, FundsSound
<1> QED BY <1>1, <1>2 DEF Next

LEMMA IInvInvariant == Spec => []IInv
BY InitIInv, NextIInv, PTL DEF Spec

(* No goal is ever below zero: two transfers, or a transfer and a          *)
(* withdrawal, never take the same money out of it.                        *)
THEOREM GoalsNeverNegative == Spec => []SavedNeverNegative
BY IInvInvariant, PTL DEF IInv, Sound, Savings

(* A WITHDRAWN goal holds nothing, whatever was on its way to it.          *)
THEOREM WithdrawnHoldsNothing == Spec => []WithdrawnIsEmpty
BY IInvInvariant, PTL DEF IInv, Sound, Savings

(* Withdrawals and purchases never drive a savings wallet below zero.      *)
THEOREM WalletsNeverNegative == Spec => []WalletNeverOverdrawn
BY IInvInvariant, PTL DEF IInv, Sound, Savings

(* No delete erases a goal under an entry.                                 *)
THEOREM GoalsOutliveEntries == Spec => []EntriesHaveGoal
BY IInvInvariant, PTL DEF IInv, Sound, Savings

(* What the locks of the goals and the wallets are for, together.          *)
THEOREM GoalsStaySafe == Spec => []GoalsSafe
<1>1. /\ SavedNeverNegative
      /\ WithdrawnIsEmpty
      /\ WalletNeverOverdrawn
      /\ EntriesHaveGoal
      => GoalsSafe
  BY DEF GoalsSafe
<1> QED BY <1>1, GoalsNeverNegative, WithdrawnHoldsNothing, WalletsNeverNegative,
           GoalsOutliveEntries, PTL

(***************************************************************************)
(* The goals implement Pots.                                               *)
(***************************************************************************)
LEMMA PotInit == Init => Pot!Init
<1> SUFFICES ASSUME Init PROVE Pot!Init
  OBVIOUS
<1>1. /\ status \in [Goal -> {"UNUSED", "ACTIVE"}]
      /\ \A g \in Goal : status[g] = "UNUSED" => g \notin Existing
  BY DEF Init
<1>2. \A g \in Goal : Stock[g] \in [saved : Nat, target : Target]
  BY MoneyAssumption
<1>3. target \in [Goal -> Target] /\ saved \in [Goal -> Nat]
  BY <1>2 DEF Init
<1>4. \A g \in Goal : status[g] = "UNUSED" => saved[g] = 0
  BY <1>1, MoneyAssumption DEF Init
<1>5. [w \in Wallet |-> Covered(w)] \in [Wallet -> Nat]
  BY MoneyFacts DEF Init, Covered
<1> QED BY <1>1, <1>3, <1>4, <1>5 DEF Pot!Init

LEMMA PotStep ==
    ASSUME IInv, NEW r \in Request, Step(r)
    PROVE  Pot!Next \/ UNCHANGED Pot!vars
<1> USE DEF IInv
<1> body[r] \in Body /\ PlaceAt(r)
  BY FieldsOf DEF Base
<1>0. /\ status \in [Goal -> Status \cup {"UNUSED", "DELETED"}]
      /\ target \in [Goal -> Nat] /\ saved \in [Goal -> Int]
      /\ balance \in [Wallet -> Int] /\ spent \in [Wallet -> Int]
  BY DEF Base, TypeOK
<1>1. CASE UNCHANGED <<goals, money>>
  BY <1>1 DEF goals, money, Pot!vars, Covered
<1>2. CASE Arrive(r) \/ TakeKey(r) \/ Read(r) \/ Funds(r) \/ ReadStatus(r) \/ ReadAmount(r)
           \/ Count(r) \/ Abort(r)
  BY <1>1, <1>2 DEF Arrive, TakeKey, Read, ReadContribute, ReadTransfer, ReadWithdraw,
                    ReadPurchase, Funds, ReadStatus, ReadAmount, Count, Abort, Finish,
                    GoOnQuietly, GoOn
<1>3. CASE Commit(r)
  <2> DEFINE g == body[r].goal
             w == body[r].wallet
             n == amount[r]
  <2>1. CASE /\ CommitContribute(r) /\ g \in Goal /\ w \in Wallet
             /\ n \in Amount /\ status[g] \in ByHand
    <3>1. Pot!PutIn(g, w, n)
      BY <1>0, <2>1, MoneyFacts DEF CommitContribute, Pot!PutIn, Pot!Open, ByHand, Covered
    <3> QED BY <2>1, <3>1 DEF Pot!Next
  <2>2. CASE /\ CommitTransfer(r) /\ g \in Goal /\ body[r].to \in Goal /\ g # body[r].to
             /\ n \in Amount /\ n <= saved[g]
             /\ status[g] \in ByHand /\ status[body[r].to] \in ByHand
    <3>1. Pot!Move(g, body[r].to, n)
      BY <2>2 DEF CommitTransfer, Pot!Move, Pot!Open, Pot!Exists, ByHand, money, Covered
    <3> QED BY <2>2, <3>1 DEF Pot!Next
  <2>3. CASE /\ CommitWithdraw(r) /\ g \in Goal /\ w \in Wallet
             /\ status[g] \in ByHand /\ n = saved[g] /\ n > 0 /\ n <= Covered(w)
    <3>1. saved[g] - n = 0
      BY <1>0, <2>3
    <3>2. saved' = [saved EXCEPT ![g] = 0]
      BY <1>0, <2>3, <3>1 DEF CommitWithdraw
    <3>3. \A v \in Wallet : Covered(v)' = IF v = w THEN Covered(v) - saved[g] ELSE Covered(v)
      BY <1>0, <2>3 DEF CommitWithdraw, Covered
    <3>4. [v \in Wallet |-> Covered(v)']
            = [[v \in Wallet |-> Covered(v)] EXCEPT ![w] = @ - saved[g]]
      BY <2>3, <3>3
    <3>5. /\ target' = target /\ Pot!Open(g) /\ saved[g] > 0
          /\ status' = [status EXCEPT ![g] = "WITHDRAWN"]
      BY <2>3 DEF CommitWithdraw, Pot!Open, ByHand
    <3>6. Pot!CashOut(g, w)
      BY <2>3, <3>2, <3>4, <3>5 DEF Pot!CashOut
    <3> QED BY <2>3, <3>6 DEF Pot!Next
  <2>4. CASE /\ CommitPurchase(r) /\ w \in Wallet /\ n \in Amount /\ n <= Covered(w)
    <3>1. Pot!Spend(w, n)
      BY <1>0, <2>4, MoneyFacts DEF CommitPurchase, Pot!Spend, goals, Covered
    <3> QED BY <2>4, <3>1 DEF Pot!Next
  <2> QED BY <1>1, <1>3, <2>1, <2>2, <2>3, <2>4, CommitFinds DEF Commit, Committed, Finish
<1>4. CASE Mark(r)
  <2>1. Marked(body[r]) \in Goal
    BY <1>4, BodyFields DEF Mark, PlaceAt, Marked
  <2>2. CASE Completable(Marked(body[r])) /\ UNCHANGED <<target, saved, used, money>>
             /\ status' = [status EXCEPT ![Marked(body[r])] = "COMPLETED"]
    <3>1. Pot!SetStatus(Marked(body[r]), "COMPLETED")
      BY <2>2 DEF Completable, Pot!SetStatus, Pot!Exists, Pot!Open, money, Covered
    <3> QED BY <2>1, <3>1 DEF Pot!Next
  <2> QED BY <1>1, <1>4, <2>2 DEF Mark, Finish
<1>5. CASE Write(r)
  <2> DEFINE g == body[r].goal
  <2>1. CASE WriteCreate(r)
    <3>1. g \in Goal /\ body[r].target \in Target
      BY <2>1, BodyFields DEF WriteCreate
    <3>2. Pot!Create(g, body[r].target)
      BY <2>1 DEF WriteCreate, WriteGoal, Pot!Create, money, Covered
    <3> QED BY <3>1, <3>2 DEF Pot!Next
  <2>2. CASE WriteStatus(r)
    <3>1. g \in Goal /\ body[r].status \in ByHand
      BY <2>2, BodyFields DEF WriteStatus
    <3>2. target' = target
      BY <1>0, <2>2, <3>1 DEF WriteStatus, WriteGoal
    <3>3. Pot!SetStatus(g, body[r].status)
      BY <2>2, <3>1, <3>2 DEF WriteStatus, WriteGoal, Pot!SetStatus, Pot!Exists, Pot!Open,
                              Exists, Status, ByHand, money, Covered
    <3> QED BY <3>1, <3>3 DEF Pot!Next, ByHand
  <2>3. CASE WriteTarget(r)
    <3>1. g \in Goal /\ body[r].target \in Target
      BY <2>3, BodyFields DEF WriteTarget
    <3>2. status' = status
      BY <1>0, <2>3, <3>1 DEF WriteTarget, WriteGoal
    <3>3. Pot!Retarget(g, body[r].target)
      BY <2>3, <3>1, <3>2 DEF WriteTarget, WriteGoal, Pot!Retarget, Pot!Exists, Pot!Open,
                              Exists, Status, ByHand, money, Covered
    <3> QED BY <3>1, <3>3 DEF Pot!Next
  <2>4. CASE WriteDeposit(r)
    <3>1. body[r].wallet \in Wallet /\ body[r].amount \in Amount
      BY <2>4, BodyFields DEF WriteDeposit
    <3>2. Pot!Earn(body[r].wallet, body[r].amount)
      BY <1>0, <2>4, <3>1, MoneyFacts DEF WriteDeposit, Pot!Earn, goals, Covered
    <3> QED BY <3>1, <3>2 DEF Pot!Next
  <2>5. CASE WriteSpend(r)
    <3>1. body[r].wallet \in Wallet /\ body[r].amount \in Nat
      BY <2>5, BodyFields, MoneyFacts DEF WriteSpend
    <3>2. \A w \in Wallet : Covered(w)' = Covered(w)
      BY <1>0, <2>5, <3>1 DEF WriteSpend, Covered
    <3> QED BY <2>5, <3>2 DEF WriteSpend, goals, Pot!vars
  <2> QED BY <1>1, <1>5, <2>1, <2>2, <2>3, <2>4, <2>5 DEF Write, Finish
<1>6. CASE Delete(r)
  <2> DEFINE g == body[r].goal
  <2>1. g \in Goal
    BY <1>6, BodyFields DEF Delete, PlaceAt
  <2>2. CASE /\ Exists(g) /\ Deletable(g) /\ status' = [status EXCEPT ![g] = "DELETED"]
             /\ UNCHANGED <<target, saved, used, money>>
    <3>1. saved[g] = 0
      BY <1>0, <2>1, <2>2 DEF Deletable, Sound, Savings, SavedNeverNegative
    <3>2. Pot!Delete(g)
      BY <2>2, <3>1 DEF Pot!Delete, Pot!Exists, Pot!Open, Exists, Status, ByHand, money, Covered
    <3> QED BY <2>1, <3>2 DEF Pot!Next
  <2> QED BY <1>1, <1>6, <2>2 DEF Delete, Finish
<1> QED BY <1>2, <1>3, <1>4, <1>5, <1>6 DEF Step

(* The goals with their locks, stale reads and aborts implement the pots   *)
(* of money of Pots: every check still holds at the instant of the commit. *)
THEOREM GoalsImplementPots == Spec => PotSpec
<1>1. IInv /\ [Next]_vars => [Pot!Next]_Pot!vars
  <2> SUFFICES ASSUME IInv, [Next]_vars PROVE Pot!Next \/ UNCHANGED Pot!vars
    OBVIOUS
  <2>1. CASE UNCHANGED vars
    BY <2>1 DEF vars, Pot!vars, Covered
  <2> QED BY <2>1, PotStep DEF Next
<1> QED BY <1>1, PotInit, IInvInvariant, PTL DEF Spec, PotSpec, Pot!Spec
(***************************************************************************)
(* A withdrawn goal is reopened by hand only.                              *)
(***************************************************************************)

(* A withdrawal leaves an entry, so the goal is not deleted either.        *)
WithdrawnUsed == \A g \in Goal : status[g] = "WITHDRAWN" => g \in used

LEMMA WithdrawnUsedStep ==
    ASSUME Base, WithdrawnUsed, NEW r \in Request, Step(r)
    PROVE  WithdrawnUsed'
<1> USE DEF WithdrawnUsed
<1>1. status \in [Goal -> Status \cup {"UNUSED", "DELETED"}]
  BY DEF Base, TypeOK
<1>2. CASE Quiet \/ Earned \/ Spent
  BY <1>2 DEF Quiet, Earned, Spent
<1>3. CASE RowWritten
  BY <1>1, <1>3 DEF RowWritten
<1>4. CASE CommitContribute(r) \/ CommitTransfer(r) \/ CommitPurchase(r)
  BY <1>4 DEF CommitContribute, CommitTransfer, CommitPurchase, goals
<1>5. CASE CommitWithdraw(r)
  BY <1>1, <1>5 DEF CommitWithdraw
<1> QED BY <1>2, <1>3, <1>4, <1>5, Effect DEF Committed

LEMMA WithdrawnUsedInvariant == Spec => []WithdrawnUsed
<1>1. Init => WithdrawnUsed
  BY DEF Init, WithdrawnUsed
<1>2. Base /\ WithdrawnUsed /\ [Next]_vars => WithdrawnUsed'
  BY WithdrawnUsedStep DEF Next, WithdrawnUsed, vars
<1> QED BY <1>1, <1>2, BaseInvariant, PTL DEF Spec

LEMMA ReopenStep ==
    ASSUME Base, WithdrawnUsed, NEW r \in Request, Step(r),
           NEW g \in Goal, status[g] = "WITHDRAWN", status'[g] # "WITHDRAWN"
    PROVE  /\ body[r].op = "setStatus" /\ body[r].goal = g
           /\ pc[r] = "write" /\ pc'[r] = "done"
<1>1. /\ status \in [Goal -> Status \cup {"UNUSED", "DELETED"}]
      /\ pc \in [Request -> {"idle", "keys", "read", "funds", "commit", "status", "amount",
                             "mark", "write", "count", "delete", "done"}]
  BY DEF Base, TypeOK
<1>2. status' # status
  OBVIOUS
<1>3. ~Finish(r)
  BY <1>2 DEF Finish, goals
<1>4. \A l : ~GoOn(r, l)
  BY <1>2 DEF GoOn, goals
<1>5. ~(Arrive(r) \/ Read(r) \/ Funds(r) \/ ReadStatus(r) \/ ReadAmount(r) \/ Count(r) \/ Abort(r))
  BY <1>3, <1>4 DEF Arrive, Read, ReadContribute, ReadTransfer, ReadWithdraw, ReadPurchase,
                    Funds, ReadStatus, ReadAmount, Count, Abort, GoOnQuietly
<1>6. ~TakeKey(r)
  BY <1>2 DEF TakeKey, goals
<1>7. ~Commit(r)
  BY <1>1, <1>2, <1>3 DEF Commit, CommitContribute, CommitTransfer, CommitWithdraw,
                          CommitPurchase, goals
<1>8. ~Mark(r)
  BY <1>1, <1>3 DEF Mark, Completable
<1>9. ~Delete(r)
  BY <1>1, <1>3 DEF Delete, Deletable, WithdrawnUsed
<1>10. Write(r)
  BY <1>5, <1>6, <1>7, <1>8, <1>9 DEF Step
<1>11. pc[r] = "write" /\ pc'[r] = "done"
  BY <1>1, <1>3, <1>10 DEF Write, Close, Goto
<1>12. ~(WriteDeposit(r) \/ WriteSpend(r))
  BY <1>2 DEF WriteDeposit, WriteSpend, goals
<1>13. ~WriteCreate(r)
  BY <1>1 DEF WriteCreate, WriteGoal
<1>14. ~WriteTarget(r)
  BY <1>1 DEF WriteTarget, WriteGoal
<1>15. WriteStatus(r)
  BY <1>3, <1>10, <1>12, <1>13, <1>14 DEF Write
<1> QED BY <1>1, <1>11, <1>15 DEF WriteStatus, WriteGoal

(* "a withdrawal that committed after goal was read must never be turned   *)
(* back into COMPLETED": a late maybeMarkCompleted, a delete, an edit of   *)
(* the target and a commit all leave a WITHDRAWN goal as it is.            *)
THEOREM OnlyByHandReopened == Spec => ReopenedOnlyByHand
<1> DEFINE ByHandOnly ==
      \A g \in Goal :
        status[g] = "WITHDRAWN" /\ status'[g] # "WITHDRAWN" =>
          \E r \in Request : /\ body[r].op = "setStatus" /\ body[r].goal = g
                             /\ pc[r] = "write" /\ pc'[r] = "done"
<1>1. Base /\ WithdrawnUsed /\ [Next]_vars => [ByHandOnly]_vars
  <2> SUFFICES ASSUME Base, WithdrawnUsed, [Next]_vars, ~(UNCHANGED vars) PROVE ByHandOnly
    OBVIOUS
  <2>1. CASE \E r \in Request : Step(r)
    BY <2>1, ReopenStep
  <2> QED BY <2>1 DEF Next
<1>2. Spec => [][ByHandOnly]_vars
  BY <1>1, BaseInvariant, WithdrawnUsedInvariant, PTL DEF Spec
<1> QED BY <1>2 DEF ReopenedOnlyByHand

(***************************************************************************)
(* The goals account for the wallets.                                      *)
(***************************************************************************)

(* What each record of money adds up to.                                   *)
LEMMA Totals ==
    ASSUME TypeOK
    PROVE  /\ Ints(saved, Goal) /\ Ints(balance, Wallet) /\ Ints(other, Wallet)
           /\ Ints([g \in Goal |-> Stock[g].saved], Goal) /\ Ints(Opening, Wallet)
BY KeyAssumption, MoneyFacts DEF TypeOK, Ints

(* A contribution and a withdrawal move both sides, a transfer neither.    *)
LEMMA MoneyStep ==
    ASSUME Base, MoneyConserved, NEW r \in Request, Step(r)
    PROVE  MoneyConserved'
<1> DEFINE A == SumOver(saved, Goal)
           B == SumOver([g \in Goal |-> Stock[g].saved], Goal)
           C == SumOver(balance, Wallet)
           D == SumOver(Opening, Wallet)
           E == SumOver(other, Wallet)
<1>0. A \in Int /\ B \in Int /\ C \in Int /\ D \in Int /\ E \in Int
  BY Totals, SumInt DEF Base
<1>1. A - B = C - D - E
  BY DEF MoneyConserved
<1>2. /\ Ints(saved, Goal) /\ Ints(balance, Wallet) /\ Ints(other, Wallet)
      /\ DOMAIN saved = Goal /\ DOMAIN balance = Wallet /\ DOMAIN other = Wallet
  BY Totals DEF Base, TypeOK
<1>3. SUFFICES A' - B = C' - D - E'
  BY DEF MoneyConserved
<1> HIDE DEF A, B, C, D, E
<1>4. body[r] \in Body /\ PlaceAt(r) /\ amount[r] \in Int
  BY FieldsOf DEF Base, TypeOK
<1>5. CASE Quiet \/ RowWritten
  BY <1>1, <1>5 DEF Quiet, RowWritten, A, C, E
<1>6. CASE Earned
  <2> PICK w \in Wallet, n \in Nat :
        balance' = [balance EXCEPT ![w] = @ + n] /\ other' = [other EXCEPT ![w] = @ + n]
    BY <1>6 DEF Earned
  <2>0. Written(balance, balance', Wallet, w, n) /\ Written(other, other', Wallet, w, n)
    BY <1>2 DEF Written, Ints
  <2>1. C' = C + n /\ E' = E + n
    BY <1>2, <2>0, SumWritten DEF C, E
  <2>2. A' = A
    BY <1>6 DEF Earned, A
  <2> QED BY <1>0, <1>1, <2>1, <2>2
<1>7. CASE Spent
  <2> PICK w \in Wallet, n \in Nat :
        balance' = [balance EXCEPT ![w] = @ - n] /\ other' = [other EXCEPT ![w] = @ - n]
    BY <1>7 DEF Spent
  <2>0. Written(balance, balance', Wallet, w, -n) /\ Written(other, other', Wallet, w, -n)
    BY <1>2 DEF Written, Ints
  <2>1. C' = C + -n /\ E' = E + -n
    BY <1>2, <2>0, SumWritten DEF C, E
  <2>2. A' = A
    BY <1>7 DEF Spent, A
  <2> QED BY <1>0, <1>1, <2>1, <2>2
<1>8. CASE CommitContribute(r)
  <2>1. body[r].goal \in Goal /\ body[r].wallet \in Wallet
    BY <1>4, <1>8, BodyFields DEF CommitContribute
  <2>2. /\ Written(saved, saved', Goal, body[r].goal, amount[r])
        /\ Written(balance, balance', Wallet, body[r].wallet, amount[r])
    BY <1>2, <1>4, <1>8, <2>1 DEF CommitContribute, Written, Ints
  <2>3. A' = A + amount[r] /\ C' = C + amount[r]
    BY <1>2, <2>2, SumWritten DEF A, C
  <2>4. E' = E
    BY <1>8 DEF CommitContribute, E
  <2> QED BY <1>0, <1>1, <1>4, <2>3, <2>4
<1>9. CASE CommitTransfer(r) /\ pc[r] = "commit"
  <2> DEFINE less == [saved EXCEPT ![body[r].goal] = @ - amount[r]]
  <2>1. body[r].goal \in Goal /\ body[r].to \in Goal /\ body[r].goal # body[r].to
    BY <1>4, <1>9, BodyFields DEF CommitTransfer, PlaceAt
  <2>2. saved' = [less EXCEPT ![body[r].to] = @ + amount[r]]
    BY <1>9, <2>1 DEF CommitTransfer
  <2>3. /\ Written(saved, less, Goal, body[r].goal, -amount[r])
        /\ Written(less, saved', Goal, body[r].to, amount[r])
    BY <1>2, <1>4, <2>1, <2>2 DEF Written, Ints
  <2> HIDE DEF less
  <2>4. SumOver(less, Goal) = A + -amount[r] /\ Ints(less, Goal)
    BY <1>2, <2>3, SumWritten DEF A
  <2>5. SumOver(saved', Goal) = SumOver(less, Goal) + amount[r]
    BY <2>3, <2>4, SumWritten
  <2>6. A' = A + -amount[r] + amount[r] /\ C' = C /\ E' = E
    BY <1>9, <2>4, <2>5 DEF CommitTransfer, money, A, C, E
  <2> QED BY <1>0, <1>1, <1>4, <2>6
<1>10. CASE CommitWithdraw(r)
  <2>1. body[r].goal \in Goal /\ body[r].wallet \in Wallet
    BY <1>4, <1>10, BodyFields DEF CommitWithdraw
  <2>2. /\ Written(saved, saved', Goal, body[r].goal, -amount[r])
        /\ Written(balance, balance', Wallet, body[r].wallet, -amount[r])
    BY <1>2, <1>4, <1>10, <2>1 DEF CommitWithdraw, Written, Ints
  <2>3. A' = A + -amount[r] /\ C' = C + -amount[r]
    BY <1>2, <2>2, SumWritten DEF A, C
  <2>4. E' = E
    BY <1>10 DEF CommitWithdraw, E
  <2> QED BY <1>0, <1>1, <1>4, <2>3, <2>4
<1>11. CASE CommitPurchase(r)
  <2>1. body[r].wallet \in Wallet
    BY <1>4, <1>11, BodyFields DEF CommitPurchase
  <2>2. /\ Written(balance, balance', Wallet, body[r].wallet, -amount[r])
        /\ Written(other, other', Wallet, body[r].wallet, -amount[r])
    BY <1>2, <1>4, <1>11, <2>1 DEF CommitPurchase, Written, Ints
  <2>3. C' = C + -amount[r] /\ E' = E + -amount[r]
    BY <1>2, <2>2, SumWritten DEF C, E
  <2>4. A' = A
    BY <1>11 DEF CommitPurchase, goals, A
  <2> QED BY <1>0, <1>1, <1>4, <2>3, <2>4
<1> QED BY <1>5, <1>6, <1>7, <1>8, <1>9, <1>10, <1>11, Effect DEF Committed

(* What all goals have gained is what the wallets have, other postings     *)
(* apart, at every instant and whatever failed in between: the posting and *)
(* the goal's entry are written together or not at all.                    *)
THEOREM MoneyIsConserved == Spec => []MoneyConserved
<1>1. Init => MoneyConserved
  <2> SUFFICES ASSUME Init PROVE MoneyConserved
    OBVIOUS
  <2>1. /\ saved = [g \in Goal |-> Stock[g].saved] /\ balance = Opening
        /\ \A w \in Wallet : other[w] = 0
    BY DEF Init
  <2>2. SumOver(other, Wallet) = 0
    BY <2>1, KeyAssumption, SumOfNothing
  <2>3. SumOver(saved, Goal) \in Int /\ SumOver(Opening, Wallet) \in Int
    BY <2>1, InitBase, Totals, SumInt DEF Base
  <2> QED BY <2>1, <2>2, <2>3 DEF MoneyConserved
<1>2. Base /\ MoneyConserved /\ [Next]_vars => MoneyConserved'
  <2> SUFFICES ASSUME Base, MoneyConserved, [Next]_vars PROVE MoneyConserved'
    OBVIOUS
  <2>1. CASE UNCHANGED vars
    BY <2>1 DEF vars, MoneyConserved
  <2> QED BY <2>1, MoneyStep DEF Next
<1> QED BY <1>1, <1>2, BaseInvariant, PTL DEF Spec
=============================================================================
