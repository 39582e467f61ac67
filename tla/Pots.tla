-------------------------------- MODULE Pots --------------------------------
(***************************************************************************)
(* What the savings goals promise: pots of money over the wallets that     *)
(* hold it, in which putting money in, moving it, cashing a pot out and    *)
(* spending from a wallet each happen at one instant and never take more   *)
(* than is there.  A pot that was cashed out is closed until its owner     *)
(* reopens it.                                                             *)
(***************************************************************************)
EXTENDS Integers

CONSTANTS Pot, Wallet, Amount, Target

VARIABLES status, target, saved, balance

vars == <<status, target, saved, balance>>

Open(p) == status[p] \in {"ACTIVE", "PAUSED", "COMPLETED"}

Exists(p) == Open(p) \/ status[p] = "WITHDRAWN"

Init ==
    /\ status \in [Pot -> {"UNUSED", "ACTIVE"}]
    /\ target \in [Pot -> Target]
    /\ saved \in [Pot -> Nat]
    /\ \A p \in Pot : status[p] = "UNUSED" => saved[p] = 0
    /\ balance \in [Wallet -> Nat]

Create(p, n) ==
    /\ status[p] = "UNUSED"
    /\ status' = [status EXCEPT ![p] = "ACTIVE"]
    /\ target' = [target EXCEPT ![p] = n]
    /\ UNCHANGED <<saved, balance>>

Delete(p) ==
    /\ Exists(p)
    /\ saved[p] = 0
    /\ status' = [status EXCEPT ![p] = "DELETED"]
    /\ UNCHANGED <<target, saved, balance>>

Retarget(p, n) ==
    /\ Exists(p)
    /\ target' = [target EXCEPT ![p] = n]
    /\ UNCHANGED <<status, saved, balance>>

(* Pause, resume, complete: by hand, or because the target was seen to be  *)
(* reached.                                                                *)
SetStatus(p, s) ==
    /\ Exists(p)
    /\ s \in {"ACTIVE", "PAUSED", "COMPLETED"}
    /\ status' = [status EXCEPT ![p] = s]
    /\ UNCHANGED <<target, saved, balance>>

PutIn(p, w, n) ==
    /\ Open(p)
    /\ saved' = [saved EXCEPT ![p] = @ + n]
    /\ balance' = [balance EXCEPT ![w] = @ + n]
    /\ UNCHANGED <<status, target>>

Move(p, q, n) ==
    /\ p # q
    /\ Exists(p) /\ Open(q)
    /\ n <= saved[p]
    /\ saved' = [saved EXCEPT ![p] = @ - n, ![q] = @ + n]
    /\ UNCHANGED <<status, target, balance>>

CashOut(p, w) ==
    /\ Open(p)
    /\ saved[p] > 0
    /\ saved[p] <= balance[w]
    /\ status' = [status EXCEPT ![p] = "WITHDRAWN"]
    /\ saved' = [saved EXCEPT ![p] = 0]
    /\ balance' = [balance EXCEPT ![w] = @ - saved[p]]
    /\ UNCHANGED target

Spend(w, n) ==
    /\ n <= balance[w]
    /\ balance' = [balance EXCEPT ![w] = @ - n]
    /\ UNCHANGED <<status, target, saved>>

Earn(w, n) ==
    /\ balance' = [balance EXCEPT ![w] = @ + n]
    /\ UNCHANGED <<status, target, saved>>

Next ==
    \/ \E p \in Pot :
        \/ \E n \in Target : Create(p, n) \/ Retarget(p, n)
        \/ Delete(p)
        \/ \E s \in {"ACTIVE", "PAUSED", "COMPLETED"} : SetStatus(p, s)
        \/ \E w \in Wallet, n \in Amount : PutIn(p, w, n)
        \/ \E q \in Pot, n \in Amount : Move(p, q, n)
        \/ \E w \in Wallet : CashOut(p, w)
    \/ \E w \in Wallet, n \in Amount : Spend(w, n) \/ Earn(w, n)

Spec == Init /\ [][Next]_vars
=============================================================================
