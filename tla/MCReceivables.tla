--------------------------- MODULE MCReceivables ----------------------------
(* Small instances of Receivables.  c1 owes an opening balance and a late  *)
(* invoice; c2 is settled; c3 is yet to be created.                        *)
EXTENDS Receivables, TLC

CONSTANTS r1, r2, r3, c1, c2, c3, i1, i2, i3

Contacts == {c1, c2, c3}
Openings == c1 :> 1 @@ c2 :> 0 @@ c3 :> 0

OldInvoice(c, n, on, by, s) ==
    [type |-> "SALE", contact |-> c, account |-> "AR", entry |-> "DEBIT", amount |-> n,
     date |-> on, due |-> by, applied |-> NoRow, reversalOf |-> NoRow,
     status |-> "POSTED", seq |-> s, raw |-> FALSE]

OldPayment(c, n, on, s) ==
    [OldInvoice(c, n, on, NoDue, s) EXCEPT !.type = "PAYMENT", !.entry = "CREDIT"]

OldRows == i1 :> OldInvoice(c1, 2, 50, 60, 1) @@ i2 :> OldInvoice(c2, 1, 80, NoDue, 2)
        @@ i3 :> OldPayment(c2, 1, 85, 3)

Sale(c, on, by) == [op |-> "sale", contact |-> c, amount |-> 1, date |-> on, due |-> by]
Purchase(c) == [op |-> "purchase", contact |-> c, amount |-> 1, date |-> 100, due |-> 90]
Receive(c, n) == [op |-> "receive", contact |-> c, amount |-> n]
Pay(c) == [op |-> "pay", contact |-> c, amount |-> 1]
Raw(c, t) == [op |-> "raw", contact |-> c, type |-> t, account |-> "AR",
              entry |-> "CREDIT", amount |-> 1]
Delete(c) == [op |-> "delete", contact |-> c]

Void == [op |-> "void"]

Bodies ==
    {Receive(c1, 2), Sale(c1, 40, 100), Raw(c1, "PAYMENT"), Void,
     Delete(c2), Delete(c3), Sale(c3, 100, NoDue), Purchase(c2), Pay(c2),
     [op |-> "archive", contact |-> c2],
     [op |-> "retype", contact |-> c2, type |-> "CUSTOMER"],
     [op |-> "create", contact |-> c3]}

Symmetry == Permutations(Request)
=============================================================================
