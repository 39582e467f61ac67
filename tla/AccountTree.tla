----------------------------- MODULE AccountTree ----------------------------
(***************************************************************************)
(* AccountsService: the chart of accounts, a forest of Account rows, under *)
(* concurrent requests.  The service takes no lock and opens no            *)
(* transaction, so a check may be out of date when the update it guards    *)
(* runs.  The two foreign keys decide what the database itself refuses: an *)
(* entry protects its account (ON DELETE RESTRICT); a child does not, it   *)
(* loses its parent (SET NULL).                                            *)
(*                                                                         *)
(* An account's workspace and type never change, a reserved subtype        *)
(* neither; names, numbers and opening balances play no part here.         *)
(***************************************************************************)
EXTENDS Requests

CONSTANTS
    Account,    \* ids of Account rows
    Kind,       \* the workspace and type of each account
    Reserved,   \* system accounts of a reserved subtype
    Pool,       \* the hidden system account of subtype savings
    Status0,    \* the rows there are at the start, and their parents
    Parent0,
    NoParent

ASSUME TreeAssumption ==
    /\ Account = DOMAIN Kind
    /\ Status0 \in [Account -> {"UNUSED", "ACTIVE", "ARCHIVED"}]
    /\ Parent0 \in [Account -> Account \cup {NoParent}]
    /\ \A a \in Reserved \cup Pool : a \in Account /\ Status0[a] = "ACTIVE"
    /\ Reserved \cap Pool = {}
    /\ NoParent \notin Account
    /\ \A a \in Account : Parent0[a] # NoParent =>
          /\ Status0[a] \in {"ACTIVE", "ARCHIVED"}
          /\ Status0[Parent0[a]] \in {"ACTIVE", "ARCHIVED"}
          /\ Kind[Parent0[a]] = Kind[a]

VARIABLE chart  \* status of each row: UNUSED, ACTIVE, ARCHIVED, DELETED
                \* parent: parentId; posted: the accounts with an entry
                \* pool: the accounts still known as the savings pool

TreeInit ==
    chart = [status |-> Status0, parent |-> Parent0, posted |-> {}, pool |-> Pool]

HasAccount(a) == chart.status[a] \in {"ACTIVE", "ARCHIVED"}

ChartStays == UNCHANGED chart

TreeOps == {"create", "reparent", "archive", "unarchive", "remove", "retype", "post"}

ASSUME TreeBodies ==
    \A s \in Scenario : \A b \in s.bodies \cup {NoBody} : b.op \in TreeOps =>
        /\ b.account \in Account
        /\ b.op \in {"create", "reparent"} => b.parent \in Account \cup {NoParent}

(***************************************************************************)
(* requireAccount, with the refusals that depend on that row alone.        *)
(***************************************************************************)
FirstStep(b) ==
    CASE b.op \in {"create", "reparent"} -> IF b.parent = NoParent THEN "write-account" ELSE "parent"
      [] b.op = "archive" -> "children"
      [] b.op = "unarchive" -> "above"
      [] b.op = "remove" -> "kin"
      [] b.op \in {"retype", "post"} -> "write-account"

Denied(b) ==
    \/ b.op # "create" /\ ~HasAccount(b.account)
    \/ b.op = "create" /\ chart.status[b.account] # "UNUSED"
    \/ b.op \in {"archive", "remove"} /\ b.account \in Reserved \cup chart.pool
    \/ b.op = "retype" /\ b.account \in Reserved
    \/ b.op = "reparent" /\ b.parent = b.account

(* unarchive has nothing more to do on an active account.                  *)
NothingToDo(b) == b.op = "unarchive" /\ chart.status[b.account] = "ACTIVE"

RequireAccount(r) ==
    LET b == body[r]
    IN  /\ b.op \in TreeOps /\ pc[r] = "start"
        /\ IF Denied(b) \/ NothingToDo(b) THEN Finish(r)
           ELSE Keep(r, FirstStep(b),
                     [status |-> chart.status[b.account], walked |-> {},
                      above |-> IF b.op = "unarchive" THEN chart.parent[b.account] ELSE NoParent])
        /\ ChartStays

(***************************************************************************)
(* requireCompatibleParent, then (for a move) refuseParentCycle, which     *)
(* reads one ancestor after the other.                                     *)
(***************************************************************************)
Compatible(a, p) == HasAccount(p) /\ Kind[p] = Kind[a]

ReadParent(r) ==
    LET b == body[r]
    IN  /\ pc[r] = "parent"
        /\ IF Compatible(b.account, b.parent)
           THEN Keep(r, IF b.op = "reparent" THEN "walk" ELSE "write-account",
                     [mem[r] EXCEPT !.above = b.parent])
           ELSE Finish(r)
        /\ ChartStays

WalkUp(r) ==
    LET a == mem[r].above
    IN  /\ pc[r] = "walk"
        /\ \/ a \in mem[r].walked \cup {NoParent} /\ Await(r, "write-account")
           \/ a = body[r].account /\ Finish(r)
           \/ /\ a \in Account \ (mem[r].walked \cup {body[r].account})
              /\ Keep(r, "walk", [mem[r] EXCEPT
                        !.walked = @ \cup {a},
                        !.above = IF HasAccount(a) THEN chart.parent[a] ELSE NoParent])
        /\ ChartStays

(***************************************************************************)
(* The insert and the update.  The parent must still be there (a foreign   *)
(* key), and so must the row.                                              *)
(***************************************************************************)
Linkable(p) == p \in {NoParent} \cup {a \in Account : HasAccount(a)}

Writable(b) ==
    CASE b.op = "create" -> chart.status[b.account] = "UNUSED" /\ Linkable(b.parent)
      [] b.op = "reparent" -> HasAccount(b.account) /\ Linkable(b.parent)
      [] OTHER -> HasAccount(b.account)

WriteCreate(b) ==
    /\ b.op = "create"
    /\ chart' = [chart EXCEPT !.status[b.account] = "ACTIVE", !.parent[b.account] = b.parent]

WriteMove(b) ==
    /\ b.op = "reparent"
    /\ chart' = [chart EXCEPT !.parent[b.account] = b.parent]

(* update() with another accountSubtype, which only a reserved subtype     *)
(* prevents: the pool stops being one.                                     *)
WriteSubtype(b) ==
    /\ b.op = "retype"
    /\ chart' = [chart EXCEPT !.pool = @ \ {b.account}]

(* The ledger posts to the account.                                        *)
WritePost(b) ==
    /\ b.op = "post"
    /\ chart' = [chart EXCEPT !.posted = @ \cup {b.account}]

WriteAccount(r) ==
    LET b == body[r]
    IN  /\ pc[r] = "write-account"
        /\ IF Writable(b) THEN WriteCreate(b) \/ WriteMove(b) \/ WriteSubtype(b) \/ WritePost(b)
           ELSE ChartStays
        /\ Finish(r)

(***************************************************************************)
(* archive(), unarchive() and removeOrArchive()                            *)
(***************************************************************************)
Children(a) == {c \in Account : HasAccount(c) /\ chart.parent[c] = a}

CountActiveChildren(r) ==
    LET active == {c \in Children(body[r].account) : chart.status[c] = "ACTIVE"}
    IN  /\ pc[r] = "children"
        /\ IF active # {} \/ mem[r].status = "ARCHIVED" THEN Finish(r) ELSE Await(r, "archive-account")
        /\ ChartStays

WithStatus(a, s) == IF HasAccount(a) THEN [chart EXCEPT !.status[a] = s] ELSE chart

ArchiveAccount(r) ==
    /\ pc[r] = "archive-account"
    /\ chart' = WithStatus(body[r].account, "ARCHIVED")
    /\ Finish(r)

(* The status of the parent that was read with the row.                    *)
LookAbove(r) ==
    LET p == mem[r].above
    IN  /\ pc[r] = "above"
        /\ IF p # NoParent /\ chart.status[p] = "ARCHIVED" THEN Finish(r) ELSE Await(r, "unarchive")
        /\ ChartStays

Unarchive(r) ==
    /\ pc[r] = "unarchive"
    /\ chart' = WithStatus(body[r].account, "ACTIVE")
    /\ Finish(r)

CountChildren(r) ==
    /\ pc[r] = "kin"
    /\ IF Children(body[r].account) # {} THEN Finish(r) ELSE Await(r, "entries")
    /\ ChartStays

CountEntries(r) ==
    LET a == body[r].account
    IN  /\ pc[r] = "entries"
        /\ \/ a \notin chart.posted /\ Await(r, "delete-account")
           \/ a \in chart.posted /\ mem[r].status # "ARCHIVED" /\ Await(r, "archive-account")
           \/ a \in chart.posted /\ mem[r].status = "ARCHIVED" /\ Finish(r)
        /\ ChartStays

Deletable(a) == a \notin chart.posted

(* Bug: the children keep pointing at the deleted row.                     *)
KeepParent(a) == [chart.parent EXCEPT ![a] = NoParent]

Orphaned(a) ==
    [c \in Account |-> IF a \in {c, chart.parent[c]} THEN NoParent ELSE chart.parent[c]]

DeleteAccount(r) ==
    LET a == body[r].account
    IN  /\ pc[r] = "delete-account"
        /\ chart' = IF HasAccount(a) /\ Deletable(a)
                    THEN [chart EXCEPT !.status[a] = "DELETED", !.parent = Orphaned(a)]
                    ELSE chart
        /\ Finish(r)

TreeStep(r) ==
    \/ RequireAccount(r) \/ ReadParent(r) \/ WalkUp(r) \/ WriteAccount(r)
    \/ CountActiveChildren(r) \/ ArchiveAccount(r)
    \/ LookAbove(r) \/ Unarchive(r)
    \/ CountChildren(r) \/ CountEntries(r) \/ DeleteAccount(r)

(***************************************************************************)
(* Properties                                                              *)
(***************************************************************************)

(* "the ledger a real transaction refers to never loses its account row":  *)
(* a posting that lands between removeOrArchive's count and its delete     *)
(* keeps the account.                                                      *)
PostedKeepsRow == \A a \in chart.posted : HasAccount(a)

(* The parent of an account exists and has its workspace and type, though  *)
(* it was looked at before the link was written and may be removed since.  *)
ParentsFit ==
    \A a \in Account : chart.parent[a] # NoParent => HasAccount(a) /\ Compatible(a, chart.parent[a])

(* The receivable, payable, fixed-assets and referral-bonus accounts stay  *)
(* active, whatever requests on them and on their parents run together.    *)
ReservedStayActive == \A a \in Reserved : chart.status[a] = "ACTIVE"

(* The chart serves the ledger under every interleaving of its requests.   *)
ChartSound == PostedKeepsRow /\ ParentsFit /\ ReservedStayActive

Ancestors(a) ==
    LET up[n \in 0 .. Cardinality(Account)] ==
          IF n = 0 THEN {a} ELSE up[n - 1] \cup {chart.parent[x] : x \in up[n - 1] \cap Account}
    IN  {chart.parent[x] : x \in up[Cardinality(Account)] \cap Account}

(* "the move would make a loop ... that drops both from the tree and can   *)
(* never be archived or removed": no account is its own ancestor.          *)
NoLoop == \A a \in Account : a \notin Ancestors(a)
=============================================================================
