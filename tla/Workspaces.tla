----------------------------- MODULE Workspaces -----------------------------
(***************************************************************************)
(* BusinessesService, the guards of a workspace's routes, its PIN lock     *)
(* (WorkspaceUnlockService) and AdminWorkspacesService.  b.user and        *)
(* b.session are who asks; prices are in paisa.                            *)
(***************************************************************************)
EXTENDS Requests, Sums, TLC

CONSTANTS
    MaxWorkspaces,  \* MAX_WORKSPACES_PER_USER
    PlanOf,         \* the plan of each user's default workspace, [price, cycle]
    WorkStart       \* the tables at the start

VARIABLE work   \* row: [owner, type, default, pin, deleted] by id
                \* books: how many transactions each workspace has
                \* unlock: [session, id, pin, at] of the unlock each request got
                \* pins: how often each workspace's PIN was set or removed
                \* entered: [with, at], for a request let into a locked workspace

WorkInit == work = WorkStart

WorkRows == DOMAIN WorkStart.row

(* A PIN's hash is salted: a PIN that is set is [pin, by], where by is the *)
(* request that set it.                                                    *)
StartHash ==
    {WorkStart.row[w].pin : w \in {v \in WorkRows : WorkStart.row[v] # Nothing}} \ {Nothing}

NewHash(r) ==
    {[pin |-> b.pin, by |-> r] :
        b \in {c \in UNION {s.bodies : s \in Scenario} : c.op \in {"edit", "workspace"}}}

PinHash == StartHash \cup UNION {NewHash(r) : r \in Request}

WorkRow ==
    [owner : DOMAIN PlanOf, type : {"PERSONAL", "BUSINESS", "GROUP"}, default : BOOLEAN,
     pin : PinHash \cup {Nothing}, deleted : BOOLEAN]

ASSUME WorkAssumption ==
    /\ MaxWorkspaces \in Nat
    /\ IsFiniteSet(DOMAIN PlanOf) /\ \A u \in DOMAIN PlanOf : PlanOf[u].price \in Nat
    /\ IsFiniteSet(WorkRows) /\ Request \subseteq WorkRows
    /\ Nothing \notin PinHash \cup WorkRow
    /\ DOMAIN WorkStart = {"row", "books", "unlock", "pins", "entered"}
    /\ WorkStart.row \in [WorkRows -> WorkRow \cup {Nothing}]
    /\ WorkStart.pins \in [WorkRows -> Nat]
    /\ WorkStart.unlock = [r \in Request |-> Nothing]
    /\ WorkStart.entered = [r \in Request |-> Nothing]
    /\ \A r \in Request : WorkStart.row[r] = Nothing
    /\ \A w \in WorkRows : WorkStart.row[w] # Nothing /\ WorkStart.row[w].pin # Nothing =>
          WorkStart.row[w].pin.by \notin Request
    /\ \A u \in DOMAIN PlanOf :
          Cardinality({w \in WorkRows :
              LET row == WorkStart.row[w]
              IN  row # Nothing /\ ~row.deleted /\ row.owner = u /\ ~row.default}) <= MaxWorkspaces

Exists(w) == work.row[w] # Nothing /\ ~work.row[w].deleted

OwnedBy(u) == {w \in DOMAIN work.row : Exists(w) /\ work.row[w].owner = u}

Extra(u) == {w \in OwnedBy(u) : ~work.row[w].default}

WorkStays == UNCHANGED work

(***************************************************************************)
(* BusinessMembershipGuard                                                 *)
(***************************************************************************)

(* Bug: an unlock names the PIN, not the time it was set.                  *)
UnsaltedVersion(hash) == hash.pin

PinVersion(hash) == hash

Opens(unlock, b, hash) ==
    /\ unlock # Nothing
    /\ unlock.session = b.session
    /\ unlock.id = b.id
    /\ PinVersion(unlock.pin) = PinVersion(hash)

AllowedLocked == {"verify-pin", "reset-pin"}

GuardedOps == {"open", "edit", "delete"} \cup AllowedLocked

ASSUME WorkBodies ==
    \A s \in Scenario : \A b \in s.bodies \cup {NoBody} :
        /\ b.op \in GuardedOps => b.id \in WorkRows
        /\ b.op = "workspace" =>
              b.user \in DOMAIN PlanOf /\ b.type \in {"PERSONAL", "BUSINESS", "GROUP"}

(* The request comes with any unlock it may have been given.               *)
PassGuard(r) ==
    LET b == body[r]
        row == work.row[b.id]
        locked == row.pin # Nothing /\ b.op \notin AllowedLocked
    IN  /\ b.op \in GuardedOps /\ pc[r] = "start"
        /\ IF ~Exists(b.id) \/ row.owner # b.user THEN Finish(r) /\ WorkStays
           ELSE IF ~locked THEN Await(r, "inside") /\ WorkStays
           ELSE \/ \E q \in Request :
                    /\ Opens(work.unlock[q], b, row.pin)
                    /\ work' = [work EXCEPT !.entered[r] = [with |-> work.unlock[q].at, at |-> work.pins[b.id]]]
                    /\ Await(r, "inside")
                \/ Finish(r) /\ WorkStays

(* Some handler posts a transaction.                                       *)
PostInto(r) ==
    /\ At(r, "open", "inside")
    /\ work' = [work EXCEPT !.books[body[r].id] = @ + 1]
    /\ Finish(r)

(* requireBusiness(), on the row as it is by now.                          *)
RequireBusiness(r) ==
    /\ body[r].op \in GuardedOps \ {"open", "verify-pin"} /\ pc[r] = "inside"
    /\ IF Exists(body[r].id) THEN Await(r, "business") ELSE Finish(r)
    /\ WorkStays

SetPin(w, hash) == [work EXCEPT !.row[w].pin = hash, !.pins[w] = @ + 1]

Unlocked(r, tables, w) ==
    [tables EXCEPT !.unlock[r] = [session |-> body[r].session, id |-> w,
                                  pin |-> tables.row[w].pin, at |-> tables.pins[w]]]

(* A new PIN replaces the old one, and this device gets its unlock; null   *)
(* removes it.                                                             *)
EditBusiness(r) ==
    LET b == body[r]
        hash == IF b.pin = Nothing THEN Nothing ELSE [pin |-> b.pin, by |-> r]
    IN  /\ At(r, "edit", "business")
        /\ work' = IF b.pin = Nothing THEN SetPin(b.id, hash)
                   ELSE Unlocked(r, SetPin(b.id, hash), b.id)
        /\ Finish(r)

VerifyPin(r) ==
    LET b == body[r]
        hash == work.row[b.id].pin
    IN  /\ At(r, "verify-pin", "inside")
        /\ work' = IF Exists(b.id) /\ hash # Nothing /\ hash.pin = b.pin
                   THEN Unlocked(r, work, b.id) ELSE work
        /\ Finish(r)

(* By whoever knows the account password.                                  *)
ResetPin(r) ==
    /\ At(r, "reset-pin", "business")
    /\ work' = IF body[r].knows THEN SetPin(body[r].id, Nothing) ELSE work
    /\ Finish(r)

CountBooks(r) ==
    LET w == body[r].id
    IN  /\ At(r, "delete", "business")
        /\ IF work.row[w].default \/ work.books[w] > 0 THEN Finish(r) ELSE Await(r, "remove")
        /\ WorkStays

RemoveBusiness(r) ==
    /\ At(r, "delete", "remove")
    /\ work' = [work EXCEPT !.row[body[r].id].deleted = TRUE]
    /\ Finish(r)

(***************************************************************************)
(* create(), in createWithinCap(): the count under a lock of the user's.   *)
(***************************************************************************)

(* Bug: the count does not wait for another create.                        *)
CapUnlocked(r) == At(r, "workspace", "start") /\ Await(r, "count") /\ WorkStays

CapLock(r) ==
    /\ At(r, "workspace", "start")
    /\ IF body[r].type \in {"BUSINESS", "GROUP"}
       THEN Take(r, <<"workspace", body[r].user>>, "count") ELSE Finish(r)
    /\ WorkStays

CountExtra(r) ==
    /\ At(r, "workspace", "count")
    /\ IF Cardinality(Extra(body[r].user)) >= MaxWorkspaces THEN Finish(r) ELSE Await(r, "insert")
    /\ WorkStays

(* The workspace, its owner's membership and its chart of accounts.        *)
InsertBusiness(r) ==
    LET b == body[r]
        hash == IF b.pin = Nothing THEN Nothing ELSE [pin |-> b.pin, by |-> r]
        tables == [work EXCEPT !.row[r] =
                     [owner |-> b.user, type |-> b.type, default |-> FALSE, pin |-> hash, deleted |-> FALSE]]
    IN  /\ At(r, "workspace", "insert")
        /\ work' = IF b.pin = Nothing THEN tables ELSE Unlocked(r, tables, r)
        /\ Finish(r)

WorkStep(r) ==
    \/ PassGuard(r) \/ PostInto(r) \/ RequireBusiness(r)
    \/ EditBusiness(r) \/ VerifyPin(r) \/ ResetPin(r) \/ CountBooks(r) \/ RemoveBusiness(r)
    \/ CapLock(r) \/ CountExtra(r) \/ InsertBusiness(r)

(***************************************************************************)
(* The fee of an extra workspace: half the owner's plan, per month.        *)
(***************************************************************************)
Rounded(n, d) == (2 * n + d) \div (2 * d)

Parts(u) == IF PlanOf[u].cycle = "YEARLY" THEN 24 ELSE 2

(* getAdditionalWorkspaceMonthlyFee(), rounded for each workspace.         *)
MonthlyFee(u) == Rounded(PlanOf[u].price, Parts(u))

(* list() shows it beside each extra business.                             *)
ListedFees(u) ==
    [w \in OwnedBy(u) |-> IF w \in Extra(u) /\ work.row[w].type = "BUSINESS" THEN MonthlyFee(u) ELSE 0]

(* summarizeUser(), rounded once.                                          *)
EstimatedAddOn(u) ==
    LET billable == {w \in Extra(u) : work.row[w].type = "BUSINESS"}
    IN  Rounded(Cardinality(billable) * PlanOf[u].price, Parts(u))

(* AdminWorkspacesService.overview()                                       *)
WorkspaceOverview ==
    LET owners == {u \in DOMAIN PlanOf : Extra(u) # {}}
    IN  [owners |-> owners,
         additional |-> SumOver([u \in owners |-> Cardinality(Extra(u))], owners),
         revenue |-> SumOver([u \in owners |-> EstimatedAddOn(u)], owners)]

(***************************************************************************)
(* Properties                                                              *)
(***************************************************************************)

(* "parallel requests can't overshoot it": nobody has more extra           *)
(* workspaces than the cap.                                                *)
WorkspaceCap == \A u \in DOMAIN PlanOf : Cardinality(Extra(u)) <= MaxWorkspaces

(* "a new PIN ends every unlock made with the old one", also when the same *)
(* PIN is set again, or while it is being verified: a request let into a   *)
(* locked workspace came with an unlock made since the PIN was last set.   *)
OldPinsEnd ==
    \A r \in Request : work.entered[r] # Nothing => work.entered[r].with = work.entered[r].at

(* What the owners are shown beside their workspaces and what the admin's  *)
(* page expects of them differ by no more than the rounding of each fee.   *)
FeesAgree ==
    LET shown(u) == SumOver(ListedFees(u), OwnedBy(u))
        total == SumOver([u \in DOMAIN PlanOf |-> shown(u)], DOMAIN PlanOf)
        apart == total - WorkspaceOverview.revenue
    IN  (IF apart < 0 THEN -2 * apart ELSE 2 * apart)
          <= WorkspaceOverview.additional + Cardinality(WorkspaceOverview.owners)

(* Of a user's extra workspaces: there are no more than the cap, and the   *)
(* two pages charge the same for them.                                     *)
ExtrasInOrder == WorkspaceCap /\ FeesAgree
=============================================================================
