-------------------------- MODULE WorkspacesProofs --------------------------
(***************************************************************************)
(* The workspaces by themselves: any number of requests of any users, over *)
(* any workspaces.  A request that is not for them stays where it is.      *)
(***************************************************************************)
EXTENDS Workspaces, SumsProofs

vars == <<requests, work>>

Init == RequestsInit /\ WorkInit

Next == \E r \in Request : WorkStep(r) \/ (Abort(r) /\ WorkStays)

Spec == Init /\ [][Next]_vars

(* What a request is known to ask for.                                     *)
Asked ==
    \A r \in Request :
        /\ body[r].op \in GuardedOps => body[r].id \in WorkRows
        /\ body[r].op \in {"edit", "workspace"} => [pin |-> body[r].pin, by |-> r] \in PinHash
        /\ body[r].op = "workspace" =>
              body[r].user \in DOMAIN PlanOf /\ body[r].type \in {"PERSONAL", "BUSINESS", "GROUP"}

Tables ==
    /\ DOMAIN work = {"row", "books", "unlock", "pins", "entered"}
    /\ work.row \in [WorkRows -> WorkRow \cup {Nothing}]

(* Who passed the guard works on a row that never goes away.               *)
Guarded(r) ==
    body[r].op \in GuardedOps /\ pc[r] \in {"inside", "business", "remove"} =>
        work.row[body[r].id] # Nothing

Typed ==
    /\ DOMAIN pc = Request /\ DOMAIN lock = Request
    /\ Asked /\ Tables /\ \A r \in Request : Guarded(r)

(* A new workspace is counted and inserted under its user's lock, which    *)
(* nobody else holds.                                                      *)
Held(r) ==
    body[r].op = "workspace" /\ pc[r] \in {"count", "insert"} =>
        <<"workspace", body[r].user>> \in lock[r]

Counted(r) ==
    body[r].op = "workspace" /\ pc[r] = "insert" => Cardinality(Extra(body[r].user)) < MaxWorkspaces

Apart == \A r, q \in Request : r # q => lock[r] \cap lock[q] = {}

Capped ==
    /\ Apart
    /\ \A r \in Request : Held(r) /\ Counted(r)
    /\ WorkspaceCap

LEMMA InitInv == Init => Typed /\ Capped
<1> SUFFICES ASSUME Init PROVE Typed /\ Capped
  OBVIOUS
<1> USE DEF Init, RequestsInit, WorkInit
<1>1. \A r \in Request : \E s \in Scenario : body[r] \in s.bodies \cup {NoBody}
  <2>1. PICK s \in Scenario : body \in Mixes(s)
    OBVIOUS
  <2> QED BY <2>1 DEF Mixes
<1>2. Asked
  <2>1. \A r \in Request : body[r].op \in {"edit", "workspace"} =>
            body[r] \in UNION {s.bodies : s \in Scenario}
    BY <1>1 DEF NoBody
  <2>2. \A r \in Request : body[r].op \in {"edit", "workspace"} => [pin |-> body[r].pin, by |-> r] \in PinHash
    <3> TAKE r \in Request
    <3> HAVE body[r].op \in {"edit", "workspace"}
    <3>1. [pin |-> body[r].pin, by |-> r] \in NewHash(r)
      BY <2>1 DEF NewHash
    <3>2. NewHash(r) \in {NewHash(q) : q \in Request}
      OBVIOUS
    <3> QED BY <3>1, <3>2 DEF PinHash
  <2> QED BY <1>1, <2>2, WorkBodies DEF Asked
<1>3. Tables
  BY WorkAssumption DEF Tables
<1>4. \A r \in Request : pc[r] \in {"start", "done"} /\ lock[r] = {}
  OBVIOUS
<1>5. WorkspaceCap
  <2>1. \A u : Extra(u) = {w \in WorkRows : LET row == WorkStart.row[w]
            IN  row # Nothing /\ ~row.deleted /\ row.owner = u /\ ~row.default}
    BY DEF Extra, OwnedBy, Exists, WorkRows
  <2> QED BY <2>1, WorkAssumption DEF WorkspaceCap
<1> QED BY <1>2, <1>3, <1>4, <1>5 DEF Typed, Guarded, Capped, Held, Counted, Apart

(* Most steps leave the rows as they are.                                  *)
LEMMA Looks ==
    ASSUME Typed, NEW r \in Request,
           \/ PassGuard(r) \/ PostInto(r) \/ RequireBusiness(r) \/ VerifyPin(r) \/ CountBooks(r)
           \/ CapLock(r) \/ CountExtra(r) \/ (Abort(r) /\ WorkStays)
    PROVE  DOMAIN work' = DOMAIN work /\ work'.row = work.row
<1> USE DEF Typed, Tables
<1>1. CASE PassGuard(r)
  BY <1>1 DEF PassGuard, WorkStays
<1>2. CASE PostInto(r)
  BY <1>2 DEF PostInto
<1>3. CASE RequireBusiness(r)
  BY <1>3 DEF RequireBusiness, WorkStays
<1>4. CASE VerifyPin(r)
  BY <1>4 DEF VerifyPin, Unlocked
<1>5. CASE CountBooks(r) \/ CapLock(r) \/ CountExtra(r) \/ (Abort(r) /\ WorkStays)
  BY <1>5 DEF CountBooks, CapLock, CountExtra, WorkStays
<1> QED BY <1>1, <1>2, <1>3, <1>4, <1>5

(* y is the row x with another PIN, or marked as deleted.                  *)
SameOwner(x, y) ==
    /\ y.owner = x.owner /\ y.default = x.default
    /\ x.deleted => y.deleted

LEMMA NewRow ==
    ASSUME NEW x \in WorkRow, NEW h \in PinHash \cup {Nothing}
    PROVE  /\ [x EXCEPT !.pin = h] \in WorkRow /\ SameOwner(x, [x EXCEPT !.pin = h])
           /\ [x EXCEPT !.deleted = TRUE] \in WorkRow /\ SameOwner(x, [x EXCEPT !.deleted = TRUE])
BY DEF WorkRow, SameOwner

(* The others set a PIN, or mark a row as deleted.                         *)
LEMMA Changes ==
    ASSUME Typed, NEW r \in Request, EditBusiness(r) \/ ResetPin(r) \/ RemoveBusiness(r)
    PROVE  /\ DOMAIN work' = DOMAIN work
           /\ work'.row \in [WorkRows -> WorkRow \cup {Nothing}]
           /\ \A u : Extra(u)' \subseteq Extra(u)
           /\ \A w \in WorkRows : work.row[w] # Nothing => work'.row[w] # Nothing
<1> DEFINE b == body[r]
<1> DEFINE row == work.row[b.id]
<1>1. b.id \in WorkRows /\ row \in WorkRow /\ b.op \in {"edit", "reset-pin", "delete"}
  BY DEF Typed, Asked, Guarded, GuardedOps, AllowedLocked, Tables, EditBusiness, ResetPin, RemoveBusiness, At
<1>2. \/ work'.row = work.row
      \/ \E h \in PinHash \cup {Nothing} : work'.row = [work.row EXCEPT ![b.id] = [row EXCEPT !.pin = h]]
      \/ work'.row = [work.row EXCEPT ![b.id] = [row EXCEPT !.deleted = TRUE]]
  <2>1. CASE EditBusiness(r)
    BY <2>1 DEF EditBusiness, Unlocked, SetPin, Typed, Asked, Tables, At
  <2>2. CASE ResetPin(r)
    BY <2>2 DEF ResetPin, SetPin, Typed, Tables
  <2>3. CASE RemoveBusiness(r)
    BY <2>3 DEF RemoveBusiness, Typed, Tables
  <2> QED BY <2>1, <2>2, <2>3
<1>3. DOMAIN work' = DOMAIN work
  <2>1. CASE EditBusiness(r)
    BY <2>1 DEF EditBusiness, Unlocked, SetPin
  <2>2. CASE ResetPin(r) \/ RemoveBusiness(r)
    BY <2>2 DEF ResetPin, SetPin, RemoveBusiness
  <2> QED BY <2>1, <2>2
<1>4. work'.row = work.row \/
      \E y \in WorkRow : SameOwner(row, y) /\ work'.row = [work.row EXCEPT ![b.id] = y]
  BY <1>1, <1>2, NewRow
<1> DEFINE Kept(w) ==
      \/ work'.row[w] = work.row[w]
      \/ /\ work.row[w] # Nothing /\ work'.row[w] # Nothing
         /\ SameOwner(work.row[w], work'.row[w])
<1>5. work'.row \in [WorkRows -> WorkRow \cup {Nothing}] /\ \A w \in WorkRows : Kept(w)
  <2>1. CASE work'.row = work.row
    BY <2>1 DEF Typed, Tables
  <2>2. ASSUME NEW y \in WorkRow, SameOwner(row, y), work'.row = [work.row EXCEPT ![b.id] = y]
        PROVE  work'.row \in [WorkRows -> WorkRow \cup {Nothing}] /\ \A w \in WorkRows : Kept(w)
    <3>1. row # Nothing /\ y # Nothing
      BY <1>1, WorkAssumption
    <3>2. work'.row[b.id] = y /\ \A w \in WorkRows \ {b.id} : work'.row[w] = work.row[w]
      BY <1>1, <2>2 DEF Typed, Tables
    <3>3. work'.row \in [WorkRows -> WorkRow \cup {Nothing}]
      BY <1>1, <2>2 DEF Typed, Tables
    <3> QED BY <2>2, <3>1, <3>2, <3>3
  <2> QED BY <1>4, <2>1, <2>2
<1>6. \A w \in WorkRows : work.row[w] # Nothing => work'.row[w] # Nothing
  BY <1>5
<1>7. \A u : Extra(u)' \subseteq Extra(u)
  BY <1>5 DEF SameOwner, Extra, OwnedBy, Exists, Typed, Tables
<1> QED BY <1>3, <1>5, <1>6, <1>7

LEMMA Inserts ==
    ASSUME Typed, NEW r \in Request, InsertBusiness(r)
    PROVE  /\ DOMAIN work' = DOMAIN work
           /\ work'.row \in [WorkRows -> WorkRow \cup {Nothing}]
           /\ \A u : Extra(u)' \subseteq Extra(u) \cup (IF u = body[r].user THEN {r} ELSE {})
           /\ \A w \in WorkRows : work.row[w] # Nothing => work'.row[w] # Nothing
<1> DEFINE b == body[r]
<1>1. r \in WorkRows /\ b.op = "workspace"
  BY WorkAssumption DEF InsertBusiness, At
<1>2. PICK h \in PinHash \cup {Nothing} :
          work'.row = [work.row EXCEPT ![r] =
              [owner |-> b.user, type |-> b.type, default |-> FALSE, pin |-> h, deleted |-> FALSE]]
  BY <1>1 DEF InsertBusiness, Unlocked, Typed, Asked, Tables
<1>3. DOMAIN work' = DOMAIN work
  <2>1. CASE b.pin = Nothing
    BY <2>1 DEF InsertBusiness
  <2>2. CASE b.pin # Nothing
    BY <2>2 DEF InsertBusiness, Unlocked
  <2> QED BY <2>1, <2>2
<1>4. work'.row[r] \in WorkRow /\ work'.row[r].owner = b.user
  <2>1. b.user \in DOMAIN PlanOf /\ b.type \in {"PERSONAL", "BUSINESS", "GROUP"}
    BY <1>1 DEF Typed, Asked
  <2>2. [owner |-> b.user, type |-> b.type, default |-> FALSE, pin |-> h, deleted |-> FALSE] \in WorkRow
    BY <2>1 DEF WorkRow
  <2> QED BY <1>1, <1>2, <2>2 DEF Typed, Tables
<1>5. \A w \in WorkRows \ {r} : work'.row[w] = work.row[w]
  BY <1>2 DEF Typed, Tables
<1>6. work'.row \in [WorkRows -> WorkRow \cup {Nothing}]
  BY <1>2, <1>4, <1>5 DEF Typed, Tables
<1>7. \A w \in WorkRows : work.row[w] # Nothing => work'.row[w] # Nothing
  BY <1>4, <1>5, WorkAssumption
<1>8. \A u : Extra(u)' \subseteq Extra(u) \cup (IF u = body[r].user THEN {r} ELSE {})
  BY <1>4, <1>5, <1>6 DEF Extra, OwnedBy, Exists, Typed, Tables
<1> QED BY <1>3, <1>6, <1>7, <1>8

Step(r) == WorkStep(r) \/ (Abort(r) /\ WorkStays)

(* A step moves its own request, and takes a lock only if it is free.      *)
LEMMA Moves ==
    ASSUME Typed, NEW r \in Request, Step(r)
    PROVE  /\ body' = body
           /\ DOMAIN pc' = Request /\ \A q \in Request \ {r} : pc'[q] = pc[q]
           /\ DOMAIN lock' = Request /\ \A q \in Request \ {r} : lock'[q] = lock[q]
           /\ Apart => Apart'
<1> USE DEF Typed, Finish, Await, Goto
<1>1. /\ body' = body
      /\ \E l : pc' = [pc EXCEPT ![r] = l]
      /\ \/ lock' = lock \/ lock' = [lock EXCEPT ![r] = {}]
         \/ \E k : Free(k) /\ lock' = [lock EXCEPT ![r] = @ \cup {k}]
  <2>1. CASE PassGuard(r)
    BY <2>1 DEF PassGuard
  <2>2. CASE PostInto(r) \/ RequireBusiness(r) \/ CountBooks(r)
    BY <2>2 DEF PostInto, RequireBusiness, CountBooks
  <2>3. CASE EditBusiness(r) \/ VerifyPin(r) \/ ResetPin(r) \/ RemoveBusiness(r) \/ InsertBusiness(r)
    BY <2>3 DEF EditBusiness, VerifyPin, ResetPin, RemoveBusiness, InsertBusiness
  <2>4. CASE CapLock(r)
    BY <2>4 DEF CapLock, Take
  <2>5. CASE CountExtra(r) \/ Abort(r)
    BY <2>5 DEF CountExtra, Abort
  <2> QED BY <2>1, <2>2, <2>3, <2>4, <2>5 DEF Step, WorkStep
<1>2. DOMAIN pc' = Request /\ \A q \in Request \ {r} : pc'[q] = pc[q]
  BY <1>1
<1>3. DOMAIN lock' = Request /\ \A q \in Request \ {r} : lock'[q] = lock[q]
  BY <1>1
<1>4. ASSUME Apart PROVE Apart'
  <2>1. CASE lock' = lock
    BY <2>1, <1>4 DEF Apart
  <2>2. CASE lock' = [lock EXCEPT ![r] = {}]
    BY <2>2, <1>4, <1>3 DEF Apart
  <2>3. ASSUME NEW k, Free(k), lock' = [lock EXCEPT ![r] = @ \cup {k}] PROVE Apart'
    <3>1. lock'[r] = lock[r] \cup {k} /\ \A q \in Request : k \notin lock[q]
      BY <2>3 DEF Free
    <3> QED BY <3>1, <1>3, <1>4 DEF Apart
  <2> QED BY <1>1, <2>1, <2>2, <2>3
<1> QED BY <1>1, <1>2, <1>3, <1>4

LEMMA TypedStep ==
    ASSUME Typed, NEW r \in Request, Step(r)
    PROVE  Typed'
<1> USE DEF Typed
<1>1. /\ DOMAIN work' = DOMAIN work
      /\ work'.row \in [WorkRows -> WorkRow \cup {Nothing}]
      /\ \A w \in WorkRows : work.row[w] # Nothing => work'.row[w] # Nothing
  BY Looks, Changes, Inserts DEF Step, WorkStep, Tables
<1>2. Asked' /\ Tables'
  BY Moves, <1>1 DEF Asked, Tables
<1>3. ASSUME NEW q \in Request PROVE Guarded(q)'
  <2>1. CASE q # r
    <3>1. body'[q] = body[q] /\ pc'[q] = pc[q] /\ Guarded(q)
      BY <2>1, Moves
    <3> QED BY <3>1, <1>1 DEF Guarded, Asked
  <2>2. CASE q = r
    <3> SUFFICES ASSUME body[r].op \in GuardedOps, pc'[r] \in {"inside", "business", "remove"}
                 PROVE  work.row[body[r].id] # Nothing
      BY <2>2, <1>1, Moves DEF Guarded, Asked
    <3> USE DEF Finish, Await, Goto
    <3>1. CASE PassGuard(r)
      BY <3>1 DEF PassGuard, Exists
    <3>2. CASE RequireBusiness(r)
      BY <3>2 DEF RequireBusiness, Exists
    <3>3. CASE CountBooks(r)
      BY <3>3 DEF CountBooks, Guarded, At
    <3>4. CASE PostInto(r) \/ EditBusiness(r) \/ VerifyPin(r) \/ ResetPin(r) \/ RemoveBusiness(r) \/ InsertBusiness(r)
      BY <3>4 DEF PostInto, EditBusiness, VerifyPin, ResetPin, RemoveBusiness, InsertBusiness
    <3>5. CASE CapLock(r) \/ CountExtra(r)
      BY <3>5 DEF CapLock, CountExtra, At, GuardedOps, AllowedLocked
    <3>6. CASE Abort(r)
      BY <3>6 DEF Abort
    <3> QED BY <3>1, <3>2, <3>3, <3>4, <3>5, <3>6 DEF Step, WorkStep
  <2> QED BY <2>1, <2>2
<1> QED BY <1>2, <1>3, Moves

(* Extra workspaces are finitely many, so fewer rows are no more.          *)
LEMMA FewerExtra ==
    ASSUME Typed, NEW u, NEW S, S \subseteq Extra(u)
    PROVE  IsFiniteSet(S) /\ Cardinality(S) <= Cardinality(Extra(u))
           /\ Cardinality(S) \in Nat /\ Cardinality(Extra(u)) \in Nat
<1>1. Extra(u) \subseteq WorkRows
  BY DEF Extra, OwnedBy, Typed, Tables
<1>2. IsFiniteSet(Extra(u))
  BY <1>1, FS_Subset, WorkAssumption
<1> QED BY <1>2, FS_Subset, FS_CardinalityType

LEMMA CappedStep ==
    ASSUME Typed, Capped, NEW r \in Request, Step(r)
    PROVE  Capped'
<1>1. Apart'
  BY Moves DEF Capped
<1>2. \A q \in Request : Held(q)'
  <2>1. \A q \in Request \ {r} : Held(q)'
    BY Moves DEF Capped, Held
  <2>2. Held(r)'
    <3> SUFFICES ASSUME body[r].op = "workspace", pc'[r] \in {"count", "insert"}
                 PROVE  <<"workspace", body[r].user>> \in lock'[r]
      BY Moves DEF Held
    <3> USE DEF At, Finish, Await, Goto, GuardedOps, AllowedLocked, Typed
    <3>1. CapLock(r) \/ CountExtra(r)
      <4>1. ~PassGuard(r) /\ ~RequireBusiness(r)
        BY DEF PassGuard, RequireBusiness
      <4>2. ~PostInto(r) /\ ~EditBusiness(r) /\ ~VerifyPin(r) /\ ~ResetPin(r) /\ ~CountBooks(r) /\ ~RemoveBusiness(r)
        BY DEF PostInto, EditBusiness, VerifyPin, ResetPin, CountBooks, RemoveBusiness
      <4>3. ~InsertBusiness(r) /\ ~Abort(r)
        BY DEF InsertBusiness, Abort
      <4> QED BY <4>1, <4>2, <4>3 DEF Step, WorkStep
    <3>2. CASE CapLock(r)
      BY <3>2 DEF CapLock, Take
    <3>3. CASE CountExtra(r)
      BY <3>3 DEF CountExtra, Capped, Held
    <3> QED BY <3>1, <3>2, <3>3
  <2> QED BY <2>1, <2>2
<1>3. CASE InsertBusiness(r)
  <2> PICK u : u = body[r].user
    OBVIOUS
  <2>1. Cardinality(Extra(u)) < MaxWorkspaces /\ body[r].op = "workspace" /\ pc[r] = "insert"
    BY <1>3 DEF InsertBusiness, At, Capped, Counted
  <2>2. \A v : v # u => Extra(v)' \subseteq Extra(v)
    BY <1>3, Inserts
  <2>3. \A v : v # u => /\ Cardinality(Extra(v)') <= Cardinality(Extra(v))
                        /\ Cardinality(Extra(v)') \in Nat /\ Cardinality(Extra(v)) \in Nat
    BY <2>2, FewerExtra
  <2>4. Cardinality(Extra(u)') <= MaxWorkspaces
    <3>1. Extra(u)' \subseteq Extra(u) \cup {r}
      BY <1>3, Inserts
    <3>2. IsFiniteSet(Extra(u)) /\ Cardinality(Extra(u)) \in Nat
      <4>1. Extra(u) \subseteq Extra(u)
        OBVIOUS
      <4> QED BY <4>1, FewerExtra
    <3>3. /\ IsFiniteSet(Extra(u) \cup {r})
          /\ Cardinality(Extra(u) \cup {r}) = Cardinality(Extra(u)) \/ Cardinality(Extra(u) \cup {r}) = Cardinality(Extra(u)) + 1
      BY <3>2, FS_AddElement
    <3>4. Cardinality(Extra(u)') <= Cardinality(Extra(u) \cup {r}) /\ Cardinality(Extra(u)') \in Nat
      BY <3>1, <3>3, FS_Subset, FS_CardinalityType
    <3> QED BY <2>1, <3>2, <3>3, <3>4, WorkAssumption
  <2>5. WorkspaceCap'
    BY <2>3, <2>4, WorkAssumption DEF Capped, WorkspaceCap
  <2>6. ASSUME NEW q \in Request PROVE Counted(q)'
    <3> PICK v : v = body[q].user
      OBVIOUS
    <3> SUFFICES ASSUME body[q].op = "workspace", pc'[q] = "insert"
                 PROVE  Cardinality(Extra(v)') < MaxWorkspaces
      BY Moves DEF Counted
    <3>1. q # r
      BY <1>3 DEF InsertBusiness, Finish, Goto, Typed
    <3>2. pc[q] = "insert"
      BY <3>1, Moves
    <3>3. v # u
      <4>1. <<"workspace", u>> \in lock[r]
        BY <2>1 DEF Capped, Held
      <4>2. <<"workspace", v>> \in lock[q]
        BY <3>2 DEF Capped, Held
      <4>3. lock[r] \cap lock[q] = {}
        BY <3>1 DEF Capped, Apart
      <4> QED BY <4>1, <4>2, <4>3
    <3> QED BY <2>3, <3>2, <3>3, WorkAssumption DEF Capped, Counted
  <2> QED BY <1>1, <1>2, <2>5, <2>6 DEF Capped
<1>4. CASE ~InsertBusiness(r)
  <2>1. \A v : Extra(v)' \subseteq Extra(v)
    <3>1. CASE work'.row = work.row
      BY <3>1 DEF Extra, OwnedBy, Exists
    <3>2. CASE EditBusiness(r) \/ ResetPin(r) \/ RemoveBusiness(r)
      BY <3>2, Changes
    <3> QED BY <1>4, <3>1, <3>2, Looks DEF Step, WorkStep
  <2>2. \A v : /\ Cardinality(Extra(v)') <= Cardinality(Extra(v))
               /\ Cardinality(Extra(v)') \in Nat /\ Cardinality(Extra(v)) \in Nat
    BY <2>1, FewerExtra
  <2>3. WorkspaceCap'
    BY <2>2, WorkAssumption DEF Capped, WorkspaceCap
  <2>4. ASSUME NEW q \in Request PROVE Counted(q)'
    <3> PICK v : v = body[q].user
      OBVIOUS
    <3> SUFFICES ASSUME body[q].op = "workspace", pc'[q] = "insert"
                 PROVE  Cardinality(Extra(v)') < MaxWorkspaces
      BY Moves DEF Counted
    <3>1. Cardinality(Extra(v)) < MaxWorkspaces
      <4>1. CASE pc[q] = "insert"
        BY <4>1 DEF Capped, Counted
      <4>2. CASE pc[q] # "insert"
        <5>1. q = r
          BY <4>2, Moves
        <5>2. CountExtra(r)
          <6> USE DEF At, Finish, Await, Goto, GuardedOps, AllowedLocked, Typed, Take
          <6>1. ~PassGuard(r) /\ ~RequireBusiness(r) /\ ~PostInto(r) /\ ~CountBooks(r)
            BY <5>1 DEF PassGuard, RequireBusiness, PostInto, CountBooks
          <6>2. ~EditBusiness(r) /\ ~VerifyPin(r) /\ ~ResetPin(r) /\ ~RemoveBusiness(r)
            BY <5>1 DEF EditBusiness, VerifyPin, ResetPin, RemoveBusiness
          <6>3. ~CapLock(r) /\ ~Abort(r)
            BY <5>1 DEF CapLock, Abort
          <6> QED BY <1>4, <6>1, <6>2, <6>3 DEF Step, WorkStep
        <5>3. body[r].op = "workspace" /\ ~(Cardinality(Extra(body[r].user)) >= MaxWorkspaces)
          BY <5>1, <5>2 DEF CountExtra, At, Finish, Goto, Typed
        <5> QED BY <5>1, <5>3, <2>2, WorkAssumption
      <4> QED BY <4>1, <4>2
    <3> QED BY <3>1, <2>2, WorkAssumption
  <2> QED BY <1>1, <1>2, <2>3, <2>4 DEF Capped
<1> QED BY <1>3, <1>4

LEMMA Stutters ==
    ASSUME Typed, Capped, UNCHANGED vars
    PROVE  Typed' /\ Capped'
<1> USE DEF vars, requests
<1>1. Typed'
  BY DEF Typed, Asked, Tables, Guarded
<1>2. \A u : Extra(u)' = Extra(u)
  BY DEF Extra, OwnedBy, Exists
<1>3. Apart' /\ \A r \in Request : Held(r)'
  BY DEF Capped, Apart, Held
<1>4. \A r \in Request : Counted(r)'
  BY <1>2 DEF Capped, Counted
<1>5. WorkspaceCap'
  BY <1>2 DEF Capped, WorkspaceCap
<1> QED BY <1>1, <1>3, <1>4, <1>5 DEF Capped

(* Parallel requests never take a user past the cap: each new workspace is *)
(* counted and inserted under its user's lock, and no other step adds one. *)
THEOREM CapHolds == Spec => []WorkspaceCap
<1>1. Init => Typed /\ Capped
  BY InitInv
<1>2. Typed /\ Capped /\ [Next]_vars => (Typed /\ Capped)'
  <2> SUFFICES ASSUME Typed, Capped, [Next]_vars PROVE Typed' /\ Capped'
    OBVIOUS
  <2>1. CASE Next
    <3>1. PICK r \in Request : Step(r)
      BY <2>1 DEF Next, Step
    <3> QED BY <3>1, TypedStep, CappedStep
  <2>2. CASE UNCHANGED vars
    BY <2>2, Stutters
  <2> QED BY <2>1, <2>2
<1>3. Typed /\ Capped => WorkspaceCap
  BY DEF Capped
<1> QED BY <1>1, <1>2, <1>3, PTL DEF Spec

(***************************************************************************)
(* The PIN.  An unlock that still names a workspace's hash was given since *)
(* that hash was set: nobody sets the same hash again.                     *)
(***************************************************************************)
PinTables ==
    DOMAIN work.unlock = Request /\ DOMAIN work.entered = Request /\ DOMAIN work.pins = WorkRows

(* Until a request has answered, no hash is of its making.                 *)
Unused(q) ==
    pc[q] # "done" =>
        /\ \A w \in WorkRows : work.row[w] # Nothing /\ work.row[w].pin # Nothing => work.row[w].pin.by # q
        /\ \A r \in Request : work.unlock[r] # Nothing => work.unlock[r].pin.by # q

Current(r) ==
    work.unlock[r] # Nothing =>
        LET w == work.unlock[r].id
        IN  /\ work.unlock[r].pin # Nothing
            /\ w \in WorkRows /\ work.row[w] # Nothing /\ work.row[w].pin = work.unlock[r].pin =>
                   work.unlock[r].at = work.pins[w]

PinInv == PinTables /\ \A r \in Request : Unused(r) /\ Current(r)

(* r sets the PIN of w, or only gets an unlock for it.                     *)
SetsOrUnlocks(r, w, h) ==
    /\ \A v \in WorkRows \ {w} : work'.row[v] = work.row[v] /\ work'.pins[v] = work.pins[v]
    /\ work'.row[w].pin = h
    /\ \/ h = Nothing
       \/ h.by = r /\ pc[r] # "done" /\ pc'[r] = "done"
       \/ work'.pins[w] = work.pins[w] /\ work.row[w] # Nothing /\ work.row[w].pin = h
    /\ \A q \in Request \ {r} : work'.unlock[q] = work.unlock[q]
    /\ \/ work'.unlock[r] = work.unlock[r]
       \/ /\ h # Nothing /\ work'.unlock[r].id = w
          /\ work'.unlock[r].pin = h /\ work'.unlock[r].at = work'.pins[w]

LEMMA PinsKept ==
    ASSUME Typed, PinInv, NEW r \in Request, Step(r), PinTables',
           NEW w \in WorkRows, NEW h, SetsOrUnlocks(r, w, h)
    PROVE  PinInv'
<1>1. \A q \in Request \ {r} : pc'[q] = pc[q]
  BY Moves
<1>2. ASSUME NEW q \in Request PROVE Current(q)'
  <2>1. CASE work'.unlock[q] = work.unlock[q]
    <3> SUFFICES ASSUME work.unlock[q] # Nothing,
                        work.unlock[q].id \in WorkRows, work'.row[work.unlock[q].id] # Nothing,
                        work'.row[work.unlock[q].id].pin = work.unlock[q].pin
                 PROVE  work.unlock[q].at = work'.pins[work.unlock[q].id]
      BY <2>1 DEF Current, PinInv
    <3>1. CASE work.unlock[q].id # w
      BY <3>1 DEF SetsOrUnlocks, PinInv, Current
    <3>2. CASE work.unlock[q].id = w
      <4>1. h = work.unlock[q].pin /\ h # Nothing
        BY <3>2 DEF SetsOrUnlocks, PinInv, Current
      <4>2. ~(h.by = r /\ pc[r] # "done")
        BY <4>1 DEF PinInv, Unused
      <4>3. work'.pins[w] = work.pins[w] /\ work.row[w] # Nothing /\ work.row[w].pin = h
        BY <4>1, <4>2 DEF SetsOrUnlocks
      <4> QED BY <3>2, <4>1, <4>3 DEF PinInv, Current
    <3> QED BY <3>1, <3>2
  <2>2. CASE work'.unlock[q] # work.unlock[q]
    BY <2>2 DEF SetsOrUnlocks, Current
  <2> QED BY <2>1, <2>2
<1>3. ASSUME NEW q \in Request PROVE Unused(q)'
  <2> SUFFICES ASSUME pc'[q] # "done"
               PROVE  /\ \A v \in WorkRows : work'.row[v] # Nothing /\ work'.row[v].pin # Nothing => work'.row[v].pin.by # q
                      /\ \A p \in Request : work'.unlock[p] # Nothing => work'.unlock[p].pin.by # q
    BY DEF Unused
  <2>1. pc[q] # "done"
    <3>1. CASE q # r
      BY <1>1, <3>1
    <3>2. CASE q = r
      BY <3>2 DEF Step, WorkStep, PassGuard, PostInto, RequireBusiness, EditBusiness, VerifyPin, ResetPin,
                  CountBooks, RemoveBusiness, CapLock, CountExtra, InsertBusiness, Abort, At
    <3> QED BY <3>1, <3>2
  <2>2. h # Nothing => h.by # q
    BY <2>1 DEF SetsOrUnlocks, PinInv, Unused
  <2> QED BY <2>1, <2>2 DEF SetsOrUnlocks, PinInv, Unused
<1> QED BY <1>2, <1>3 DEF PinInv

SamePins == work'.row = work.row /\ work'.pins = work.pins /\ work'.unlock = work.unlock

LEMMA PinsUntouched ==
    ASSUME Typed, PinInv, NEW r \in Request, Step(r), PinTables', SamePins
    PROVE  PinInv'
<1>1. \A q \in Request : Current(q)'
  BY DEF SamePins, PinInv, Current
<1>2. \A q \in Request : pc'[q] # "done" => pc[q] # "done"
  <2>1. pc[r] # "done"
    BY DEF Step, WorkStep, PassGuard, PostInto, RequireBusiness, EditBusiness, VerifyPin, ResetPin,
           CountBooks, RemoveBusiness, CapLock, CountExtra, InsertBusiness, Abort, At
  <2> QED BY <2>1, Moves
<1>3. \A q \in Request : Unused(q)'
  BY <1>2 DEF SamePins, PinInv, Unused
<1> QED BY <1>1, <1>3 DEF PinInv

LEMMA LooksAtPins ==
    ASSUME Typed, PinInv, NEW r \in Request,
           \/ PassGuard(r) \/ PostInto(r) \/ RequireBusiness(r) \/ CountBooks(r)
           \/ CapLock(r) \/ CountExtra(r) \/ (Abort(r) /\ WorkStays)
    PROVE  PinTables' /\ SamePins
<1> USE DEF PinInv, PinTables, SamePins, Typed, Tables
<1>1. CASE PassGuard(r)
  <2>1. work' = work \/ \E e : work' = [work EXCEPT !.entered[r] = e]
    BY <1>1 DEF PassGuard, WorkStays
  <2> QED BY <2>1
<1>2. CASE PostInto(r)
  BY <1>2 DEF PostInto
<1>3. CASE RequireBusiness(r) \/ CountBooks(r) \/ CapLock(r) \/ CountExtra(r) \/ (Abort(r) /\ WorkStays)
  BY <1>3 DEF RequireBusiness, CountBooks, CapLock, CountExtra, WorkStays
<1> QED BY <1>1, <1>2, <1>3

LEMMA SetsPins ==
    ASSUME Typed, PinInv, NEW r \in Request,
           EditBusiness(r) \/ ResetPin(r) \/ RemoveBusiness(r) \/ VerifyPin(r) \/ InsertBusiness(r)
    PROVE  PinTables' /\ (SamePins \/ \E w \in WorkRows : \E h : SetsOrUnlocks(r, w, h))
<1> DEFINE b == body[r]
<1> USE DEF PinInv, PinTables, Typed, Tables, Finish, Goto
<1>1. CASE InsertBusiness(r)
  <2>1. r \in WorkRows /\ b.op = "workspace" /\ pc[r] = "insert" /\ pc'[r] = "done"
    BY <1>1, WorkAssumption DEF InsertBusiness, At
  <2> DEFINE hash == IF b.pin = Nothing THEN Nothing ELSE [pin |-> b.pin, by |-> r]
  <2>2. hash # Nothing => hash.by = r
    OBVIOUS
  <2>3. PinTables' /\ SetsOrUnlocks(r, r, hash)
    <3>1. CASE b.pin = Nothing
      BY <1>1, <2>1, <3>1 DEF InsertBusiness, SetsOrUnlocks
    <3>2. CASE b.pin # Nothing
      BY <1>1, <2>1, <3>2, WorkAssumption DEF InsertBusiness, Unlocked, SetsOrUnlocks, Asked
    <3> QED BY <3>1, <3>2
  <2> QED BY <2>1, <2>3
<1>2. CASE ~InsertBusiness(r)
  <2>1. /\ b.id \in WorkRows /\ work.row[b.id] # Nothing /\ work.row[b.id] \in WorkRow
        /\ b.op \in {"edit", "reset-pin", "delete", "verify-pin"}
        /\ pc[r] # "done" /\ pc'[r] = "done"
    BY <1>2 DEF Asked, Guarded, GuardedOps, AllowedLocked, EditBusiness, ResetPin, RemoveBusiness, VerifyPin, At
  <2>2. CASE EditBusiness(r)
    <3> DEFINE hash == IF b.pin = Nothing THEN Nothing ELSE [pin |-> b.pin, by |-> r]
    <3>1. PinTables' /\ SetsOrUnlocks(r, b.id, hash)
      <4>1. CASE b.pin = Nothing
        BY <2>1, <2>2, <4>1 DEF EditBusiness, SetPin, SetsOrUnlocks, WorkRow
      <4>2. CASE b.pin # Nothing
        <5>1. hash # Nothing /\ hash.by = r
          BY <2>2, <4>2, WorkAssumption DEF EditBusiness, At, Asked
        <5>2. work' = Unlocked(r, SetPin(b.id, hash), b.id)
          BY <2>2, <4>2 DEF EditBusiness
        <5>3. /\ work'.row = [work.row EXCEPT ![b.id] = [work.row[b.id] EXCEPT !.pin = hash]]
              /\ work'.pins = [work.pins EXCEPT ![b.id] = work.pins[b.id] + 1]
              /\ work'.entered = work.entered
          BY <5>2 DEF SetPin, Unlocked
        <5>4. work'.unlock = [work.unlock EXCEPT ![r] =
                  [session |-> b.session, id |-> b.id, pin |-> work'.row[b.id].pin, at |-> work'.pins[b.id]]]
          BY <5>2 DEF SetPin, Unlocked
        <5>5. work'.row[b.id].pin = hash
          BY <2>1, <5>3 DEF WorkRow
        <5>6. PinTables'
          BY <5>3, <5>4
        <5> HIDE DEF hash
        <5>7. SetsOrUnlocks(r, b.id, hash)
          <6>1. /\ \A v \in WorkRows \ {b.id} : work'.row[v] = work.row[v] /\ work'.pins[v] = work.pins[v]
                /\ \A q \in Request \ {r} : work'.unlock[q] = work.unlock[q]
            BY <5>3, <5>4
          <6>2. work'.unlock[r].id = b.id /\ work'.unlock[r].pin = hash /\ work'.unlock[r].at = work'.pins[b.id]
            BY <5>4, <5>5
          <6> QED BY <2>1, <5>1, <5>5, <6>1, <6>2 DEF SetsOrUnlocks
        <5> QED BY <5>6, <5>7
      <4> QED BY <4>1, <4>2
    <3> QED BY <2>1, <3>1
  <2>3. CASE ResetPin(r)
    <3>1. PinTables' /\ (SamePins \/ SetsOrUnlocks(r, b.id, Nothing))
      BY <2>1, <2>3 DEF ResetPin, SetPin, SetsOrUnlocks, SamePins, WorkRow
    <3> QED BY <2>1, <3>1
  <2>4. CASE RemoveBusiness(r)
    <3>1. PinTables' /\ SetsOrUnlocks(r, b.id, work.row[b.id].pin)
      BY <2>1, <2>4 DEF RemoveBusiness, SetsOrUnlocks, WorkRow
    <3> QED BY <2>1, <3>1
  <2>5. CASE VerifyPin(r)
    <3>1. PinTables' /\ (SamePins \/ SetsOrUnlocks(r, b.id, work.row[b.id].pin))
      BY <2>1, <2>5 DEF VerifyPin, Unlocked, SetsOrUnlocks, SamePins, WorkRow
    <3> QED BY <2>1, <3>1
  <2> QED BY <1>2, <2>2, <2>3, <2>4, <2>5
<1> QED BY <1>1, <1>2

LEMMA PinStep ==
    ASSUME Typed, PinInv, NEW r \in Request, Step(r)
    PROVE  PinInv'
<1>1. CASE EditBusiness(r) \/ ResetPin(r) \/ RemoveBusiness(r) \/ VerifyPin(r) \/ InsertBusiness(r)
  <2>1. PinTables' /\ (SamePins \/ \E w \in WorkRows : \E h : SetsOrUnlocks(r, w, h))
    BY <1>1, SetsPins
  <2> QED BY <2>1, PinsUntouched, PinsKept
<1>2. CASE ~(EditBusiness(r) \/ ResetPin(r) \/ RemoveBusiness(r) \/ VerifyPin(r) \/ InsertBusiness(r))
  <2>1. PinTables' /\ SamePins
    BY <1>2, LooksAtPins DEF Step, WorkStep
  <2> QED BY <2>1, PinsUntouched
<1> QED BY <1>1, <1>2

(* Only the guard lets a request in, with an unlock of the hash that is    *)
(* there.                                                                  *)
LEMMA EntersWithCurrent ==
    ASSUME Typed, PinInv, OldPinsEnd, NEW r \in Request, Step(r)
    PROVE  OldPinsEnd'
<1> USE DEF Typed, Tables, PinInv, PinTables
<1>1. CASE work'.entered = work.entered
  BY <1>1 DEF OldPinsEnd
<1>2. CASE PassGuard(r)
  <2>1. CASE work' = work
    BY <2>1 DEF OldPinsEnd
  <2>2. ASSUME NEW q \in Request, Exists(body[r].id), work.row[body[r].id].pin # Nothing,
               Opens(work.unlock[q], body[r], work.row[body[r].id].pin),
               work' = [work EXCEPT !.entered[r] = [with |-> work.unlock[q].at, at |-> work.pins[body[r].id]]],
               body[r].id \in WorkRows
        PROVE  OldPinsEnd'
    <3>1. work.unlock[q].at = work.pins[body[r].id]
      BY <2>2 DEF Current, Opens, PinVersion, Exists
    <3>2. \A p \in Request \ {r} : work'.entered[p] = work.entered[p]
      BY <2>2
    <3>3. work'.entered[r] = [with |-> work.unlock[q].at, at |-> work.pins[body[r].id]]
      BY <2>2
    <3> QED BY <3>1, <3>2, <3>3 DEF OldPinsEnd
  <2>3. body[r].id \in WorkRows
    BY <1>2 DEF PassGuard, Asked
  <2> QED BY <1>2, <2>1, <2>2, <2>3 DEF PassGuard, WorkStays
<1>3. CASE ~PassGuard(r)
  <2>1. CASE EditBusiness(r)
    BY <2>1, <1>1 DEF EditBusiness, SetPin, Unlocked
  <2>2. CASE VerifyPin(r) \/ ResetPin(r) \/ PostInto(r) \/ RemoveBusiness(r)
    BY <2>2, <1>1 DEF VerifyPin, Unlocked, ResetPin, SetPin, PostInto, RemoveBusiness
  <2>3. CASE InsertBusiness(r)
    BY <2>3, <1>1 DEF InsertBusiness, Unlocked
  <2>4. CASE RequireBusiness(r) \/ CountBooks(r) \/ CapLock(r) \/ CountExtra(r) \/ (Abort(r) /\ WorkStays)
    BY <2>4, <1>1 DEF RequireBusiness, CountBooks, CapLock, CountExtra, WorkStays
  <2> QED BY <1>3, <2>1, <2>2, <2>3, <2>4 DEF Step, WorkStep
<1> QED BY <1>2, <1>3

(* A new PIN ends every unlock made with the old one, the same digits set  *)
(* again included: the hash of each setting is its own.                    *)
THEOREM PinsHold == Spec => []OldPinsEnd
<1>1. Init => Typed /\ Capped
  BY InitInv
<1>2. Init => PinInv /\ OldPinsEnd
  BY WorkAssumption DEF Init, WorkInit, PinInv, PinTables, Unused, Current, OldPinsEnd
<1>3. Typed /\ Capped /\ PinInv /\ OldPinsEnd /\ [Next]_vars => (Typed /\ Capped /\ PinInv /\ OldPinsEnd)'
  <2> SUFFICES ASSUME Typed, Capped, PinInv, OldPinsEnd, [Next]_vars
               PROVE  Typed' /\ Capped' /\ PinInv' /\ OldPinsEnd'
    OBVIOUS
  <2>1. CASE Next
    <3>1. PICK r \in Request : Step(r)
      BY <2>1 DEF Next, Step
    <3> QED BY <3>1, TypedStep, CappedStep, PinStep, EntersWithCurrent
  <2>2. CASE UNCHANGED vars
    <3>1. Typed' /\ Capped'
      BY <2>2, Stutters
    <3>2. PinInv' /\ OldPinsEnd'
      BY <2>2 DEF vars, requests, PinInv, PinTables, Unused, Current, OldPinsEnd
    <3> QED BY <3>1, <3>2
  <2> QED BY <2>1, <2>2
<1> QED BY <1>1, <1>2, <1>3, PTL DEF Spec

(***************************************************************************)
(* The fees of extra workspaces, along the two paths.                      *)
(***************************************************************************)

(* Rounding a sum of k equal parts once, or each of them.                  *)
LEMMA RoundedTwice ==
    ASSUME NEW p \in Nat, NEW k \in Nat, NEW d \in {2, 24}
    PROVE  /\ Rounded(p, d) \in Int /\ Rounded(k * p, d) \in Int /\ k * Rounded(p, d) \in Int
           /\ 2 * (k * Rounded(p, d) - Rounded(k * p, d)) <= k + 1
           /\ 2 * (Rounded(k * p, d) - k * Rounded(p, d)) <= k + 1
<1> DEFINE once == Rounded(k * p, d)
           each == Rounded(p, d)
           x == k * each
           y == k * p
<1>1. y \in Nat
  OBVIOUS
<1>2. ASSUME NEW n \in Nat
      PROVE  /\ Rounded(n, d) \in Int /\ 2 * d * Rounded(n, d) <= 2 * n + d
             /\ 2 * n + d <= 2 * d * Rounded(n, d) + 2 * d - 1
  <2>1. CASE d = 2
    BY <2>1 DEF Rounded
  <2>2. CASE d = 24
    BY <2>2 DEF Rounded
  <2> QED BY <2>1, <2>2
<1>3. once \in Int /\ 2 * d * once <= 2 * y + d /\ 2 * y + d <= 2 * d * once + 2 * d - 1
  BY <1>1, <1>2
<1>4. each \in Int /\ 2 * d * each <= 2 * p + d /\ 2 * p + d <= 2 * d * each + 2 * d - 1
  BY <1>2
<1> HIDE DEF once, each
<1>5. x \in Int
  BY <1>4
<1>6. \A a, b \in Int : a <= b => k * a <= k * b
  OBVIOUS
<1>7. k * (2 * d * each) = 2 * d * x /\ k * (2 * p + d) = 2 * y + d * k
      /\ k * (2 * d * each + 2 * d - 1) = 2 * d * x + 2 * d * k - k
  BY <1>4
<1>8. 2 * d * x <= 2 * y + d * k /\ 2 * y + d * k <= 2 * d * x + 2 * d * k - k
  BY <1>4, <1>6, <1>7
<1> HIDE DEF x, y
<1>9. 2 * (x - once) <= k + 1 /\ 2 * (once - x) <= k + 1
  <2>1. CASE d = 2
    BY <2>1, <1>1, <1>3, <1>5, <1>8
  <2>2. CASE d = 24
    BY <2>2, <1>1, <1>3, <1>5, <1>8
  <2> QED BY <2>1, <2>2
<1> QED BY <1>3, <1>4, <1>5, <1>9 DEF once, each, x

(* One element, taken out of a sum.                                        *)
Splits(f, S, e) ==
    /\ SumOver(f, S) = f[e] + SumOver(f, S \ {e})
    /\ SumOver(f, S \ {e}) \in Int /\ f[e] \in Int

LEMMA SumSplitsAt ==
    ASSUME NEW f, NEW S, Ints(f, S), NEW e \in S
    PROVE  Splits(f, S, e)
BY ONLY Ints(f, S), SumSplits, ZenonT(60) DEF Splits

(* Terms that are close have close sums.                                   *)
Close(f, g, h, S) ==
    \A x \in S : 2 * (f[x] - g[x]) <= h[x] + 1 /\ 2 * (g[x] - f[x]) <= h[x] + 1

LEMMA SumsClose ==
    ASSUME NEW f, NEW g, NEW h, NEW S, Ints(f, S), Ints(g, S), Ints(h, S), Close(f, g, h, S)
    PROVE  /\ 2 * (SumOver(f, S) - SumOver(g, S)) <= SumOver(h, S) + Cardinality(S)
           /\ 2 * (SumOver(g, S) - SumOver(f, S)) <= SumOver(h, S) + Cardinality(S)
<1> DEFINE Near(T) ==
             /\ 2 * (SumOver(f, T) - SumOver(g, T)) <= SumOver(h, T) + Cardinality(T)
             /\ 2 * (SumOver(g, T) - SumOver(f, T)) <= SumOver(h, T) + Cardinality(T)
           good == {T \in SUBSET S : Near(T)}
<1>1. IsFiniteSet(S)
  BY DEF Ints
<1>2. ASSUME NEW T \in SUBSET S, \A U \in SUBSET T : U # T => U \in good
      PROVE  T \in good
  <2>1. CASE T = {}
    BY <2>1, SumOfNone, FS_EmptySet
  <2>2. CASE T # {}
    <3>1. PICK e \in T : TRUE
      BY <2>2
    <3> DEFINE U == T \ {e}
    <3>2. Near(U)
      BY <1>2, <3>1
    <3>3. Ints(f, T) /\ Ints(g, T) /\ Ints(h, T)
      BY IntsBelow
    <3>4. Splits(f, T, e)
      BY <3>1, <3>3, SumSplitsAt
    <3>5. Splits(g, T, e)
      BY <3>1, <3>3, SumSplitsAt
    <3>6. Splits(h, T, e)
      BY <3>1, <3>3, SumSplitsAt
    <3>7. Cardinality(U) \in Nat /\ Cardinality(T) = Cardinality(U) + 1
      <4>1. IsFiniteSet(T) /\ IsFiniteSet(U)
        BY <1>1, <3>1, FS_Subset
      <4>2. T = U \cup {e} /\ e \notin U
        BY <3>1
      <4> HIDE DEF U
      <4> QED BY <4>1, <4>2, FS_AddElement, FS_CardinalityType
    <3>8. 2 * (f[e] - g[e]) <= h[e] + 1 /\ 2 * (g[e] - f[e]) <= h[e] + 1
      BY <3>1 DEF Close
    <3>9. \A x \in {f, g, h} : /\ SumOver(x, T) = x[e] + SumOver(x, U)
                               /\ SumOver(x, U) \in Int /\ x[e] \in Int
      BY <3>4, <3>5, <3>6 DEF Splits
    <3> HIDE DEF U
    <3> QED BY <3>2, <3>7, <3>8, <3>9
  <2> QED BY <2>1, <2>2
<1>3. S \in good
  <2> HIDE DEF good
  <2> QED BY <1>1, <1>2, InductOnSubsets
<1> QED BY <1>3
Billable(u) == {w \in Extra(u) : work.row[w].type = "BUSINESS"}

(* What a user is shown beside the workspaces is a fee for each business.  *)
LEMMA ShownFees ==
    ASSUME Typed, NEW u \in DOMAIN PlanOf
    PROVE  /\ SumOver(ListedFees(u), OwnedBy(u)) = MonthlyFee(u) * Cardinality(Billable(u))
           /\ IsFiniteSet(Billable(u)) /\ Cardinality(Billable(u)) \in Nat
           /\ Cardinality(Billable(u)) <= Cardinality(Extra(u)) /\ Cardinality(Extra(u)) \in Nat
           /\ MonthlyFee(u) \in Int
<1> DEFINE fees == ListedFees(u)
           paying == Billable(u)
           rest == OwnedBy(u) \ paying
<1>1. PlanOf[u].price \in Nat /\ Parts(u) \in {2, 24}
  BY WorkAssumption DEF Parts
<1>2. MonthlyFee(u) \in Int
  BY <1>1, RoundedTwice DEF MonthlyFee
<1>3. paying \subseteq Extra(u) /\ Extra(u) \subseteq OwnedBy(u)
  BY DEF Billable, Extra
<1>4. IsFiniteSet(OwnedBy(u))
  <2>1. OwnedBy(u) \subseteq WorkRows
    BY DEF OwnedBy, Typed, Tables
  <2> QED BY <2>1, FS_Subset, WorkAssumption
<1>5. /\ IsFiniteSet(paying) /\ Cardinality(paying) <= Cardinality(Extra(u))
      /\ Cardinality(paying) \in Nat /\ Cardinality(Extra(u)) \in Nat
  BY <1>3, FewerExtra
<1>6. \A w \in paying : fees[w] = MonthlyFee(u)
  BY <1>3 DEF ListedFees, Billable
<1>7. \A w \in rest : fees[w] = 0
  BY DEF ListedFees, Billable
<1>8. OwnedBy(u) = paying \cup rest /\ paying \cap rest = {}
  BY <1>3
<1>9. Ints(fees, OwnedBy(u))
  BY <1>2, <1>4, <1>6, <1>7, <1>8 DEF Ints
<1>10. IsFiniteSet(rest)
  BY <1>4, FS_Difference
<1> HIDE DEF fees, paying, rest
<1>11. SumOver(fees, OwnedBy(u)) = SumOver(fees, paying) + SumOver(fees, rest)
  BY <1>8, <1>9, SumOfUnion
<1>12. SumOver(fees, paying) = MonthlyFee(u) * Cardinality(paying)
  BY <1>2, <1>5, <1>6, SumOfSame
<1>13. SumOver(fees, rest) = 0
  BY <1>7, <1>10, SumOfNothing
<1>14. SumOver(fees, OwnedBy(u)) = MonthlyFee(u) * Cardinality(paying)
  <2>1. MonthlyFee(u) * Cardinality(paying) \in Int
    BY <1>2, <1>5
  <2> QED BY <1>11, <1>12, <1>13, <2>1
<1> QED BY <1>2, <1>5, <1>14 DEF fees, paying

(* The owners' lists and the admin's page are apart by no more than the    *)
(* rounding of each fee.                                                   *)
LEMMA FeesStayClose ==
    ASSUME Typed
    PROVE  FeesAgree
<1> DEFINE users == DOMAIN PlanOf
           owners == {u \in users : Extra(u) # {}}
           others == users \ owners
           shown == [u \in users |-> SumOver(ListedFees(u), OwnedBy(u))]
           expected == [u \in owners |-> EstimatedAddOn(u)]
           extras == [u \in owners |-> Cardinality(Extra(u))]
           total == SumOver(shown, users)
           apart == total - SumOver(expected, owners)
<1>1. IsFiniteSet(users) /\ IsFiniteSet(owners) /\ IsFiniteSet(others)
  BY WorkAssumption, FS_Subset
<1>2. ASSUME NEW u \in users
      PROVE  /\ shown[u] \in Int /\ EstimatedAddOn(u) \in Int /\ Cardinality(Extra(u)) \in Int
             /\ 2 * (shown[u] - EstimatedAddOn(u)) <= Cardinality(Extra(u)) + 1
             /\ 2 * (EstimatedAddOn(u) - shown[u]) <= Cardinality(Extra(u)) + 1
             /\ Extra(u) = {} => shown[u] = 0
  <2> DEFINE p == PlanOf[u].price
             k == Cardinality(Billable(u))
             d == Parts(u)
             fee == MonthlyFee(u)
             once == EstimatedAddOn(u)
             x == Cardinality(Extra(u))
  <2>1. p \in Nat /\ d \in {2, 24}
    BY WorkAssumption DEF Parts
  <2>2. shown[u] = fee * k /\ k \in Nat /\ k <= x /\ x \in Nat /\ fee \in Int
    BY ShownFees
  <2>3. fee = Rounded(p, d) /\ once = Rounded(k * p, d)
    BY DEF MonthlyFee, EstimatedAddOn, Billable
  <2>4. Extra(u) = {} => k = 0
    <3>1. Extra(u) = {} => Billable(u) = {}
      BY DEF Billable
    <3> QED BY <3>1, FS_EmptySet
  <2> HIDE DEF p, k, d, fee, once, x, shown
  <2>5. /\ k * fee \in Int /\ once \in Int
        /\ 2 * (k * fee - once) <= k + 1 /\ 2 * (once - k * fee) <= k + 1
    BY <2>1, <2>2, <2>3, RoundedTwice
  <2>6. shown[u] = k * fee
    BY <2>2
  <2>7. /\ shown[u] \in Int
        /\ 2 * (shown[u] - once) <= x + 1 /\ 2 * (once - shown[u]) <= x + 1
    BY <2>2, <2>5, <2>6
  <2>8. k = 0 => shown[u] = 0
    BY <2>2
  <2> QED BY <2>2, <2>4, <2>5, <2>7, <2>8 DEF once, x
<1>3. Ints(shown, users) /\ Ints(shown, owners) /\ Ints(expected, owners) /\ Ints(extras, owners)
  BY <1>1, <1>2 DEF Ints
<1>4. Close(shown, expected, extras, owners)
  BY <1>2 DEF Close
<1>5. \A u \in others : shown[u] = 0
  BY <1>2
<1>6. users = owners \cup others /\ owners \cap others = {}
  OBVIOUS
<1>7. Cardinality(owners) \in Nat
  BY <1>1, FS_CardinalityType
<1>8. FeesAgree <=> (IF apart < 0 THEN -2 * apart ELSE 2 * apart)
                       <= SumOver(extras, owners) + Cardinality(owners)
  BY Zenon DEF FeesAgree, WorkspaceOverview
<1> HIDE DEF users, owners, others, shown, expected, extras
<1>9. SumOver(shown, users) = SumOver(shown, owners) + SumOver(shown, others)
  BY <1>3, <1>6, SumOfUnion
<1>10. SumOver(shown, others) = 0
  BY <1>1, <1>5, SumOfNothing
<1>11. SumOver(shown, owners) \in Int /\ SumOver(expected, owners) \in Int /\ SumOver(extras, owners) \in Int
  BY <1>3, SumInt
<1>12. /\ 2 * (SumOver(shown, owners) - SumOver(expected, owners)) <= SumOver(extras, owners) + Cardinality(owners)
       /\ 2 * (SumOver(expected, owners) - SumOver(shown, owners)) <= SumOver(extras, owners) + Cardinality(owners)
  BY <1>3, <1>4, SumsClose
<1>13. total = SumOver(shown, owners)
  BY <1>9, <1>10, <1>11
<1> HIDE DEF total
<1> QED BY <1>7, <1>8, <1>11, <1>12, <1>13

(* Parallel requests never take a user past the cap, and whatever they     *)
(* leave, what the owners' lists charge for extra workspaces and what the  *)
(* admin's overview expects differ by rounding only.                       *)
THEOREM ExtrasStayInOrder == Spec => []ExtrasInOrder
<1>1. Init => Typed /\ Capped
  BY InitInv
<1>2. Typed /\ Capped /\ [Next]_vars => (Typed /\ Capped)'
  <2> SUFFICES ASSUME Typed, Capped, [Next]_vars
               PROVE  Typed' /\ Capped'
    OBVIOUS
  <2>1. CASE Next
    BY <2>1, TypedStep, CappedStep DEF Next, Step
  <2>2. CASE UNCHANGED vars
    BY <2>2, Stutters
  <2> QED BY <2>1, <2>2
<1>3. Typed /\ Capped => ExtrasInOrder
  BY FeesStayClose DEF Capped, ExtrasInOrder
<1> QED BY <1>1, <1>2, <1>3, PTL DEF Spec
=============================================================================
