---------------------------- MODULE ServicesProofs ----------------------------
(***************************************************************************)
(* The services inside a workspace, each by itself: any number of requests *)
(* of any mix.  A request that is not for the service stays where it is,   *)
(* or is given up.                                                         *)
(***************************************************************************)
EXTENDS AccountTree, Assets, GroupExpenses, Vault, Todos, Billing, Budgets, Shelves, Habits,
        RequestsProofs, SumsProofs

(***************************************************************************)
(* The vault                                                               *)
(***************************************************************************)
VaultNext == \E r \in Request : VaultStep(r) \/ (Abort(r) /\ VaultStays)

VaultSpec == RequestsInit /\ VaultInit /\ [][VaultNext]_<<requests, vault>>

VaultTyped ==
    /\ Framed
    /\ DOMAIN vault = {"hash", "sets", "entry", "token", "opened", "wiped"}
    /\ DOMAIN vault.opened = Request

(* A hash that a request makes is new: nobody holds one of its making.     *)
HashesNew ==
    \A r \in Request : ~Ended(r) =>
        /\ vault.hash # Nothing => vault.hash.by # r
        /\ \A q \in DOMAIN vault.token : vault.token[q] # Nothing => vault.token[q].hash.by # r

(* Who holds the present hash has unlocked since it was set.               *)
TokensDated ==
    \A q \in DOMAIN vault.token :
        vault.token[q] # Nothing /\ vault.hash # Nothing /\ vault.token[q].hash = vault.hash
          => vault.token[q].at = vault.sets

(* An entry is new, too.                                                   *)
EntriesNew == \A r \in Request : ~Ended(r) => r \notin Saved \cup vault.wiped

VaultInv == VaultTyped /\ HashesNew /\ TokensDated /\ EntriesNew /\ ResetForgets

LEMMA VaultStarts == RequestsInit /\ VaultInit => VaultInv
BY RequestsStart, VaultAssumption
   DEF VaultInit, VaultInv, VaultTyped, HashesNew, TokensDated, EntriesNew, ResetForgets, Saved

LEMMA VaultMoves ==
    ASSUME NEW r \in Request, VaultStep(r) \/ Abort(r)
    PROVE  Moves(r) /\ ~Ended(r)
<1> USE FinishMoves, AwaitMoves, KeepMoves DEF At, Ended
<1>1. CASE ReadHash(r) \/ CheckPasswords(r) \/ SetVaultPassword(r)
  BY <1>1 DEF ReadHash, CheckPasswords, SetVaultPassword
<1>2. CASE ResetVault(r) \/ WipeVault(r) \/ UnlockVault(r) \/ VaultGuard(r)
  BY <1>2 DEF ResetVault, WipeVault, UnlockVault, VaultGuard
<1>3. CASE ListEntries(r) \/ SealEntry(r) \/ SaveEntry(r)
  BY <1>3 DEF ListEntries, SealEntry, SealRest, SaveEntry
<1>4. CASE FindEntry(r) \/ ChangeEntry(r) \/ DropEntry(r)
  BY <1>4 DEF FindEntry, ChangeEntry, DropEntry
<1>5. CASE Abort(r)
  BY <1>5, AbortMoves DEF Abort
<1> QED BY <1>1, <1>2, <1>3, <1>4, <1>5 DEF VaultStep

(* Nobody who has ended goes on.                                           *)
LEMMA VaultEnds ==
    ASSUME VaultTyped, NEW r \in Request, VaultStep(r) \/ Abort(r), NEW q \in Request, ~Ended(q)'
    PROVE  ~Ended(q)
BY VaultMoves, OthersStay DEF VaultTyped, Ended

(* A step that leaves the hash and the unlocks alone, and saves nothing.   *)
LEMMA VaultQuiet ==
    ASSUME VaultInv, NEW r \in Request, VaultStep(r) \/ Abort(r),
           DOMAIN vault' = DOMAIN vault,
           vault'.hash = vault.hash, vault'.sets = vault.sets, vault'.token = vault.token,
           vault'.opened = vault.opened, vault'.wiped = vault.wiped,
           Saved' \subseteq Saved
    PROVE  VaultInv'
<1> USE DEF VaultInv
<1>1. VaultTyped'
  BY VaultMoves, OthersStay DEF VaultTyped
<1>2. HashesNew' /\ EntriesNew'
  BY VaultEnds DEF HashesNew, EntriesNew
<1>3. TokensDated' /\ ResetForgets'
  BY DEF TokensDated, ResetForgets
<1> QED BY <1>1, <1>2, <1>3

(* An entry that is written over was there; so nothing is added.           *)
LEMMA EntryOver ==
    ASSUME VaultTyped, NEW i, NEW e, vault.entry[i] # Nothing \/ e = Nothing,
           vault' = [vault EXCEPT !.entry[i] = e]
    PROVE  /\ DOMAIN vault' = DOMAIN vault
           /\ vault'.hash = vault.hash /\ vault'.sets = vault.sets /\ vault'.token = vault.token
           /\ vault'.opened = vault.opened /\ vault'.wiped = vault.wiped
           /\ Saved' \subseteq Saved
<1>1. vault'.entry = [vault.entry EXCEPT ![i] = e]
  BY DEF VaultTyped
<1>2. Saved' \subseteq Saved
  BY <1>1 DEF Saved
<1> QED BY <1>2 DEF VaultTyped

LEMMA NewHash ==
    ASSUME VaultInv, NEW r \in Request, VaultStep(r), Finish(r),
           DOMAIN vault' = DOMAIN vault,
           vault'.hash = Hashed(r, body[r].password),
           vault'.token = vault.token, vault'.opened = vault.opened,
           \/ vault'.entry = vault.entry /\ vault'.wiped = vault.wiped
           \/ \E gone \in SUBSET Saved : Saved' = Saved \ gone /\ vault'.wiped = vault.wiped \cup gone
    PROVE  VaultInv'
<1> USE DEF VaultInv
<1>1. VaultTyped' /\ \A q \in Request : ~Ended(q)' => q # r
  BY VaultMoves, OthersStay DEF VaultTyped, Finish, Goto, Ended, Framed
<1>2. vault'.hash.by = r
  BY DEF Hashed
<1>3. HashesNew'
  BY <1>1, <1>2, VaultEnds DEF HashesNew
<1>4. TokensDated'
  <2>1. ~Ended(r)
    BY VaultMoves
  <2> QED BY <1>2, <2>1 DEF TokensDated, HashesNew
<1>5. Saved' \subseteq Saved /\ Saved' \cap vault'.wiped = {}
      /\ Saved' \cup vault'.wiped \subseteq Saved \cup vault.wiped
  BY DEF Saved, ResetForgets
<1>6. EntriesNew'
  BY <1>5, VaultEnds DEF EntriesNew
<1>7. ResetForgets'
  BY <1>5 DEF ResetForgets
<1> QED BY <1>1, <1>3, <1>4, <1>6, <1>7

LEMMA VaultInvStep ==
    ASSUME VaultInv, NEW r \in Request, VaultStep(r) \/ (Abort(r) /\ VaultStays)
    PROVE  VaultInv'
<1> USE DEF VaultInv
<1>0. ~Ended(r)
  BY VaultMoves
<1>1. ASSUME VaultStays PROVE VaultInv'
  BY <1>1, VaultQuiet DEF VaultStays, Saved
<1>2. CASE SetVaultPassword(r)
  BY <1>2, NewHash DEF SetVaultPassword, WithVaultPassword, VaultStep, VaultTyped
<1>3. CASE WipeVault(r)
  <2> DEFINE gone == Own(body[r].user)
  <2>1. /\ DOMAIN vault' = DOMAIN vault /\ vault'.hash = Hashed(r, body[r].password)
        /\ vault'.token = vault.token /\ vault'.opened = vault.opened
        /\ vault'.wiped = vault.wiped \cup gone
        /\ vault'.entry = [i \in DOMAIN vault.entry |-> IF i \in gone THEN Nothing ELSE vault.entry[i]]
    BY <1>3 DEF WipeVault, WithVaultPassword, VaultTyped
  <2>2. gone \subseteq Saved
    BY DEF Own
  <2> HIDE DEF gone
  <2>3. Saved' = Saved \ gone
    BY <2>1, <2>2 DEF Saved
  <2>4. Finish(r) /\ VaultStep(r)
    BY <1>3 DEF WipeVault, VaultStep
  <2> QED BY <2>1, <2>2, <2>3, <2>4, NewHash
<1>4. CASE UnlockVault(r)
  <2>1. CASE vault' = vault
    BY <1>1, <2>1 DEF VaultStays
  <2>2. CASE /\ vault.hash # Nothing
             /\ vault' = [vault EXCEPT !.token[r] = [hash |-> vault.hash, at |-> vault.sets]]
    <3> DEFINE t == [hash |-> vault.hash, at |-> vault.sets]
    <3>1. /\ DOMAIN vault' = DOMAIN vault /\ vault'.token = [vault.token EXCEPT ![r] = t]
          /\ vault'.hash = vault.hash /\ vault'.sets = vault.sets /\ vault'.entry = vault.entry
          /\ vault'.opened = vault.opened /\ vault'.wiped = vault.wiped
      BY <2>2 DEF VaultTyped
    <3>2. DOMAIN vault'.token = DOMAIN vault.token
          /\ \A q \in DOMAIN vault.token : vault'.token[q] = t \/ vault'.token[q] = vault.token[q]
      BY <3>1
    <3>3. VaultTyped'
      BY <3>1, VaultMoves, OthersStay DEF VaultTyped
    <3>4. HashesNew'
      BY <2>2, <3>1, <3>2, VaultEnds, <1>4 DEF HashesNew, VaultStep
    <3>5. TokensDated'
      BY <3>1, <3>2 DEF TokensDated
    <3>6. EntriesNew' /\ ResetForgets'
      BY <1>4, <3>1, VaultEnds DEF EntriesNew, ResetForgets, Saved, VaultStep
    <3> QED BY <3>3, <3>4, <3>5, <3>6
  <2> QED BY <1>4, <2>1, <2>2 DEF UnlockVault
<1>5. CASE VaultGuard(r)
  <2>1. CASE VaultStays
    BY <1>1, <2>1
  <2>2. ASSUME NEW q \in DOMAIN vault.token, vault.token[q] # Nothing, vault.hash # Nothing,
               Fingerprint(vault.token[q].hash) = Fingerprint(vault.hash),
               vault' = [vault EXCEPT !.opened[r] = [with |-> vault.token[q].at, at |-> vault.sets]]
        PROVE  VaultInv'
    <3>1. vault.token[q].at = vault.sets
      BY <2>2 DEF TokensDated, Fingerprint
    <3>2. /\ DOMAIN vault' = DOMAIN vault
          /\ vault'.opened = [vault.opened EXCEPT ![r] = [with |-> vault.sets, at |-> vault.sets]]
          /\ vault'.hash = vault.hash /\ vault'.sets = vault.sets /\ vault'.entry = vault.entry
          /\ vault'.token = vault.token /\ vault'.wiped = vault.wiped
      BY <2>2, <3>1 DEF VaultTyped
    <3>3. VaultTyped'
      BY <3>2, VaultMoves, OthersStay DEF VaultTyped
    <3>4. HashesNew' /\ TokensDated'
      BY <1>5, <3>2, VaultEnds DEF HashesNew, TokensDated, VaultStep
    <3>5. EntriesNew'
      BY <1>5, <3>2, VaultEnds DEF EntriesNew, Saved, VaultStep
    <3>6. ResetForgets'
      BY <3>2 DEF ResetForgets, Saved, VaultTyped
    <3> QED BY <3>3, <3>4, <3>5, <3>6
  <2> QED BY <1>5, <2>1, <2>2 DEF VaultGuard
<1>6. CASE SealEntry(r)
  <2>1. CASE VaultStays
    BY <1>1, <2>1
  <2>2. ASSUME NEW i, NEW e, vault.entry[i] # Nothing, vault' = [vault EXCEPT !.entry[i] = e]
        PROVE  VaultInv'
    BY <1>6, <2>2, EntryOver, VaultQuiet DEF VaultStep
  <2> QED BY <1>6, <2>1, <2>2 DEF SealEntry
<1>7. CASE SaveEntry(r)
  <2> DEFINE e == [owner |-> body[r].user, login |-> body[r].login, sealed |-> TRUE]
  <2>1. /\ DOMAIN vault' = DOMAIN vault /\ vault'.entry = [vault.entry EXCEPT ![r] = e]
        /\ vault'.hash = vault.hash /\ vault'.sets = vault.sets /\ vault'.token = vault.token
        /\ vault'.opened = vault.opened /\ vault'.wiped = vault.wiped
    BY <1>7 DEF SaveEntry, VaultTyped
  <2>2. Saved' \subseteq Saved \cup {r}
    BY <2>1 DEF Saved
  <2>3. VaultTyped' /\ \A q \in Request : ~Ended(q)' => q # r
    BY <1>7, <2>1, VaultMoves, OthersStay DEF VaultTyped, VaultStep, SaveEntry, Finish, Goto, Ended, Framed
  <2>4. HashesNew' /\ TokensDated'
    BY <1>7, <2>1, VaultEnds DEF HashesNew, TokensDated, VaultStep
  <2>5. EntriesNew'
    BY <1>7, <2>1, <2>2, <2>3, VaultEnds DEF EntriesNew, VaultStep
  <2>6. ResetForgets'
    BY <1>0, <2>1, <2>2 DEF ResetForgets, EntriesNew
  <2> QED BY <2>3, <2>4, <2>5, <2>6
<1>8. CASE ChangeEntry(r)
  <2> DEFINE i == body[r].id
  <2> DEFINE e == [[vault.entry[i] EXCEPT !.login = body[r].login] EXCEPT !.sealed = TRUE]
  <2>1. CASE vault' = vault
    BY <1>1, <2>1 DEF VaultStays
  <2>2. CASE vault.entry[i] # Nothing /\ vault' # vault
    <3>1. /\ DOMAIN vault' = DOMAIN vault
          /\ vault'.hash = vault.hash /\ vault'.sets = vault.sets /\ vault'.token = vault.token
          /\ vault'.opened = vault.opened /\ vault'.wiped = vault.wiped
      BY <1>8, <2>2 DEF ChangeEntry, VaultTyped
    <3>2. DOMAIN vault'.entry = DOMAIN vault.entry
          /\ \A j \in DOMAIN vault.entry : j # i => vault'.entry[j] = vault.entry[j]
      BY <1>8, <2>2 DEF ChangeEntry, VaultTyped
    <3>3. Saved' \subseteq Saved
      BY <2>2, <3>2 DEF Saved
    <3> QED BY <1>8, <3>1, <3>3, VaultQuiet DEF VaultStep
  <2> QED BY <1>8, <2>1, <2>2 DEF ChangeEntry
<1>9. CASE DropEntry(r)
  BY <1>9, EntryOver, VaultQuiet DEF DropEntry, VaultStep
<1>10. CASE ReadHash(r) \/ CheckPasswords(r) \/ ResetVault(r) \/ ListEntries(r) \/ FindEntry(r)
            \/ (Abort(r) /\ VaultStays)
  BY <1>1, <1>10 DEF ReadHash, CheckPasswords, ResetVault, ListEntries, FindEntry
<1> QED BY <1>2, <1>3, <1>4, <1>5, <1>6, <1>7, <1>8, <1>9, <1>10 DEF VaultStep

(* No unlock made with a password that has since been changed opens the    *)
(* vault, and nothing a reset has deleted comes back.                      *)
THEOREM VaultForgets == VaultSpec => []ResetForgets
<1>1. VaultInv /\ [VaultNext]_<<requests, vault>> => VaultInv'
  <2> SUFFICES ASSUME VaultInv, [VaultNext]_<<requests, vault>> PROVE VaultInv'
    OBVIOUS
  <2>1. CASE UNCHANGED <<requests, vault>>
    BY <2>1 DEF requests, VaultInv, VaultTyped, Framed, HashesNew, TokensDated, EntriesNew,
                ResetForgets, Saved, Ended
  <2> QED BY <2>1, VaultInvStep DEF VaultNext
<1>2. VaultInv => ResetForgets
  BY DEF VaultInv
<1> QED BY <1>1, <1>2, VaultStarts, PTL DEF VaultSpec

(***************************************************************************)
(* To-do lists                                                             *)
(***************************************************************************)
TodoNext == \E r \in Request : TodoStep(r) \/ (Abort(r) /\ TodoStays)

TodoSpec == RequestsInit /\ TodoInit /\ [][TodoNext]_<<requests, todo>>

TodoTyped ==
    /\ Framed
    /\ DOMAIN todo = {"list", "task", "pushed"}
    /\ todo.list \in [TodoIds -> Int \cup {Nothing}]
    /\ todo.task \in [TodoIds -> TodoTask \cup {Nothing}]
    /\ DOMAIN todo.pushed = Request
    /\ \A r \in Request : /\ body[r].op = "todo-list" => body[r].date \in Int
                          /\ body[r].op = "task" => body[r].list \in TodoIds
                          /\ body[r].op = "check-task" => body[r].completed \in BOOLEAN

InsertsLists(r) == body[r].op \in {"todo-list", "push-task"}

(* Lists are counted and inserted under the lock.                          *)
CountHeld(r) ==
    InsertsLists(r) =>
        /\ pc[r] \in {"count", "insert"} => <<"todo-list", 1>> \in lock[r]
        /\ pc[r] = "insert" => Cardinality(TodoLists) < MaxLists

(* The date a request works for; the list a push has found has that date   *)
(* as long as it is there.                                                 *)
ForDate(r) ==
    /\ InsertsLists(r) /\ pc[r] \in {"target", "lock", "count", "insert", "lost", "room", "move"} =>
          mem[r].date \in Int
    /\ pc[r] \in {"room", "move"} =>
          mem[r].target \in TodoIds /\ todo.list[mem[r].target] \in {Nothing, mem[r].date}

(* Before a request has inserted its list nobody can have found it.        *)
ListNew(r) ==
    ~Ended(r) /\ pc[r] \notin {"room", "move"} =>
        /\ todo.list[r] = Nothing
        /\ \A q \in Request : pc[q] \in {"room", "move"} => mem[q].target # r

TodoInv ==
    /\ TodoTyped /\ Apart
    /\ \A r \in Request : CountHeld(r) /\ ForDate(r) /\ ListNew(r)
    /\ ListsSound

LEMMA TodoStarts == RequestsInit /\ TodoInit => TodoInv
<1> SUFFICES ASSUME RequestsInit, TodoInit PROVE TodoInv
  OBVIOUS
<1> USE TodoAssumption DEF TodoInit
<1>1. TodoTyped
  <2>1. \A r \in Request : body[r].op # "none" => body[r] \in UNION {s.bodies : s \in Scenario}
    BY RequestsStart DEF NoBody
  <2> QED BY <2>1, RequestsStart, TodoBodies DEF TodoTyped
<1>2. \A r \in Request : CountHeld(r) /\ ForDate(r) /\ ListNew(r)
  BY RequestsStart DEF CountHeld, ForDate, ListNew
<1>3. TodoLists = {l \in TodoIds : TodoStart.list[l] # Nothing}
  BY DEF TodoLists
<1>4. ListsSound
  BY <1>3 DEF ListsSound, Dated
<1> QED BY <1>1, <1>2, <1>4, RequestsStart DEF TodoInv

LEMMA TodoMoves ==
    ASSUME NEW r \in Request, TodoStep(r) \/ Abort(r)
    PROVE  Moves(r) /\ ~Ended(r)
<1> USE FinishMoves, AwaitMoves, KeepMoves, TakeMoves DEF At, Ended
<1>1. CASE FindDate(r) \/ LockLists(r) \/ CountLists(r) \/ InsertList(r) \/ DropList(r)
  BY <1>1 DEF FindDate, LockLists, CountLists, InsertList, DropList
<1>2. CASE FindList(r) \/ InsertTask(r) \/ RequireList(r) \/ RequireTask(r) \/ UpdateTask(r) \/ RemoveTask(r)
  BY <1>2 DEF FindList, InsertTask, RequireList, RequireTask, UpdateTask, RemoveTask
<1>3. CASE FindTask(r) \/ FindTarget(r) \/ FindWinner(r) \/ CountTasks(r) \/ MoveTask(r)
  BY <1>3 DEF FindTask, FindTarget, FindWinner, CountTasks, MoveTask, WithTarget
<1>4. CASE InsertTarget(r)
  BY <1>4 DEF InsertTarget, Moves
<1>5. CASE Abort(r)
  BY <1>5, AbortMoves DEF Abort
<1> QED BY <1>1, <1>2, <1>3, <1>4, <1>5 DEF TodoStep

Inserts(r) ==
    /\ InsertsLists(r) /\ pc[r] = "insert"
    /\ Dated(mem[r].date) = {}
    /\ todo' = [todo EXCEPT !.list[r] = mem[r].date]
    /\ pc'[r] \in {"done", "room"}

(* What a step does to the lists and to the tasks.                         *)
LEMMA TodoChanges ==
    ASSUME TodoTyped, NEW r \in Request, TodoStep(r) \/ (Abort(r) /\ TodoStays)
    PROVE  \/ TodoStays \/ Inserts(r) \/ DropList(r)
           \/ InsertTask(r) \/ UpdateTask(r) \/ RemoveTask(r) \/ MoveTask(r)
<1>1. CASE InsertList(r)
  BY <1>1 DEF InsertList, Inserts, InsertsLists, TodoStays, At, Finish, Goto, TodoTyped, Framed
<1>2. CASE InsertTarget(r)
  BY <1>2 DEF InsertTarget, Inserts, InsertsLists, TodoStays, At, TodoTyped, Framed
<1>3. CASE FindDate(r) \/ LockLists(r) \/ CountLists(r) \/ FindList(r) \/ RequireList(r) \/ RequireTask(r)
  BY <1>3 DEF FindDate, LockLists, CountLists, FindList, RequireList, RequireTask
<1>4. CASE FindTask(r) \/ FindTarget(r) \/ FindWinner(r) \/ CountTasks(r)
  BY <1>4 DEF FindTask, FindTarget, FindWinner, CountTasks
<1> QED BY <1>1, <1>2, <1>3, <1>4 DEF TodoStep

(* A list is kept, dropped, or the new one of a request that inserts it.   *)
LEMMA ListsChange ==
    ASSUME TodoInv, NEW r \in Request, TodoStep(r) \/ (Abort(r) /\ TodoStays)
    PROVE  /\ DOMAIN todo' = DOMAIN todo /\ DOMAIN todo'.pushed = Request
           /\ todo'.list \in [TodoIds -> Int \cup {Nothing}]
           /\ \A l \in TodoIds :
                \/ todo'.list[l] \in {todo.list[l], Nothing}
                \/ l = r /\ Inserts(r) /\ todo'.list[r] = mem[r].date
<1> USE DEF TodoInv, TodoTyped
<1>1. CASE TodoStays
  BY <1>1 DEF TodoStays
<1>2. CASE Inserts(r)
  <2>1. mem[r].date \in Int /\ r \in TodoIds
    BY <1>2, TodoAssumption DEF Inserts, ForDate
  <2>2. DOMAIN todo' = DOMAIN todo /\ todo'.pushed = todo.pushed
        /\ todo'.list = [todo.list EXCEPT ![r] = mem[r].date]
    BY <1>2 DEF Inserts
  <2> QED BY <1>2, <2>1, <2>2
<1>3. CASE DropList(r)
  <2>1. DOMAIN todo' = DOMAIN todo /\ todo'.pushed = todo.pushed
        /\ todo'.list = [todo.list EXCEPT ![body[r].id] = Nothing]
    BY <1>3 DEF DropList
  <2> QED BY <2>1
<1>4. CASE InsertTask(r) \/ UpdateTask(r) \/ RemoveTask(r) \/ MoveTask(r)
  <2>1. DOMAIN todo' = DOMAIN todo /\ DOMAIN todo'.pushed = Request /\ todo'.list = todo.list
    <3>1. CASE InsertTask(r) \/ RemoveTask(r)
      BY <3>1 DEF InsertTask, RemoveTask
    <3>2. CASE UpdateTask(r)
      BY <3>2 DEF UpdateTask
    <3>3. CASE MoveTask(r)
      BY <3>3 DEF MoveTask
    <3> QED BY <1>4, <3>1, <3>2, <3>3
  <2> QED BY <2>1
<1> QED BY <1>1, <1>2, <1>3, <1>4, TodoChanges

(* What becomes of the tasks.                                              *)
LEMMA TasksChange ==
    ASSUME TodoInv, NEW r \in Request, TodoStep(r) \/ (Abort(r) /\ TodoStays)
    PROVE  /\ todo'.task \in [TodoIds -> TodoTask \cup {Nothing}]
           /\ \A t \in TodoIds : todo'.task[t] # Nothing => todo'.task[t].list \in TodoLists'
<1> USE DEF TodoInv, TodoTyped
<1>0. \A t \in TodoIds : todo.task[t] # Nothing => todo.task[t].list \in TodoLists
  BY DEF ListsSound
<1>1. CASE TodoStays
  BY <1>0, <1>1 DEF TodoStays, TodoLists
<1>2. CASE Inserts(r)
  <2>1. todo'.task = todo.task
    BY <1>2 DEF Inserts
  <2>2. TodoLists \subseteq TodoLists'
    <3>1. mem[r].date # Nothing /\ todo'.list = [todo.list EXCEPT ![r] = mem[r].date]
      BY <1>2, TodoAssumption DEF Inserts, ForDate
    <3> QED BY <3>1 DEF TodoLists
  <2> QED BY <1>0, <2>1, <2>2
<1>3. CASE DropList(r)
  <2> DEFINE l == body[r].id
  <2>1. /\ todo'.list = [todo.list EXCEPT ![l] = Nothing]
        /\ todo'.task = [t \in DOMAIN todo.task |-> IF t \in TasksOn(l) THEN Nothing ELSE todo.task[t]]
    BY <1>3 DEF DropList
  <2>2. \A t \in TodoIds : todo'.task[t] # Nothing => todo'.task[t] = todo.task[t] /\ todo.task[t].list # l
    BY <2>1 DEF TasksOn
  <2>3. TodoLists \ {l} \subseteq TodoLists'
    BY <2>1 DEF TodoLists
  <2>4. todo'.task \in [TodoIds -> TodoTask \cup {Nothing}]
    BY <2>1
  <2> QED BY <1>0, <2>2, <2>3, <2>4
<1>4. CASE InsertTask(r) \/ UpdateTask(r) \/ RemoveTask(r) \/ MoveTask(r)
  <2>1. TodoLists' = TodoLists
    BY <1>4 DEF InsertTask, UpdateTask, RemoveTask, MoveTask, TodoLists
  <2> SUFFICES /\ todo'.task \in [TodoIds -> TodoTask \cup {Nothing}]
               /\ \A t \in TodoIds : todo'.task[t] # Nothing => todo'.task[t].list \in TodoLists
    BY <2>1
  <2>2. CASE todo' = todo
    BY <1>0, <2>2
  <2>3. ASSUME NEW i, NEW e \in TodoTask \cup {Nothing}, e # Nothing => e.list \in TodoLists,
               todo'.task = [todo.task EXCEPT ![i] = e]
        PROVE  /\ todo'.task \in [TodoIds -> TodoTask \cup {Nothing}]
               /\ \A t \in TodoIds : todo'.task[t] # Nothing => todo'.task[t].list \in TodoLists
    BY <1>0, <2>3
  <2>4. CASE InsertTask(r)
    <3> DEFINE e == [list |-> body[r].list, completed |-> FALSE]
    <3>1. CASE todo.list[body[r].list] = Nothing
      BY <2>2, <2>4, <3>1 DEF InsertTask
    <3>2. CASE todo.list[body[r].list] # Nothing
      <4>1. body[r].list \in TodoIds
        BY <2>4 DEF InsertTask, At
      <4>2. e \in TodoTask /\ e.list \in TodoLists
        BY <3>2, <4>1 DEF TodoTask, TodoLists
      <4>3. todo'.task = [todo.task EXCEPT ![r] = e]
        BY <2>4, <3>2 DEF InsertTask
      <4> QED BY <2>3, <4>2, <4>3
    <3> QED BY <3>1, <3>2
  <2>5. CASE UpdateTask(r) /\ todo' # todo
    <3> DEFINE i == body[r].id
               e == [todo.task[i] EXCEPT !.completed = body[r].completed]
    <3>1. todo'.task = [todo.task EXCEPT ![i] = e] /\ todo.task[i] # Nothing /\ body[r].completed \in BOOLEAN
      BY <2>5 DEF UpdateTask, At
    <3>2. CASE i \in TodoIds
      <4>0. todo.task[i] \in TodoTask
        BY <3>1, <3>2
      <4>1. e \in TodoTask /\ e.list = todo.task[i].list
        BY <3>1, <4>0 DEF TodoTask
      <4> QED BY <1>0, <2>3, <3>1, <3>2, <4>1
    <3>3. CASE i \notin TodoIds
      <4>1. todo'.task = todo.task
        BY <3>1, <3>3
      <4> QED BY <1>0, <4>1
    <3> QED BY <3>2, <3>3
  <2>6. CASE RemoveTask(r)
    <3>1. todo'.task = [todo.task EXCEPT ![body[r].id] = Nothing]
      BY <2>6 DEF RemoveTask
    <3> QED BY <2>3, <3>1
  <2>7. CASE MoveTask(r) /\ todo' # todo
    <3> DEFINE i == body[r].id
               e == [todo.task[i] EXCEPT !.list = mem[r].target]
    <3>1. /\ todo'.task = [todo.task EXCEPT ![i] = e]
          /\ todo.task[i] # Nothing /\ todo.list[mem[r].target] # Nothing
      BY <2>7 DEF MoveTask
    <3>2. mem[r].target \in TodoIds
      BY <2>7 DEF MoveTask, At, ForDate
    <3>3. CASE i \in TodoIds
      <4>0. todo.task[i] \in TodoTask
        BY <3>1, <3>3
      <4>1. e \in TodoTask /\ e.list = mem[r].target
        BY <3>2, <4>0 DEF TodoTask
      <4>2. e.list \in TodoLists
        BY <3>1, <3>2, <4>1 DEF TodoLists
      <4> QED BY <2>3, <3>1, <4>1, <4>2
    <3>4. CASE i \notin TodoIds
      <4>1. todo'.task = todo.task
        BY <3>1, <3>4
      <4> QED BY <1>0, <4>1
    <3> QED BY <3>3, <3>4
  <2> QED BY <1>4, <2>2, <2>4, <2>5, <2>6, <2>7
<1> QED BY <1>1, <1>2, <1>3, <1>4, TodoChanges

LEMMA TodoListsFinite ==
    ASSUME TodoTyped
    PROVE  IsFiniteSet(TodoLists) /\ Cardinality(TodoLists) \in Nat
<1>1. TodoLists \subseteq TodoIds
  BY DEF TodoLists, TodoTyped
<1> QED BY <1>1, FS_Subset, FS_CardinalityType, TodoAssumption

(* Which action takes a request where.                                     *)
LEMMA ComesFrom ==
    ASSUME Framed, NEW r \in Request, TodoStep(r) \/ Abort(r)
    PROVE  /\ pc'[r] = "count" => LockLists(r)
           /\ pc'[r] = "insert" => CountLists(r) \/ (FindList(r) /\ ~InsertsLists(r))
           /\ pc'[r] = "target" => FindTask(r)
           /\ pc'[r] = "lock" => FindDate(r) \/ FindTarget(r)
           /\ pc'[r] = "lost" => InsertTarget(r)
           /\ pc'[r] = "room" => FindTarget(r) \/ FindWinner(r) \/ InsertTarget(r)
           /\ pc'[r] = "move" => CountTasks(r)
<1> USE DEF At, Finish, Await, Keep, Goto, Framed
<1>1. CASE InsertList(r) \/ DropList(r) \/ InsertTask(r) \/ UpdateTask(r) \/ RemoveTask(r) \/ MoveTask(r) \/ Abort(r)
  BY <1>1 DEF InsertList, DropList, InsertTask, UpdateTask, RemoveTask, MoveTask, Abort
<1>2. CASE RequireList(r) \/ RequireTask(r)
  BY <1>2 DEF RequireList, RequireTask
<1>3. CASE FindDate(r)
  BY <1>3, pc'[r] \in {"done", "lock"} DEF FindDate
<1>4. CASE LockLists(r)
  BY <1>4, pc'[r] = "count" DEF LockLists, Take
<1>5. CASE CountLists(r)
  BY <1>5, pc'[r] \in {"done", "insert"} DEF CountLists
<1>6. CASE FindList(r)
  BY <1>6, pc'[r] \in {"done", "insert"}, ~InsertsLists(r) DEF FindList, InsertsLists
<1>7. CASE FindTask(r)
  BY <1>7, pc'[r] \in {"done", "target"} DEF FindTask
<1>8. CASE FindTarget(r)
  BY <1>8, pc'[r] \in {"lock", "room"} DEF FindTarget, WithTarget
<1>9. CASE InsertTarget(r)
  BY <1>9, pc'[r] \in {"lost", "room"} DEF InsertTarget
<1>10. CASE FindWinner(r)
  BY <1>10, pc'[r] \in {"done", "room"} DEF FindWinner, WithTarget
<1>11. CASE CountTasks(r)
  BY <1>11, pc'[r] \in {"done", "move"} DEF CountTasks
<1> QED BY <1>1, <1>2, <1>3, <1>4, <1>5, <1>6, <1>7, <1>8, <1>9, <1>10, <1>11 DEF TodoStep

LEMMA CountHeldStep ==
    ASSUME TodoInv, NEW r \in Request, TodoStep(r) \/ (Abort(r) /\ TodoStays), NEW q \in Request
    PROVE  CountHeld(q)'
<1>0. /\ TodoTyped /\ Framed /\ Apart /\ CountHeld(q) /\ body' = body
      /\ Cardinality(TodoLists) \in Nat /\ MaxLists \in Nat
  BY TodoListsFinite, TodoAssumption, TodoMoves, OthersStay DEF TodoInv, TodoTyped
<1>1. CASE q # r
  <2>1. pc'[q] = pc[q] /\ lock'[q] = lock[q]
    BY <1>0, <1>1, TodoMoves, OthersStay
  <2>2. ASSUME InsertsLists(q), pc[q] = "insert" PROVE Cardinality(TodoLists') < MaxLists
    <3>1. Cardinality(TodoLists) < MaxLists /\ <<"todo-list", 1>> \in lock[q]
      BY <1>0, <2>2 DEF CountHeld
    <3>2. ~Inserts(r)
      BY <1>0, <1>1, <3>1 DEF TodoInv, CountHeld, Inserts, Apart
    <3>3. TodoLists' \subseteq TodoLists
      BY <1>0, <3>2, ListsChange DEF TodoLists, TodoTyped
    <3>4. Cardinality(TodoLists') <= Cardinality(TodoLists) /\ Cardinality(TodoLists') \in Nat
      BY <1>0, <3>3, TodoListsFinite, FS_Subset, FS_CardinalityType
    <3> QED BY <1>0, <3>1, <3>4
  <2> QED BY <1>0, <2>1, <2>2 DEF CountHeld, InsertsLists
<1>2. CASE q = r
  <2>1. ASSUME InsertsLists(r), pc'[r] = "count" PROVE <<"todo-list", 1>> \in lock'[r]
    <3>1. LockLists(r)
      BY <1>0, <2>1, ComesFrom
    <3>2. lock'[r] = lock[r] \cup {<<"todo-list", 1>>}
      BY <1>0, <3>1 DEF LockLists, Take, Framed
    <3> QED BY <3>2
  <2>2. ASSUME InsertsLists(r), pc'[r] = "insert"
        PROVE  <<"todo-list", 1>> \in lock'[r] /\ Cardinality(TodoLists') < MaxLists
    <3>1. CountLists(r)
      BY <1>0, <2>2, ComesFrom
    <3>2. (pc[r] = "count" /\ pc'[r] # "done") \/ pc'[r] = "done"
      BY <1>0, <3>1 DEF CountLists
    <3>3. ~(Cardinality(TodoLists) >= MaxLists) /\ Await(r, "insert") /\ TodoStays
      BY <1>0, <2>2, <3>1 DEF CountLists, Finish, Goto, Framed
    <3>4. lock' = lock /\ TodoLists' = TodoLists
      BY <3>3 DEF Await, TodoStays, TodoLists
    <3> QED BY <1>0, <1>2, <2>2, <3>2, <3>3, <3>4 DEF CountHeld
  <2> QED BY <1>0, <1>2, <2>1, <2>2 DEF CountHeld, InsertsLists
<1> QED BY <1>1, <1>2

LEMMA ForDateStep ==
    ASSUME TodoInv, NEW r \in Request, TodoStep(r) \/ (Abort(r) /\ TodoStays), NEW q \in Request
    PROVE  ForDate(q)'
<1>0. /\ TodoTyped /\ Framed /\ ForDate(q) /\ body' = body
      /\ todo.list \in [TodoIds -> Int \cup {Nothing}] /\ Nothing \notin Int
  BY TodoMoves, OthersStay, TodoAssumption DEF TodoInv, TodoTyped
<1>1. CASE q # r
  <2>1. pc'[q] = pc[q] /\ mem'[q] = mem[q]
    BY <1>0, <1>1, TodoMoves, OthersStay
  <2>2. ASSUME pc[q] \in {"room", "move"}
        PROVE  mem[q].target \in TodoIds /\ todo'.list[mem[q].target] \in {Nothing, mem[q].date}
    <3>1. mem[q].target \in TodoIds /\ todo.list[mem[q].target] \in {Nothing, mem[q].date}
      BY <1>0, <2>2 DEF ForDate
    <3>2. Inserts(r) => mem[q].target # r
      BY <2>2 DEF TodoInv, ListNew, Inserts, Ended
    <3> QED BY <3>1, <3>2, ListsChange
  <2> QED BY <1>0, <2>1, <2>2 DEF ForDate, InsertsLists
<1>2. CASE q = r
  <2> DEFINE d == mem[r].date
             Awaits == {"target", "lock", "count", "insert", "lost", "room", "move"}
  <2>0. ForDate(r)
    BY <1>0, <1>2
  <2>1. ASSUME pc'[r] = "room" PROVE /\ mem'[r].date \in Int /\ mem'[r].target \in TodoIds
                                     /\ todo'.list[mem'[r].target] \in {Nothing, mem'[r].date}
    <3>1. CASE \E l \in Dated(d) : WithTarget(r, l) /\ TodoStays /\ InsertsLists(r) /\ pc[r] \in {"target", "lost"}
      <4>1. PICK l \in Dated(d) : WithTarget(r, l) /\ TodoStays /\ InsertsLists(r) /\ pc[r] \in {"target", "lost"}
        BY <3>1
      <4>2. mem'[r] = [date |-> d, target |-> l]
        BY <1>0, <4>1 DEF WithTarget, Keep, Framed
      <4>3. d \in Int /\ l \in TodoIds /\ todo'.list[l] = d
        BY <1>0, <2>0, <4>1 DEF ForDate, Dated, TodoLists, TodoStays
      <4> QED BY <4>2, <4>3
    <3>2. CASE InsertTarget(r)
      <4>1. d \in Int
        BY <2>0, <3>2 DEF ForDate, InsertTarget, At, InsertsLists
      <4>2. mem'[r] = [date |-> d, target |-> r] /\ todo' = [todo EXCEPT !.list[r] = d]
        BY <1>0, <2>1, <3>2 DEF InsertTarget, Framed
      <4>3. r \in TodoIds /\ todo'.list = [todo.list EXCEPT ![r] = d]
        BY <1>0, <4>2, TodoAssumption DEF TodoTyped
      <4> QED BY <1>0, <4>1, <4>2, <4>3
    <3>3. CASE FindTarget(r) \/ FindWinner(r)
      <4>1. Dated(d) # {}
        BY <1>0, <2>1, <3>3 DEF FindTarget, FindWinner, At, Await, Finish, Goto, Framed
      <4> QED BY <3>1, <3>3, <4>1 DEF FindTarget, FindWinner, At, InsertsLists
    <3> QED BY <1>0, <2>1, <3>2, <3>3, ComesFrom
  <2>2. ASSUME pc'[r] = "move" PROVE /\ InsertsLists(r) => mem'[r].date \in Int
                                     /\ mem'[r].target \in TodoIds
                                     /\ todo'.list[mem'[r].target] \in {Nothing, mem'[r].date}
    <3>1. CountTasks(r)
      BY <1>0, <2>2, ComesFrom
    <3>2. Await(r, "move") /\ TodoStays /\ pc[r] = "room"
      BY <1>0, <2>2, <3>1 DEF CountTasks, At, Finish, Goto, Framed
    <3> QED BY <2>0, <3>2 DEF ForDate, Await, TodoStays
  <2>3. ASSUME InsertsLists(r), pc'[r] = "target" PROVE mem'[r].date \in Int
    <3>1. FindTask(r)
      BY <1>0, <2>3, ComesFrom
    <3>2. /\ body[r].id \in TasksOn(body[r].list)
          /\ mem' = [mem EXCEPT ![r] = [date |-> todo.list[body[r].list] + 1]]
          /\ todo.list[body[r].list] # Nothing
      BY <1>0, <2>3, <3>1 DEF FindTask, At, Keep, Finish, Goto, Framed
    <3>3. body[r].list \in TodoIds
      BY <1>0, <3>2 DEF TodoInv, ListsSound, TasksOn, TodoLists
    <3>4. mem'[r].date = todo.list[body[r].list] + 1
      BY <1>0, <3>2 DEF Framed
    <3> QED BY <1>0, <3>2, <3>3, <3>4
  <2>4. ASSUME InsertsLists(r), pc'[r] = "lock" PROVE mem'[r].date \in Int
    <3>1. CASE FindDate(r)
      <4>1. mem' = [mem EXCEPT ![r] = [date |-> body[r].date]] /\ body[r].op = "todo-list"
        BY <1>0, <2>4, <3>1 DEF FindDate, At, Keep, Finish, Goto, Framed
      <4>2. mem'[r].date = body[r].date
        BY <1>0, <4>1 DEF Framed
      <4> QED BY <1>0, <4>1, <4>2 DEF TodoTyped
    <3>2. CASE FindTarget(r)
      <4>1. mem' = mem /\ pc[r] = "target"
        BY <1>0, <2>4, <3>2 DEF FindTarget, WithTarget, At, Keep, Await, Goto, Framed
      <4> QED BY <2>0, <2>4, <4>1 DEF ForDate
    <3> QED BY <1>0, <2>4, <3>1, <3>2, ComesFrom
  <2>5. ASSUME InsertsLists(r), pc'[r] \in {"count", "insert", "lost"} PROVE mem'[r].date \in Int
    <3>1. CASE LockLists(r)
      BY <2>0, <2>5, <3>1 DEF LockLists, Take, ForDate
    <3>2. CASE CountLists(r)
      <4>1. mem' = mem /\ pc[r] = "count"
        BY <1>0, <2>5, <3>2 DEF CountLists, Await, Finish, Goto, Framed
      <4> QED BY <2>0, <2>5, <4>1 DEF ForDate
    <3>3. CASE InsertTarget(r)
      <4>1. pc[r] = "insert" /\ (mem' = mem \/ mem' = [mem EXCEPT ![r] = [date |-> d, target |-> r]])
        BY <3>3 DEF InsertTarget, At
      <4>2. mem'[r].date = d
        BY <1>0, <4>1 DEF Framed
      <4> QED BY <2>0, <2>5, <4>1, <4>2 DEF ForDate
    <3> QED BY <1>0, <2>5, <3>1, <3>2, <3>3, ComesFrom
  <2>6. InsertsLists(r)' <=> InsertsLists(r)
    BY <1>0 DEF InsertsLists
  <2> QED BY <1>2, <2>1, <2>2, <2>3, <2>4, <2>5, <2>6 DEF ForDate
<1> QED BY <1>1, <1>2

(* Which list a push works on, once it has found one.                      *)
LEMMA TargetFound ==
    ASSUME TodoInv, NEW r \in Request, TodoStep(r) \/ (Abort(r) /\ TodoStays),
           pc'[r] \in {"room", "move"}
    PROVE  \/ pc[r] \in {"room", "move"} /\ mem'[r] = mem[r]
           \/ mem'[r].target \in TodoLists
           \/ Inserts(r) /\ mem'[r].target = r
<1>0. Framed
  BY DEF TodoInv, TodoTyped
<1>1. CASE FindTarget(r) \/ FindWinner(r)
  <2>1. Dated(mem[r].date) # {}
    BY <1>0, <1>1 DEF FindTarget, FindWinner, At, Await, Finish, Goto, Framed
  <2>2. PICK l \in Dated(mem[r].date) : WithTarget(r, l)
    BY <1>1, <2>1 DEF FindTarget, FindWinner
  <2>3. mem'[r] = [date |-> mem[r].date, target |-> l]
    BY <1>0, <2>2 DEF WithTarget, Keep, Framed
  <2> QED BY <2>2, <2>3 DEF Dated
<1>2. CASE InsertTarget(r)
  <2>1. /\ Dated(mem[r].date) = {} /\ pc'[r] = "room"
        /\ mem' = [mem EXCEPT ![r] = [date |-> mem[r].date, target |-> r]]
        /\ todo' = [todo EXCEPT !.list[r] = mem[r].date]
    BY <1>0, <1>2 DEF InsertTarget, Framed
  <2>2. Inserts(r)
    BY <1>2, <2>1 DEF InsertTarget, At, Inserts, InsertsLists
  <2> QED BY <1>0, <2>1, <2>2 DEF Framed
<1>3. CASE CountTasks(r)
  BY <1>0, <1>3 DEF CountTasks, At, Await, Finish, Goto, Framed
<1> QED BY <1>0, <1>1, <1>2, <1>3, ComesFrom

LEMMA ListNewStep ==
    ASSUME TodoInv, NEW r \in Request, TodoStep(r) \/ (Abort(r) /\ TodoStays), NEW q \in Request
    PROVE  ListNew(q)'
<1>0. TodoTyped /\ Framed /\ ListNew(q) /\ Request \subseteq TodoIds
  BY TodoAssumption DEF TodoInv, TodoTyped
<1> SUFFICES ASSUME ~Ended(q)', pc'[q] \notin {"room", "move"}
             PROVE  /\ todo'.list[q] = Nothing
                    /\ \A p \in Request : pc'[p] \in {"room", "move"} => mem'[p].target # q
  BY DEF ListNew
<1>1. ~Ended(q) /\ pc[q] \notin {"room", "move"} /\ (q = r => ~Inserts(r))
  <2>1. CASE q # r
    BY <1>0, <2>1, TodoMoves, OthersStay DEF Ended
  <2>2. CASE q = r
    <3>1. ~Ended(r)
      BY TodoMoves
    <3>2. ~Inserts(r)
      BY <2>2 DEF Inserts, Ended
    <3>3. pc[r] \notin {"room", "move"}
      <4>1. ASSUME pc[r] = "room" PROVE Ended(r)' \/ pc'[r] = "move"
        <5>1. CountTasks(r) \/ Abort(r)
          BY <4>1 DEF TodoStep, FindDate, LockLists, CountLists, InsertList, DropList, FindList,
                      InsertTask, RequireList, RequireTask, UpdateTask, RemoveTask, FindTask,
                      FindTarget, InsertTarget, FindWinner, MoveTask, At
        <5> QED BY <1>0, <5>1 DEF CountTasks, Abort, Finish, Await, Goto, Framed, Ended
      <4>2. ASSUME pc[r] = "move" PROVE Ended(r)'
        <5>1. MoveTask(r) \/ Abort(r)
          BY <4>2 DEF TodoStep, FindDate, LockLists, CountLists, InsertList, DropList, FindList,
                      InsertTask, RequireList, RequireTask, UpdateTask, RemoveTask, FindTask,
                      FindTarget, InsertTarget, FindWinner, CountTasks, At
        <5> QED BY <1>0, <5>1 DEF MoveTask, Abort, Finish, Goto, Framed, Ended
      <4> QED BY <2>2, <4>1, <4>2
    <3> QED BY <2>2, <3>1, <3>2, <3>3
  <2> QED BY <2>1, <2>2
<1>2. todo.list[q] = Nothing /\ \A p \in Request : pc[p] \in {"room", "move"} => mem[p].target # q
  BY <1>0, <1>1 DEF ListNew
<1>3. todo'.list[q] = Nothing
  BY <1>0, <1>1, <1>2, ListsChange
<1>4. ASSUME NEW p \in Request, pc'[p] \in {"room", "move"} PROVE mem'[p].target # q
  <2>1. CASE p # r
    BY <1>0, <1>2, <1>4, <2>1, TodoMoves, OthersStay
  <2>2. CASE p = r
    <3>1. q \notin TodoLists
      BY <1>2 DEF TodoLists
    <3> QED BY <1>1, <1>2, <1>4, <2>2, <3>1, TargetFound
  <2> QED BY <2>1, <2>2
<1> QED BY <1>3, <1>4

(* The cap, one list to a date, and pushes by one day.                     *)
LEMMA ListsSoundStep ==
    ASSUME TodoInv, NEW r \in Request, TodoStep(r) \/ (Abort(r) /\ TodoStays)
    PROVE  ListsSound'
<1>0. /\ TodoTyped /\ ListsSound /\ IsFiniteSet(TodoLists)
      /\ Cardinality(TodoLists) \in Nat /\ MaxLists \in Nat
  BY TodoListsFinite, TodoAssumption DEF TodoInv
<1>1. Cardinality(TodoLists)' <= MaxLists
  <2>1. CASE Inserts(r)
    <3>1. TodoLists' \subseteq TodoLists \cup {r}
      BY <1>0, ListsChange DEF TodoLists, TodoTyped
    <3>2. Cardinality(TodoLists) < MaxLists
      BY <2>1 DEF TodoInv, Inserts, CountHeld
    <3>3. /\ IsFiniteSet(TodoLists \cup {r})
          /\ Cardinality(TodoLists \cup {r}) <= Cardinality(TodoLists) + 1
          /\ Cardinality(TodoLists \cup {r}) \in Nat
      <4>1. /\ IsFiniteSet(TodoLists \cup {r})
            /\ Cardinality(TodoLists \cup {r}) \in {Cardinality(TodoLists), Cardinality(TodoLists) + 1}
        BY <1>0, FS_AddElement
      <4> QED BY <1>0, <4>1
    <3>4. Cardinality(TodoLists') <= Cardinality(TodoLists \cup {r}) /\ Cardinality(TodoLists') \in Nat
      BY <3>1, <3>3, FS_Subset, FS_CardinalityType
    <3> QED BY <1>0, <3>2, <3>3, <3>4
  <2>2. CASE ~Inserts(r)
    <3>1. TodoLists' \subseteq TodoLists
      BY <1>0, <2>2, ListsChange DEF TodoLists, TodoTyped
    <3>2. Cardinality(TodoLists') <= Cardinality(TodoLists) /\ Cardinality(TodoLists') \in Nat
      BY <1>0, <3>1, FS_Subset, FS_CardinalityType
    <3> QED BY <1>0, <3>2 DEF ListsSound
  <2> QED BY <2>1, <2>2
<1> USE DEF TodoInv, TodoTyped
<1>2. ASSUME NEW l \in TodoLists' PROVE Dated(todo.list[l])' = {l}
  <2>1. ASSUME NEW m \in TodoLists', todo'.list[m] = todo'.list[l] PROVE m = l
    <3>1. \A n \in TodoLists : Dated(todo.list[n]) = {n}
      BY DEF ListsSound
    <3>2. \A n \in TodoLists' :
            \/ n \in TodoLists /\ todo'.list[n] = todo.list[n]
            \/ n = r /\ Inserts(r) /\ todo'.list[n] = mem[r].date
      BY ListsChange DEF TodoLists
    <3>3. ASSUME NEW n \in TodoLists, Inserts(r) PROVE todo.list[n] # mem[r].date
      BY <3>3 DEF Inserts, Dated
    <3>4. CASE m \in TodoLists /\ l \in TodoLists /\ todo'.list[m] = todo.list[m] /\ todo'.list[l] = todo.list[l]
      BY <2>1, <3>1, <3>4 DEF Dated
    <3> QED BY <1>2, <2>1, <3>2, <3>3, <3>4
  <2> QED BY <1>2, <2>1 DEF Dated
<1>3. \A t \in DOMAIN todo'.task : todo'.task[t] # Nothing => todo'.task[t].list \in TodoLists'
  BY TasksChange
<1>4. ASSUME NEW q \in Request, todo'.pushed[q] # Nothing
      PROVE  todo'.pushed[q][2] = todo'.pushed[q][1] + 1
  <2>1. CASE todo'.pushed = todo.pushed
    BY <1>4, <2>1 DEF ListsSound
  <2>2. CASE MoveTask(r) /\ todo' # todo
    <3> DEFINE l == mem[r].target
    <3>1. todo'.pushed = [todo.pushed EXCEPT ![r] = <<mem[r].date - 1, todo.list[l]>>] /\ todo.list[l] # Nothing
      BY <2>2 DEF MoveTask
    <3>2. todo.list[l] = mem[r].date /\ mem[r].date \in Int
      BY <2>2, <3>1 DEF MoveTask, At, ForDate, InsertsLists
    <3>3. CASE q = r
      <4>1. todo'.pushed[q] = <<mem[r].date - 1, mem[r].date>>
        BY <3>1, <3>2, <3>3
      <4> HIDE DEF l, TodoInv, TodoTyped
      <4> QED BY <3>2, <4>1
    <3>4. CASE q # r
      BY <1>4, <3>1, <3>4 DEF ListsSound
    <3> QED BY <3>3, <3>4
  <2>3. CASE Inserts(r) \/ DropList(r) \/ InsertTask(r) \/ UpdateTask(r) \/ RemoveTask(r) \/ TodoStays
    <3>1. CASE Inserts(r) \/ DropList(r) \/ TodoStays
      BY <2>1, <3>1 DEF Inserts, DropList, TodoStays
    <3>2. CASE InsertTask(r) \/ RemoveTask(r)
      BY <2>1, <3>2 DEF InsertTask, RemoveTask
    <3>3. CASE UpdateTask(r)
      BY <2>1, <3>3 DEF UpdateTask
    <3> QED BY <2>3, <3>1, <3>2, <3>3
  <2> QED BY <2>1, <2>2, <2>3, TodoChanges
<1> QED BY <1>1, <1>2, <1>3, <1>4 DEF ListsSound

(* However creates, pushes and removals race: no more lists than the cap,  *)
(* one to a date, every task on a list, every push by one day.             *)
THEOREM ListsStaySound == TodoSpec => []ListsSound
<1>1. TodoInv /\ [TodoNext]_<<requests, todo>> => TodoInv'
  <2> SUFFICES ASSUME TodoInv, [TodoNext]_<<requests, todo>> PROVE TodoInv'
    OBVIOUS
  <2>1. CASE UNCHANGED <<requests, todo>>
    <3>1. TodoTyped' /\ Apart' /\ TodoLists' = TodoLists
      BY <2>1 DEF requests, TodoInv, TodoTyped, Framed, Apart, TodoLists
    <3>2. \A q \in Request : CountHeld(q)' /\ ForDate(q)' /\ ListNew(q)'
      BY <2>1, <3>1 DEF requests, TodoInv, CountHeld, ForDate, ListNew, Ended, InsertsLists
    <3>3. ListsSound'
      BY <2>1, <3>1 DEF TodoInv, ListsSound, Dated
    <3> QED BY <3>1, <3>2, <3>3 DEF TodoInv
  <2>2. ASSUME NEW r \in Request, TodoStep(r) \/ (Abort(r) /\ TodoStays) PROVE TodoInv'
    <3>1. TodoTyped' /\ Apart'
      BY <2>2, TodoMoves, OthersStay, ListsChange, TasksChange DEF TodoInv, TodoTyped
    <3>2. \A q \in Request : CountHeld(q)' /\ ForDate(q)' /\ ListNew(q)'
      BY <2>2, CountHeldStep, ForDateStep, ListNewStep
    <3> QED BY <2>2, <3>1, <3>2, ListsSoundStep DEF TodoInv
  <2> QED BY <2>1, <2>2 DEF TodoNext
<1>2. TodoInv => ListsSound
  BY DEF TodoInv
<1> QED BY <1>1, <1>2, TodoStarts, PTL DEF TodoSpec

(***************************************************************************)
(* Payments, refunds and invoices                                          *)
(***************************************************************************)
BillNext == \E r \in Request : BillStep(r) \/ (Abort(r) /\ Stay)

BillSpec == RequestsInit /\ BillInit /\ [][BillNext]_<<requests, bill>>

Priced(plan) == plan \in PlanRow \cup {Nothing}

BillTyped ==
    /\ Framed
    /\ \A r \in Request : BodyFits(body[r])
    /\ DOMAIN bill = {"plan", "coupon", "payment", "refund", "invoice", "on", "moved", "audit"}
    /\ bill.payment \in [PaymentIds -> PaymentRow \cup {Nothing}]
    /\ DOMAIN bill.refund = PaymentIds /\ DOMAIN bill.invoice = PaymentIds
    /\ Request \subseteq DOMAIN bill.audit
    /\ DOMAIN bill.plan = DOMAIN BillStart.plan
    /\ \A p \in DOMAIN bill.plan : Priced(bill.plan[p])

(* A request that is under way has left nothing in the tables yet.         *)
Unpaid(r) ==
    ~Ended(r) =>
        /\ bill.payment[r] = Nothing /\ bill.invoice[r] = Nothing /\ bill.refund[r] = Nothing
        /\ bill.audit[r] # "refund"

(* The payment a request has found is still there; it is retried only as   *)
(* long as it has failed, and a refund is no more than what was paid.      *)
Found(r) ==
    /\ At(r, "retry", "pay") =>
          bill.payment[body[r].id] # Nothing /\ bill.payment[body[r].id].status \in {"FAILED", "PENDING"}
    /\ At(r, "refund", "pay") =>
          bill.payment[body[r].id] # Nothing /\ body[r].amount <= bill.payment[body[r].id].amount

(* The number a request has worked out is the next one or a taken one.     *)
Numbered(r) ==
    /\ At(r, "simulate", "number") => mem[r] \in Int
    /\ At(r, "simulate", "invoice") =>
          mem[r].price \in Int /\ mem[r].number \in 1 .. Cardinality(BillRows("invoice")) + 1

Refunders(i) == {r \in Request : bill.audit[r] = "refund" /\ body[r].id = i}

RefundsKnown == \A i \in PaymentIds : bill.refund[i] = Nothing => Refunders(i) = {}

BillInv ==
    /\ BillTyped
    /\ \A r \in Request : Unpaid(r) /\ Found(r) /\ Numbered(r)
    /\ RefundsKnown /\ PaymentsInOrder

LEMMA BillStarts == RequestsInit /\ BillInit => BillInv
<1> SUFFICES ASSUME RequestsInit, BillInit PROVE BillInv
  OBVIOUS
<1> USE BillAssumption DEF BillInit
<1>1. \A r \in Request : BodyFits(body[r])
  <2>1. \A r \in Request : body[r].op # "none" => \E s \in Scenario : body[r] \in s.bodies
    BY RequestsStart DEF NoBody
  <2> QED BY <2>1, BillBodies DEF BodyFits, PaymentIds
<1>2. BillTyped
  BY <1>1, RequestsStart DEF BillTyped, PaymentIds, Priced
<1>3. \A r \in Request : Unpaid(r) /\ Found(r) /\ Numbered(r)
  <2>1. \A r \in Request : bill.audit[r] # "refund"
    OBVIOUS
  <2> QED BY <2>1, RequestsStart DEF Unpaid, Found, Numbered, At
<1>4. RefundsKnown /\ RefundsWithinPaid
  <2>1. \A r \in Request : bill.audit[r] # "refund"
    OBVIOUS
  <2>2. \A i \in PaymentIds : Refunders(i) = {}
    BY <2>1 DEF Refunders
  <2> QED BY <2>2 DEF RefundsKnown, RefundsWithinPaid, BillRows, PaymentIds
<1>5. InvoicesInOrder
  <2> DEFINE invoiced == {i \in PaymentIds : BillStart.invoice[i] # Nothing}
  <2>1. bill = BillStart /\ DOMAIN bill.invoice = PaymentIds /\ DOMAIN bill.payment = PaymentIds
    OBVIOUS
  <2>2. {BillStart.invoice[i] : i \in invoiced} = 1 .. Cardinality(invoiced)
    BY Zenon, BillAssumption
  <2>3. BillRows("invoice") = invoiced
    BY ONLY <2>1 DEF BillRows
  <2>4. {bill.invoice[i] : i \in BillRows("invoice")} = 1 .. Cardinality(BillRows("invoice"))
    BY ONLY <2>1, <2>2, <2>3
  <2>5. \A i \in PaymentIds : bill.payment[i] # Nothing =>
            bill.payment[i].status # "REFUNDED" /\ (bill.payment[i].status = "SUCCESS" => i \in invoiced)
    BY <2>1
  <2>6. Kept \subseteq BillRows("invoice")
    BY ONLY <2>1, <2>3, <2>5 DEF Kept, BillRows
  <2> QED BY ONLY <2>4, <2>6 DEF InvoicesInOrder
<1> QED BY <1>2, <1>3, <1>4, <1>5 DEF BillInv, PaymentsInOrder

LEMMA BillMoves ==
    ASSUME NEW r \in Request, BillStep(r) \/ Abort(r)
    PROVE  Moves(r) /\ ~Ended(r)
<1> USE FinishMoves, AwaitMoves, KeepMoves DEF At, Ended
<1>1. CASE CreateCoupon(r) \/ InsertCoupon(r) \/ FindCoupon(r) \/ UpdateCoupon(r) \/ RemoveCoupon(r)
  BY <1>1 DEF CreateCoupon, InsertCoupon, FindCoupon, UpdateCoupon, RemoveCoupon
<1>2. CASE CreatePlan(r) \/ InsertPlan(r) \/ FindPlan(r) \/ UpdatePlan(r) \/ CountPlanUses(r)
  BY <1>2 DEF CreatePlan, InsertPlan, FindPlan, UpdatePlan, CountPlanUses
<1>3. CASE RemovePlan(r) \/ FindNewPlan(r) \/ MoveWorkspace(r)
  BY <1>3 DEF RemovePlan, FindNewPlan, MoveWorkspace
<1>4. CASE FindPayment(r) \/ Retry(r) \/ Refund(r)
  BY <1>4 DEF FindPayment, Retry, Refund
<1>5. CASE SimulateLook(r) \/ CountInvoices(r) \/ PayAndInvoice(r)
  BY <1>5 DEF SimulateLook, CountInvoices, PayAndInvoice
<1>6. CASE Abort(r)
  BY <1>6, AbortMoves DEF Abort
<1> QED BY <1>1, <1>2, <1>3, <1>4, <1>5, <1>6 DEF BillStep
(* A step of r that touches neither payments nor refunds nor invoices.     *)
Quiet(r) ==
    /\ DOMAIN bill' = DOMAIN bill
    /\ bill'.payment = bill.payment /\ bill'.refund = bill.refund /\ bill'.invoice = bill.invoice
    /\ DOMAIN bill'.plan = DOMAIN bill.plan /\ \A p \in DOMAIN bill.plan : Priced(bill'.plan[p])
    /\ DOMAIN bill'.audit = DOMAIN bill.audit
    /\ \A q \in Request : bill'.audit[q] # bill.audit[q] => q = r /\ bill'.audit[q] # "refund"

LEMMA StayQuiet == ASSUME BillTyped, NEW r \in Request, bill' = bill PROVE Quiet(r)
BY DEF Quiet, BillTyped

LEMMA LoggedQuiet ==
    ASSUME BillTyped, NEW r \in Request, body[r].op # "refund", NEW t,
           DOMAIN t = DOMAIN bill, t.payment = bill.payment, t.refund = bill.refund,
           t.invoice = bill.invoice, t.audit = bill.audit,
           DOMAIN t.plan = DOMAIN bill.plan, \A p \in DOMAIN bill.plan : Priced(t.plan[p]),
           bill' = LoggedBy(r, t)
    PROVE  Quiet(r)
<1>1. bill'.audit = [bill.audit EXCEPT ![r] = body[r].op]
  BY DEF LoggedBy, BillTyped
<1>2. DOMAIN bill' = DOMAIN bill /\ bill'.payment = bill.payment /\ bill'.refund = bill.refund
      /\ bill'.invoice = bill.invoice /\ bill'.plan = t.plan
  BY DEF LoggedBy, BillTyped
<1> QED BY <1>1, <1>2 DEF Quiet, BillTyped

(* An edited plan is one.                                                  *)
LEMMA MergedPriced ==
    ASSUME NEW row \in PlanRow, NEW given, DOMAIN given \subseteq {"slug", "active", "price", "cycle"},
           "slug" \in DOMAIN given => given.slug \in STRING,
           "active" \in DOMAIN given => given.active \in BOOLEAN,
           "price" \in DOMAIN given => given.price \in Nat,
           "cycle" \in DOMAIN given => given.cycle \in {"FREE", "MONTHLY", "YEARLY"}
    PROVE  Merged(row, given) \in PlanRow
<1> DEFINE fields == {"slug", "active", "price", "cycle"}
           new == Merged(row, given)
<1>1. DOMAIN row = fields
  BY DEF PlanRow
<1>2. new = [f \in fields |-> IF f \in DOMAIN given THEN given[f] ELSE row[f]]
  BY <1>1 DEF Merged
<1>3. new.slug \in STRING /\ new.active \in BOOLEAN /\ new.price \in Nat
      /\ new.cycle \in {"FREE", "MONTHLY", "YEARLY"}
  BY <1>2 DEF PlanRow
<1>4. new = [slug |-> new.slug, active |-> new.active, price |-> new.price, cycle |-> new.cycle]
  BY <1>2
<1> HIDE DEF new
<1>5. new \in PlanRow
  BY <1>3, <1>4 DEF PlanRow
<1> QED BY <1>5 DEF new

LEMMA PlansQuiet ==
    ASSUME BillTyped, NEW r \in Request, InsertPlan(r) \/ UpdatePlan(r) \/ RemovePlan(r)
    PROVE  Quiet(r)
<1> USE DEF BillTyped
<1>0. CASE bill' = bill
  BY <1>0, StayQuiet
<1>1. CASE InsertPlan(r)
  <2>1. Priced(body[r].row)
    BY <1>1 DEF InsertPlan, At, BodyFits, Priced
  <2>2. CASE bill' = [bill EXCEPT !.plan[r] = body[r].row]
    BY <2>1, <2>2 DEF Quiet
  <2> QED BY <1>0, <1>1, <2>2 DEF InsertPlan
<1>2. CASE UpdatePlan(r)
  <2> DEFINE i == body[r].id
             m == Merged(bill.plan[i], body[r].row)
             t == [bill EXCEPT !.plan[i] = m]
  <2>1. CASE bill.plan[i] # Nothing /\ bill' = LoggedBy(r, t)
    <3>1. body[r].op # "refund"
      BY <1>2 DEF UpdatePlan
    <3>2. i \in DOMAIN bill.plan => Priced(m)
      <4>1. i \in DOMAIN bill.plan => bill.plan[i] \in PlanRow
        BY <2>1 DEF Priced
      <4>2. BodyFits(body[r]) /\ body[r].op \in {"edit-plan", "archive-plan"}
        BY <1>2 DEF UpdatePlan
      <4> QED BY <4>1, <4>2, MergedPriced DEF BodyFits, Priced
    <3> HIDE DEF m
    <3>3. /\ DOMAIN t = DOMAIN bill /\ t.payment = bill.payment /\ t.refund = bill.refund
          /\ t.invoice = bill.invoice /\ t.audit = bill.audit /\ t.plan = [bill.plan EXCEPT ![i] = m]
      OBVIOUS
    <3> HIDE DEF t
    <3> QED BY <2>1, <3>1, <3>2, <3>3, LoggedQuiet
  <2> QED BY <1>0, <1>2, <2>1 DEF UpdatePlan
<1>3. CASE RemovePlan(r)
  <2> DEFINE p == body[r].id
             t == [bill EXCEPT !.plan[p] = Nothing,
                               !.on = [w \in DOMAIN @ |-> IF @[w].plan = p
                                                          THEN [@[w] EXCEPT !.plan = Nothing] ELSE @[w]]]
  <2>1. CASE bill' = LoggedBy(r, t)
    <3>1. body[r].op # "refund"
      BY <1>3 DEF RemovePlan, At
    <3>2. /\ DOMAIN t = DOMAIN bill /\ t.payment = bill.payment /\ t.refund = bill.refund
          /\ t.invoice = bill.invoice /\ t.audit = bill.audit /\ t.plan = [bill.plan EXCEPT ![p] = Nothing]
      OBVIOUS
    <3> HIDE DEF t
    <3>3. \A q \in DOMAIN bill.plan : Priced(t.plan[q])
      BY <3>2 DEF Priced
    <3> QED BY <2>1, <3>1, <3>2, <3>3, LoggedQuiet
  <2> QED BY <1>0, <1>3, <2>1 DEF RemovePlan
<1> QED BY <1>1, <1>2, <1>3

LEMMA CouponsQuiet ==
    ASSUME BillTyped, NEW r \in Request, InsertCoupon(r) \/ UpdateCoupon(r) \/ RemoveCoupon(r)
    PROVE  Quiet(r)
<1>1. PICK i, c : bill' = bill \/ bill' = LoggedBy(r, [bill EXCEPT !.coupon[i] = c])
  <2>1. CASE InsertCoupon(r)
    BY <2>1 DEF InsertCoupon
  <2>2. CASE UpdateCoupon(r)
    BY <2>2 DEF UpdateCoupon
  <2>3. CASE RemoveCoupon(r)
    BY <2>3 DEF RemoveCoupon
  <2> QED BY <2>1, <2>2, <2>3
<1>2. body[r].op # "refund"
  BY DEF InsertCoupon, UpdateCoupon, RemoveCoupon, At
<1> DEFINE t == [bill EXCEPT !.coupon[i] = c]
<1>3. /\ DOMAIN t = DOMAIN bill /\ t.payment = bill.payment /\ t.refund = bill.refund
      /\ t.invoice = bill.invoice /\ t.audit = bill.audit /\ t.plan = bill.plan
  BY DEF BillTyped
<1>4. \A q \in DOMAIN bill.plan : Priced(t.plan[q])
  BY <1>3 DEF BillTyped
<1> HIDE DEF t
<1>5. CASE bill' = LoggedBy(r, t)
  BY <1>2, <1>3, <1>4, <1>5, LoggedQuiet
<1> QED BY <1>1, <1>5, StayQuiet DEF t

LEMMA MoveQuiet == ASSUME BillTyped, NEW r \in Request, MoveWorkspace(r) PROVE Quiet(r)
<1> DEFINE b == body[r]
           t == [bill EXCEPT !.on[b.workspace].plan = b.plan,
                             !.moved[r] = <<b.workspace, mem[r], b.plan>>]
<1>1. body[r].op # "refund"
  BY DEF MoveWorkspace, At
<1>2. /\ DOMAIN t = DOMAIN bill /\ t.payment = bill.payment /\ t.refund = bill.refund
      /\ t.invoice = bill.invoice /\ t.audit = bill.audit /\ t.plan = bill.plan
  BY DEF BillTyped
<1>3. \A q \in DOMAIN bill.plan : Priced(t.plan[q])
  BY <1>2 DEF BillTyped
<1>4. bill' = bill \/ bill' = LoggedBy(r, t)
  BY DEF MoveWorkspace
<1> HIDE DEF t
<1> QED BY <1>1, <1>2, <1>3, <1>4, LoggedQuiet, StayQuiet

LEMMA BillChanges ==
    ASSUME BillTyped, NEW r \in Request, BillStep(r) \/ (Abort(r) /\ Stay)
    PROVE  Quiet(r) \/ Retry(r) \/ Refund(r) \/ PayAndInvoice(r)
<1>1. CASE Stay
  BY <1>1, StayQuiet DEF Stay
<1>2. CASE CreateCoupon(r) \/ FindCoupon(r) \/ CreatePlan(r) \/ FindPlan(r) \/ CountPlanUses(r)
  BY <1>1, <1>2 DEF CreateCoupon, FindCoupon, CreatePlan, FindPlan, CountPlanUses
<1>3. CASE FindNewPlan(r) \/ FindPayment(r) \/ SimulateLook(r) \/ CountInvoices(r)
  BY <1>1, <1>3 DEF FindNewPlan, FindPayment, SimulateLook, CountInvoices
<1> QED BY <1>1, <1>2, <1>3, PlansQuiet, CouponsQuiet, MoveQuiet DEF BillStep
(* Which step takes a request to where something is assumed of it.         *)
LEMMA BillComesFrom ==
    ASSUME BillTyped, NEW r \in Request, BillStep(r) \/ (Abort(r) /\ Stay)
    PROVE  /\ body[r].op \in {"retry", "refund"} /\ pc'[r] = "pay" => FindPayment(r)
           /\ body[r].op = "simulate" /\ pc'[r] = "number" => SimulateLook(r)
           /\ body[r].op = "simulate" /\ pc'[r] = "invoice" => CountInvoices(r)
<1> USE DEF BillTyped
<1>1. CASE CreateCoupon(r) \/ InsertCoupon(r) \/ FindCoupon(r) \/ UpdateCoupon(r) \/ RemoveCoupon(r)
  BY <1>1 DEF CreateCoupon, InsertCoupon, FindCoupon, UpdateCoupon, RemoveCoupon, At
<1>2. CASE CreatePlan(r) \/ InsertPlan(r) \/ FindPlan(r) \/ UpdatePlan(r) \/ CountPlanUses(r)
  BY <1>2 DEF CreatePlan, InsertPlan, FindPlan, UpdatePlan, CountPlanUses, At
<1>3. CASE RemovePlan(r) \/ FindNewPlan(r) \/ MoveWorkspace(r)
  BY <1>3 DEF RemovePlan, FindNewPlan, MoveWorkspace, At
<1>4. CASE Retry(r) \/ Refund(r) \/ PayAndInvoice(r)
  BY <1>4, FinishGoes DEF Retry, Refund, PayAndInvoice
<1>5. CASE Abort(r)
  BY <1>5, AbortGoes
<1>6. CASE FindPayment(r)
  BY <1>6 DEF FindPayment
<1>7. CASE SimulateLook(r)
  BY <1>7, FinishGoes, KeepGoes DEF SimulateLook, At
<1>8. CASE CountInvoices(r)
  BY <1>8, KeepGoes DEF CountInvoices, At
<1> QED BY <1>1, <1>2, <1>3, <1>4, <1>5, <1>6, <1>7, <1>8 DEF BillStep

LEMMA BillFrame ==
    ASSUME BillTyped, NEW r \in Request, BillStep(r) \/ (Abort(r) /\ Stay)
    PROVE  /\ Framed' /\ body' = body /\ ~Ended(r)
           /\ \A q \in Request \ {r} : pc'[q] = pc[q] /\ mem'[q] = mem[q]
           /\ \A q \in Request : ~Ended(q)' => ~Ended(q)
<1>1. Framed' /\ body' = body /\ ~Ended(r)
      /\ \A q \in Request \ {r} : pc'[q] = pc[q] /\ mem'[q] = mem[q]
  BY BillMoves, OthersStay DEF BillTyped
<1> QED BY <1>1 DEF Ended

LEMMA QuietStep ==
    ASSUME BillInv, NEW r \in Request, BillStep(r) \/ (Abort(r) /\ Stay), Quiet(r)
    PROVE  BillInv'
<1> USE DEF BillInv
<1>0. /\ Framed' /\ body' = body
      /\ \A q \in Request \ {r} : pc'[q] = pc[q] /\ mem'[q] = mem[q]
      /\ \A q \in Request : ~Ended(q)' => ~Ended(q)
  BY BillFrame
<1>1. BillTyped'
  BY <1>0 DEF BillTyped, Quiet
<1>2. BillRows("invoice")' = BillRows("invoice") /\ BillRows("refund")' = BillRows("refund")
      /\ BillRows("payment")' = BillRows("payment")
  BY DEF BillRows, Quiet
<1>3. \A q \in Request : Unpaid(q)'
  BY <1>0 DEF Unpaid, Quiet
<1>4. \A i : Refunders(i)' = Refunders(i)
  <2>1. \A q \in Request : bill'.audit[q] = "refund" <=> bill.audit[q] = "refund"
    BY BillFrame DEF Quiet, Unpaid
  <2> QED BY <1>0, <2>1 DEF Refunders
<1>5. RefundsKnown' /\ InvoicesInOrder'
  BY <1>2, <1>4 DEF RefundsKnown, InvoicesInOrder, PaymentsInOrder, Quiet, Kept
<1>6. RefundsWithinPaid'
  <2>1. ASSUME NEW i \in BillRows("refund")
        PROVE  /\ bill'.payment[i].status = "REFUNDED"
               /\ bill'.refund[i].amount <= bill'.payment[i].amount
               /\ Cardinality(Refunders(i)') = 1
    <3>1. /\ bill.payment[i].status = "REFUNDED"
          /\ bill.refund[i].amount <= bill.payment[i].amount
          /\ Cardinality(Refunders(i)) = 1
      BY <2>1 DEF PaymentsInOrder, RefundsWithinPaid, Refunders
    <3> QED BY <1>4, <3>1 DEF Quiet
  <2> QED BY <1>2, <2>1 DEF RefundsWithinPaid, Refunders
<1>7. ASSUME NEW q \in Request \ {r} PROVE Found(q)' /\ Numbered(q)'
  BY <1>0, <1>2, <1>7 DEF Found, Numbered, At, Quiet
<1>8. Found(r)'
  <2>1. ASSUME At(r, "retry", "pay")' \/ At(r, "refund", "pay")' PROVE Found(r)'
    <3>1. FindPayment(r)
      BY <1>0, <2>1, BillComesFrom DEF At
    <3>2. pc'[r] # "done"
      BY <2>1 DEF At
    <3>3. /\ bill.payment[body[r].id] # Nothing
          /\ body[r].op = "retry" => bill.payment[body[r].id].status = "FAILED"
          /\ body[r].op = "refund" => ~(body[r].amount > bill.payment[body[r].id].amount)
      BY <3>1, <3>2, FinishGoes DEF FindPayment, BillTyped
    <3>4. body[r].op = "refund" => body[r].amount \in Int /\ bill.payment[body[r].id].amount \in Int
      BY <3>3 DEF BillTyped, BodyFits, PaymentRow
    <3> QED BY <1>0, <3>3, <3>4 DEF Found, At, Quiet
  <2> QED BY <2>1 DEF Found
<1>9. Numbered(r)'
  <2>1. ASSUME At(r, "simulate", "number")' PROVE mem'[r] \in Int
    <3>1. SimulateLook(r)
      BY <1>0, <2>1, BillComesFrom DEF At
    <3>2. bill.plan[body[r].plan] # Nothing /\ mem'[r] = bill.plan[body[r].plan].price
      BY <2>1, <3>1, FinishGoes, KeepGoes DEF SimulateLook, BillTyped, At
    <3>3. body[r].plan \in DOMAIN bill.plan
      BY <3>1 DEF SimulateLook, At, BillTyped, BodyFits, PlanIds
    <3> QED BY <3>2, <3>3 DEF BillTyped, Priced, PlanRow
  <2>2. ASSUME At(r, "simulate", "invoice")'
        PROVE  mem'[r].price \in Int /\ mem'[r].number \in 1 .. Cardinality(BillRows("invoice")') + 1
    <3>1. CountInvoices(r)
      BY <1>0, <2>2, BillComesFrom DEF At
    <3>2. mem'[r] = [price |-> mem[r], number |-> Cardinality(BillRows("invoice")) + 1]
      BY <3>1, KeepGoes DEF CountInvoices, BillTyped
    <3>3. mem[r] \in Int
      BY <3>1 DEF CountInvoices, Numbered
    <3>4. Cardinality(BillRows("invoice")) \in Nat
      BY FS_Subset, FS_CardinalityType, BillAssumption DEF BillRows, BillTyped, PaymentIds
    <3> QED BY <1>2, <3>2, <3>3, <3>4
  <2> QED BY <2>1, <2>2 DEF Numbered
<1> QED BY <1>1, <1>3, <1>5, <1>6, <1>7, <1>8, <1>9 DEF PaymentsInOrder
(* A payment whose status is set; nothing else of it changes.              *)
LEMMA StatusSet ==
    ASSUME BillTyped, NEW i \in PaymentIds, bill.payment[i] # Nothing,
           NEW s \in {"PENDING", "REFUNDED"}
    PROVE  LET row == [bill.payment[i] EXCEPT !.status = s]
           IN  /\ row \in PaymentRow /\ row # Nothing
               /\ row.status = s /\ row.amount = bill.payment[i].amount
<1>1. bill.payment[i] \in PaymentRow
  BY DEF BillTyped
<1> QED BY <1>1, BillAssumption DEF PaymentRow

(* What holds after a failed payment is retried, or a success refunded.    *)
LEMMA MarkStep ==
    ASSUME BillInv, NEW r \in Request, BillStep(r), Finish(r), body[r].op \in {"retry", "refund"},
           NEW i \in PaymentIds, bill.payment[i] # Nothing, NEW row \in PaymentRow,
           row.amount = bill.payment[i].amount,
           \/ row.status = "PENDING" /\ bill.payment[i].status \in {"FAILED", "PENDING"}
           \/ row.status = "REFUNDED" /\ bill.payment[i].status = "SUCCESS",
           DOMAIN bill' = DOMAIN bill, bill'.payment = [bill.payment EXCEPT ![i] = row],
           DOMAIN bill'.refund = DOMAIN bill.refund,
           \A j \in PaymentIds \ {i} : bill'.refund[j] = bill.refund[j], bill'.invoice = bill.invoice,
           bill'.plan = bill.plan, bill'.audit = [bill.audit EXCEPT ![r] = body[r].op]
    PROVE  /\ BillTyped' /\ InvoicesInOrder'
           /\ \A q \in Request : Unpaid(q)' /\ Found(q)' /\ Numbered(q)'
<1> USE DEF BillInv
<1>0. /\ Framed' /\ body' = body /\ ~Ended(r)
      /\ \A q \in Request \ {r} : pc'[q] = pc[q] /\ mem'[q] = mem[q]
      /\ \A q \in Request : ~Ended(q)' => ~Ended(q)
  BY BillFrame
<1>1. row # Nothing
  BY BillAssumption
<1>2. BillTyped'
  BY <1>0 DEF BillTyped
<1>3. BillRows("invoice")' = BillRows("invoice")
  BY DEF BillRows
<1>4. pc'[r] = "done"
  BY FinishGoes DEF BillTyped
<1>5. Kept' \subseteq Kept
  BY <1>1 DEF Kept, BillRows, BillTyped
<1>6. InvoicesInOrder'
  BY <1>3, <1>5 DEF PaymentsInOrder, InvoicesInOrder
<1>7. i # r /\ \A q \in Request : ~Ended(q)' => i # q
  BY <1>0 DEF Unpaid
<1>8. \A q \in Request : Unpaid(q)'
  <2>1. Request \subseteq PaymentIds
    BY BillAssumption DEF PaymentIds
  <2> QED BY <1>0, <1>4, <1>7, <2>1 DEF Unpaid, Ended, BillTyped
<1>9. ASSUME NEW q \in Request PROVE Found(q)' /\ Numbered(q)'
  <2>1. CASE q = r
    BY <1>4, <2>1 DEF Found, Numbered, At
  <2>2. CASE q # r
    <3>1. Numbered(q)'
      BY <1>0, <1>3, <2>2 DEF Numbered, At
    <3>2. Found(q)'
      BY <1>0, <1>1, <2>2 DEF Found, At, BillTyped
    <3> QED BY <3>1, <3>2
  <2> QED BY <2>1, <2>2
<1> QED BY <1>2, <1>6, <1>8, <1>9

LEMMA RetryStep == ASSUME BillInv, NEW r \in Request, Retry(r) PROVE BillInv'
<1> USE DEF BillInv
<1> DEFINE i == body[r].id
           row == [bill.payment[i] EXCEPT !.status = "PENDING"]
           t == [bill EXCEPT !.payment[i].status = "PENDING"]
<1>0. body' = body /\ ~Ended(r) /\ BillStep(r) /\ Finish(r) /\ body[r].op = "retry"
  BY BillFrame DEF BillStep, Retry, At
<1>1. /\ i \in PaymentIds /\ bill.payment[i] # Nothing
      /\ bill.payment[i].status \in {"FAILED", "PENDING"}
  BY DEF Retry, At, Found, BillTyped, BodyFits
<1>2. /\ row \in PaymentRow /\ row # Nothing
      /\ row.status = "PENDING" /\ row.amount = bill.payment[i].amount
  BY <1>1, StatusSet
<1>3. /\ DOMAIN bill' = DOMAIN bill /\ bill'.payment = [bill.payment EXCEPT ![i] = row]
      /\ bill'.refund = bill.refund /\ bill'.invoice = bill.invoice
      /\ bill'.plan = bill.plan /\ bill'.audit = [bill.audit EXCEPT ![r] = body[r].op]
  <2>1. /\ DOMAIN t = DOMAIN bill /\ t.payment = [bill.payment EXCEPT ![i] = row]
        /\ t.refund = bill.refund /\ t.invoice = bill.invoice
        /\ t.plan = bill.plan /\ t.audit = bill.audit
    BY DEF BillTyped
  <2>2. bill' = LoggedBy(r, t)
    BY DEF Retry
  <2> HIDE DEF t, row, i
  <2> QED BY <2>1, <2>2 DEF LoggedBy, BillTyped
<1> HIDE DEF row, t
<1>4. /\ BillTyped' /\ InvoicesInOrder'
      /\ \A q \in Request : Unpaid(q)' /\ Found(q)' /\ Numbered(q)'
  BY <1>0, <1>1, <1>2, <1>3, MarkStep
<1>5. \A j : Refunders(j)' = Refunders(j)
  BY <1>0, <1>3 DEF Refunders, Unpaid, BillTyped
<1>6. RefundsKnown'
  BY <1>3, <1>5 DEF RefundsKnown
<1>7. RefundsWithinPaid'
  <2>1. ASSUME NEW j \in BillRows("refund")
        PROVE  /\ bill'.payment[j].status = "REFUNDED"
               /\ bill'.refund[j].amount <= bill'.payment[j].amount
               /\ Cardinality(Refunders(j)') = 1
    <3>1. /\ bill.payment[j].status = "REFUNDED"
          /\ bill.refund[j].amount <= bill.payment[j].amount
          /\ Cardinality(Refunders(j)) = 1
      BY <2>1 DEF PaymentsInOrder, RefundsWithinPaid, Refunders
    <3>2. j # i
      BY <1>1, <3>1
    <3>3. bill'.payment[j] = bill.payment[j] /\ bill'.refund[j] = bill.refund[j]
      BY <1>3, <2>1, <3>2 DEF BillRows, BillTyped
    <3> QED BY <1>5, <3>1, <3>3
  <2>2. BillRows("refund")' = BillRows("refund")
    BY <1>3 DEF BillRows
  <2> QED BY <2>1, <2>2 DEF RefundsWithinPaid, Refunders
<1> QED BY <1>4, <1>6, <1>7 DEF PaymentsInOrder
LEMMA RefundStep == ASSUME BillInv, NEW r \in Request, Refund(r) PROVE BillInv'
<1> USE DEF BillInv
<1> PICK i : i = body[r].id
  OBVIOUS
<1> DEFINE row == [bill.payment[i] EXCEPT !.status = "REFUNDED"]
           back == [amount |-> body[r].amount, at |-> Now]
           t == [bill EXCEPT !.payment[i].status = "REFUNDED", !.refund[i] = back]
<1>0. body' = body /\ ~Ended(r) /\ BillStep(r) /\ Finish(r) /\ body[r].op = "refund"
  BY BillFrame DEF BillStep, Refund, At
<1>1. /\ i \in PaymentIds /\ bill.payment[i] # Nothing
      /\ body[r].amount <= bill.payment[i].amount
  BY DEF Refund, At, Found, BillTyped, BodyFits
<1>2. CASE bill.payment[i].status # "SUCCESS"
  BY <1>0, <1>2, StayQuiet, QuietStep DEF Refund
<1>3. CASE bill.payment[i].status = "SUCCESS"
  <2>1. /\ row \in PaymentRow /\ row # Nothing
        /\ row.status = "REFUNDED" /\ row.amount = bill.payment[i].amount
    BY <1>1, StatusSet
  <2>2. /\ DOMAIN bill' = DOMAIN bill /\ bill'.payment = [bill.payment EXCEPT ![i] = row]
        /\ bill'.refund = [bill.refund EXCEPT ![i] = back] /\ bill'.invoice = bill.invoice
        /\ bill'.plan = bill.plan /\ bill'.audit = [bill.audit EXCEPT ![r] = body[r].op]
    <3>1. /\ DOMAIN t = DOMAIN bill /\ t.payment = [bill.payment EXCEPT ![i] = row]
          /\ t.refund = [bill.refund EXCEPT ![i] = back] /\ t.invoice = bill.invoice
          /\ t.plan = bill.plan /\ t.audit = bill.audit
      BY DEF BillTyped
    <3>2. bill' = LoggedBy(r, t)
      BY <1>3 DEF Refund
    <3> HIDE DEF t, row, back
    <3> QED BY <3>1, <3>2 DEF LoggedBy, BillTyped
  <2>3. back.amount = body[r].amount
    OBVIOUS
  <2> HIDE DEF row, t, back
  <2>4. /\ BillTyped' /\ InvoicesInOrder'
        /\ \A q \in Request : Unpaid(q)' /\ Found(q)' /\ Numbered(q)'
    BY <1>0, <1>1, <1>3, <2>1, <2>2, MarkStep
  <2>5. bill.refund[i] = Nothing /\ Refunders(i) = {}
    BY <1>1, <1>3 DEF PaymentsInOrder, RefundsWithinPaid, BillRows, BillTyped, RefundsKnown
  <2>6. /\ bill'.audit[r] = "refund"
        /\ \A q \in Request \ {r} : bill'.audit[q] = bill.audit[q]
    BY <1>0, <2>2 DEF BillTyped
  <2>7. Refunders(i)' = {r} /\ \A j : j # i => Refunders(j)' = Refunders(j)
    BY <1>0, <2>5, <2>6 DEF Refunders, Unpaid
  <2>8. /\ bill'.refund[i] = back /\ bill'.payment[i] = row
        /\ \A j \in PaymentIds \ {i} :
             bill'.refund[j] = bill.refund[j] /\ bill'.payment[j] = bill.payment[j]
    BY <1>1, <2>2 DEF BillTyped
  <2>9. back # Nothing
    BY <1>0, BillAssumption DEF back, BillTyped, BodyFits, RefundRow
  <2>10. RefundsKnown'
    BY <2>7, <2>8, <2>9 DEF RefundsKnown
  <2>11. Cardinality({r}) = 1
    BY FS_Singleton
  <2>12. ASSUME NEW j \in BillRows("refund") \cup {i}
         PROVE  /\ bill'.payment[j].status = "REFUNDED"
                /\ bill'.refund[j].amount <= bill'.payment[j].amount
                /\ Cardinality(Refunders(j)') = 1
    <3>1. CASE j = i
      BY <1>1, <2>1, <2>3, <2>7, <2>8, <2>11, <3>1
    <3>2. CASE j # i
      <4>1. /\ bill.payment[j].status = "REFUNDED"
            /\ bill.refund[j].amount <= bill.payment[j].amount
            /\ Cardinality(Refunders(j)) = 1
        BY <2>12, <3>2 DEF PaymentsInOrder, RefundsWithinPaid, Refunders
      <4>2. j \in PaymentIds
        BY <2>12, <3>2 DEF BillRows, BillTyped
      <4> QED BY <2>7, <2>8, <3>2, <4>1, <4>2
    <3> QED BY <3>1, <3>2
  <2>13. BillRows("refund")' \subseteq BillRows("refund") \cup {i}
    BY <2>2, <2>8 DEF BillRows, BillTyped
  <2>14. RefundsWithinPaid'
    BY <2>12, <2>13 DEF RefundsWithinPaid, Refunders
  <2> QED BY <2>4, <2>10, <2>14 DEF PaymentsInOrder
<1> QED BY <1>2, <1>3

LEMMA PayStep == ASSUME BillInv, NEW r \in Request, PayAndInvoice(r) PROVE BillInv'
<1> USE DEF BillInv
<1> DEFINE n == mem[r].number
           row == [user |-> body[r].user, plan |-> body[r].plan, amount |-> mem[r].price,
                   status |-> "SUCCESS", at |-> Now, coupon |-> Nothing, off |-> 0]
<1>0. /\ Framed' /\ body' = body /\ ~Ended(r) /\ BillStep(r) /\ Finish(r)
      /\ \A q \in Request \ {r} : pc'[q] = pc[q] /\ mem'[q] = mem[q]
      /\ \A q \in Request : ~Ended(q)' => ~Ended(q)
  BY BillFrame DEF BillStep, PayAndInvoice
<1>1. CASE bill' = bill
  BY <1>0, <1>1, StayQuiet, QuietStep
<1>2. CASE ~NumberTaken(n) /\ bill' = [Paid(r) EXCEPT !.invoice[r] = n]
  <2>1. row \in PaymentRow /\ row # Nothing /\ row.status = "SUCCESS"
    BY BillAssumption DEF PayAndInvoice, At, BillTyped, BodyFits, Numbered, PaymentRow
  <2>2. /\ DOMAIN bill' = DOMAIN bill /\ bill'.payment = [bill.payment EXCEPT ![r] = row]
        /\ bill'.invoice = [bill.invoice EXCEPT ![r] = n] /\ bill'.refund = bill.refund
        /\ bill'.plan = bill.plan /\ bill'.audit = bill.audit
    BY <1>2 DEF Paid, BillTyped
  <2> HIDE DEF row
  <2>3. r \in PaymentIds /\ bill.payment[r] = Nothing /\ bill.invoice[r] = Nothing
    BY <1>0, BillAssumption DEF Unpaid, PaymentIds
  <2> DEFINE rows == BillRows("invoice")
             c == Cardinality(rows)
  <2>4. IsFiniteSet(rows) /\ c \in Nat /\ r \notin rows
    BY <2>3, FS_Subset, FS_CardinalityType, BillAssumption DEF BillRows, BillTyped, PaymentIds
  <2>5. n \in 1 .. c + 1 /\ n # Nothing
    BY <2>4, BillAssumption DEF PayAndInvoice, Numbered
  <2>6. n = c + 1
    <3>1. n \notin {bill.invoice[i] : i \in rows}
      BY <1>2 DEF NumberTaken
    <3> QED BY <2>4, <2>5, <3>1 DEF PaymentsInOrder, InvoicesInOrder
  <2>7. BillRows("invoice")' = rows \cup {r}
    BY <2>2, <2>3, <2>5 DEF BillRows, BillTyped
  <2>8. Cardinality(rows \cup {r}) = c + 1
    BY <2>4, FS_AddElement
  <2>9. {bill'.invoice[i] : i \in rows \cup {r}} = {bill.invoice[i] : i \in rows} \cup {n}
    BY <2>2, <2>3, <2>4 DEF BillRows, BillTyped
  <2>10. {bill'.invoice[i] : i \in rows \cup {r}} = 1 .. c + 1
    <3>1. {bill.invoice[i] : i \in rows} = 1 .. c
      BY DEF PaymentsInOrder, InvoicesInOrder
    <3>2. (1 .. c) \cup {c + 1} = 1 .. c + 1
      BY <2>4
    <3> QED BY <2>6, <2>9, <3>1, <3>2
  <2>11. Kept' \subseteq Kept \cup {r}
    BY <2>2 DEF Kept, BillRows, BillTyped
  <2>12. InvoicesInOrder'
    BY <2>7, <2>8, <2>10, <2>11 DEF PaymentsInOrder, InvoicesInOrder
  <2>13. BillTyped'
    <3>1. bill'.payment \in [PaymentIds -> PaymentRow \cup {Nothing}]
      BY <2>1, <2>2 DEF BillTyped
    <3>2. DOMAIN bill'.invoice = PaymentIds
      BY <2>2 DEF BillTyped
    <3> QED BY <1>0, <2>2, <3>1, <3>2 DEF BillTyped
  <2>14. pc'[r] = "done"
    BY <1>0, FinishGoes DEF BillTyped
  <2>15. \A q \in Request : Unpaid(q)'
    BY <1>0, <2>2, <2>14 DEF Unpaid, Ended, BillTyped
  <2>16. ASSUME NEW q \in Request PROVE Found(q)' /\ Numbered(q)'
    <3>1. CASE q = r
      BY <2>14, <3>1 DEF Found, Numbered, At
    <3>2. CASE q # r
      <4>1. Numbered(q)'
        <5>1. Cardinality(BillRows("invoice")') = c + 1
          BY <2>7, <2>8
        <5>2. \A k \in 1 .. c + 1 : k \in 1 .. c + 2
          BY <2>4
        <5>3. /\ At(q, "simulate", "number") => mem[q] \in Int
              /\ At(q, "simulate", "invoice") => mem[q].price \in Int /\ mem[q].number \in 1 .. c + 1
          BY DEF Numbered
        <5> HIDE DEF c, rows
        <5> QED BY <1>0, <2>4, <3>2, <5>1, <5>2, <5>3 DEF Numbered, At
      <4>2. Found(q)'
        BY <1>0, <2>2, <2>3, <3>2 DEF Found, At, BillTyped
      <4> QED BY <4>1, <4>2
    <3> QED BY <3>1, <3>2
  <2>17. \A j : Refunders(j)' = Refunders(j)
    BY <1>0, <2>2 DEF Refunders
  <2>18. RefundsKnown'
    BY <2>2, <2>17 DEF RefundsKnown
  <2>19. RefundsWithinPaid'
    <3>1. ASSUME NEW j \in BillRows("refund")
          PROVE  /\ bill'.payment[j].status = "REFUNDED"
                 /\ bill'.refund[j].amount <= bill'.payment[j].amount
                 /\ Cardinality(Refunders(j)') = 1
      <4>1. /\ bill.payment[j].status = "REFUNDED"
            /\ bill.refund[j].amount <= bill.payment[j].amount
            /\ Cardinality(Refunders(j)) = 1
        BY <3>1 DEF PaymentsInOrder, RefundsWithinPaid, Refunders
      <4>2. j # r
        BY <1>0, <3>1 DEF BillRows, Unpaid
      <4> QED BY <2>2, <2>17, <3>1, <4>1, <4>2 DEF BillRows, BillTyped
    <3>2. BillRows("refund")' = BillRows("refund")
      BY <2>2 DEF BillRows
    <3> QED BY <3>1, <3>2 DEF RefundsWithinPaid, Refunders
  <2> QED BY <2>12, <2>13, <2>15, <2>16, <2>18, <2>19 DEF PaymentsInOrder
<1> QED BY <1>1, <1>2 DEF PayAndInvoice

LEMMA BillInvStays ==
    ASSUME BillInv, NEW r \in Request, BillStep(r) \/ (Abort(r) /\ Stay)
    PROVE  BillInv'
BY BillChanges, QuietStep, RetryStep, RefundStep, PayStep DEF BillInv

LEMMA BillInvRests == BillInv /\ UNCHANGED <<requests, bill>> => BillInv'
<1> SUFFICES ASSUME BillInv, UNCHANGED <<requests, bill>> PROVE BillInv'
  OBVIOUS
<1>1. body' = body /\ pc' = pc /\ mem' = mem /\ lock' = lock /\ bill' = bill
  BY DEF requests
<1>2. BillTyped' /\ \A r \in Request : Unpaid(r)' /\ Found(r)' /\ Numbered(r)'
  BY <1>1 DEF BillInv, BillTyped, Framed, Unpaid, Ended, Found, Numbered, At, BillRows
<1>3. RefundsKnown /\ InvoicesInOrder /\ RefundsWithinPaid
  BY DEF BillInv, PaymentsInOrder
<1>4. RefundsKnown'
  BY <1>1, <1>3 DEF RefundsKnown, Refunders
<1>5. InvoicesInOrder'
  BY <1>1, <1>3 DEF InvoicesInOrder, Kept, BillRows
<1>6. RefundsWithinPaid'
  BY <1>1, <1>3 DEF RefundsWithinPaid, BillRows
<1> QED BY <1>2, <1>4, <1>5, <1>6 DEF BillInv, PaymentsInOrder

(* The invoices are numbered without a gap or a repeat, every payment that *)
(* was a success has one, and no payment is refunded twice or by more than *)
(* it was, whatever is paid, refunded and retried at once.                 *)
THEOREM BillsStayInOrder == BillSpec => []PaymentsInOrder
<1>1. BillInv /\ [BillNext]_<<requests, bill>> => BillInv'
  <2> SUFFICES ASSUME BillInv, [BillNext]_<<requests, bill>> PROVE BillInv'
    OBVIOUS
  <2>1. CASE UNCHANGED <<requests, bill>>
    BY <2>1, BillInvRests
  <2>2. ASSUME NEW r \in Request, BillStep(r) \/ (Abort(r) /\ Stay) PROVE BillInv'
    BY <2>2, BillInvStays
  <2> QED BY <2>1, <2>2 DEF BillNext
<1>2. BillInv => PaymentsInOrder
  BY DEF BillInv
<1> QED BY <1>1, <1>2, BillStarts, PTL DEF BillSpec

(***************************************************************************)
(* The figures over the payments                                           *)
(***************************************************************************)

(* What is paid was paid by now for a plan there is, and every workspace   *)
(* is on one there is, or on none.                                         *)
FiguresTyped ==
    /\ BillTyped
    /\ bill.refund \in [PaymentIds -> RefundRow \cup {Nothing}]
    /\ \A i \in PaymentIds : bill.payment[i] # Nothing =>
          bill.payment[i].plan \in BillRows("plan") /\ bill.payment[i].at <= Now
    /\ bill.on \in [DOMAIN BillStart.on -> WorkspaceRow]
    /\ \A w \in DOMAIN bill.on : bill.on[w].plan \in BillRows("plan") \cup {Nothing}

(* A workspace that was ever moved is on the plan some request moved it    *)
(* to, unless that plan has been deleted.                                  *)
MovesFollow ==
    /\ DOMAIN bill.moved = PaymentIds
    /\ \A r \in PaymentIds : bill.moved[r] # Nothing =>
          LET w == bill.moved[r][1]
          IN  /\ w \in DOMAIN bill.on
              /\ bill.on[w].plan # Nothing =>
                    \E q \in PaymentIds : /\ bill.moved[q] # Nothing
                                          /\ bill.moved[q][1] = w /\ bill.moved[q][3] = bill.on[w].plan

LEMMA TakingsAdd ==
    ASSUME FiguresTyped, NEW T \in SUBSET BillRows("payment")
    PROVE  Ints(Takings, T) /\ IsFiniteSet(T)
<1>1. BillRows("payment") \subseteq PaymentIds
  BY DEF BillRows, FiguresTyped, BillTyped
<1>2. IsFiniteSet(T)
  BY <1>1, FS_Subset, BillAssumption
<1>3. ASSUME NEW i \in T PROVE Takings[i] \in Int
  <2>1. bill.payment[i] \in PaymentRow /\ bill.refund[i] \in RefundRow \cup {Nothing}
    BY <1>1 DEF BillRows, FiguresTyped, BillTyped
  <2>2. Takings[i] = bill.payment[i].amount - (IF bill.refund[i] = Nothing THEN 0 ELSE bill.refund[i].amount)
    BY DEF Takings, Net
  <2> QED BY <2>1, <2>2 DEF PaymentRow, RefundRow
<1> QED BY <1>2, <1>3 DEF Ints

(* The sums of the two tables, and the sum of what was left of each.       *)
LEMMA TotalTaken ==
    ASSUME FiguresTyped
    PROVE  RevenueSummary.total = SumOver(Takings, Kept)
<1> DEFINE all == {i \in BillRows("payment") : bill.payment[i].status \in {"SUCCESS", "REFUNDED"}}
           back == all \cap BillRows("refund")
           paid == [i \in all |-> bill.payment[i].amount]
           given == [i \in back |-> bill.refund[i].amount]
           less == [i \in all |-> IF i \in back THEN -bill.refund[i].amount ELSE 0]
<1>1. all = Kept /\ all \subseteq BillRows("payment") /\ BillRows("payment") \subseteq PaymentIds
  BY DEF Kept, BillRows, FiguresTyped, BillTyped
<1>2. RevenueSummary.total = SumOver(paid, all) - SumOver(given, back)
  BY DEF RevenueSummary
<1>3. IsFiniteSet(all) /\ IsFiniteSet(back) /\ IsFiniteSet(all \ back)
  BY <1>1, TakingsAdd, FS_Subset
<1>4. \A i \in all : bill.payment[i].amount \in Int /\ (i \in back <=> bill.refund[i] # Nothing)
  BY <1>1 DEF BillRows, FiguresTyped, BillTyped, PaymentRow
<1>5. \A i \in back : bill.refund[i].amount \in Int
  BY <1>1 DEF BillRows, FiguresTyped, BillTyped, RefundRow
<1>6. Ints(paid, all) /\ Ints(less, all) /\ Ints(given, back)
  BY <1>3, <1>4, <1>5 DEF Ints
<1>7. \A i \in all : Takings[i] = paid[i] + less[i]
  BY <1>1, <1>4, <1>5 DEF Takings, Net
<1>8. \A i \in back : less[i] = -given[i]
  OBVIOUS
<1>9. \A i \in all \ back : less[i] = 0
  OBVIOUS
<1>10. back \subseteq all
  OBVIOUS
<1> HIDE DEF paid, less, given, back, all
<1>11. SumOver(Takings, all) = SumOver(paid, all) + SumOver(less, all)
  BY <1>6, <1>7, SumOfSums
<1>12. back \cup (all \ back) = all /\ back \cap (all \ back) = {}
  BY <1>10
<1>13. SumOver(less, all) = SumOver(less, back) + SumOver(less, all \ back)
  <2> DEFINE rest == all \ back
  <2>1. Ints(less, back \cup rest) /\ back \cap rest = {}
    BY <1>6, <1>12
  <2> HIDE DEF rest
  <2>2. SumOver(less, back \cup rest) = SumOver(less, back) + SumOver(less, rest)
    BY <2>1, SumOfUnion
  <2> QED BY <1>12, <2>2 DEF rest
<1>14. SumOver(less, back) = -SumOver(given, back)
  BY <1>6, <1>8, SumOfNegated
<1>15. SumOver(less, all \ back) = 0
  BY <1>3, <1>9, SumOfNothing
<1>16. SumOver(paid, all) \in Int /\ SumOver(given, back) \in Int
  BY <1>6, SumInt
<1> QED BY <1>1, <1>2, <1>11, <1>13, <1>14, <1>15, <1>16

(* Each payment falls into a month of the chart, or before it.             *)
LEMMA TrendAdds ==
    ASSUME FiguresTyped
    PROVE  SumOver(Takings, Kept) = SumOver(RevenueSummary.trend, DOMAIN RevenueSummary.trend)
                                      + SumOver(Takings, BeforeTrend)
<1> DEFINE months == (ThisMonth - 11) .. ThisMonth
           trend == RevenueSummary.trend
           of == [i \in Kept |-> Month(bill.payment[i].at)]
<1>1. trend = [m \in months |-> Collected(m)]
  BY DEF RevenueSummary
<1>2. ThisMonth \in Int /\ ThisMonth - 11 \in Int
  BY BillAssumption DEF ThisMonth, Month
<1>3. IsFiniteSet(months)
  BY <1>2, FS_Interval
<1>4. Kept \subseteq BillRows("payment")
  BY DEF Kept
<1>5. Ints(Takings, Kept)
  BY <1>4, TakingsAdd
<1>6. \A m \in months : trend[m] = SumOver(Takings, {i \in Kept : of[i] = m})
  <2>1. \A m : KeptIn(m) = {i \in Kept : of[i] = m}
    BY DEF KeptIn
  <2> QED BY <1>1, <2>1 DEF Collected
<1>7. {i \in Kept : of[i] \notin months} = BeforeTrend
  <2>1. \A i \in Kept : bill.payment[i].at \in Int /\ bill.payment[i].at <= Now
    BY <1>4 DEF BillRows, FiguresTyped, BillTyped, PaymentRow
  <2>2. \A i \in Kept : Month(bill.payment[i].at) \in Int /\ Month(bill.payment[i].at) <= ThisMonth
    BY <2>1, BillAssumption DEF ThisMonth, Month
  <2>3. \A i \in Kept : of[i] \notin months <=> Month(bill.payment[i].at) < ThisMonth - 11
    BY <1>2, <2>2
  <2> HIDE DEF of, months
  <2> QED BY <2>3 DEF BeforeTrend
<1>8. DOMAIN trend = months
  BY <1>1
<1> HIDE DEF of, trend, months
<1>9. Grouped(Takings, Kept, of, months, trend) /\ Outside(Kept, of, months) = BeforeTrend
  BY <1>6, <1>7 DEF Grouped, Outside
<1>10. SumOver(Takings, Kept) = SumOver(trend, months) + SumOver(Takings, BeforeTrend)
  BY <1>3, <1>5, <1>9, SumByGroups
<1> QED BY <1>8, <1>10 DEF trend

(* Each payment of the month is for one of the plans.                      *)
LEMMA PlansAdd ==
    ASSUME FiguresTyped
    PROVE  Collected(ThisMonth) = OfPlans(RevenueOverview.byPlan)
<1> DEFINE rows == BillRows("plan")
           paid == KeptIn(ThisMonth)
           byPlan == RevenueOverview.byPlan
           of == [i \in paid |-> bill.payment[i].plan]
<1>1. byPlan = [p \in rows |-> SumOver(Takings, {i \in paid : bill.payment[i].plan = p})]
  BY DEF RevenueOverview
<1>2. paid \subseteq BillRows("payment")
  BY DEF KeptIn, Kept
<1>3. Ints(Takings, paid)
  BY <1>2, TakingsAdd
<1>4. \A i \in paid : of[i] \in rows
  BY <1>2 DEF BillRows, FiguresTyped, BillTyped
<1>5. \A p \in rows : byPlan[p] = SumOver(Takings, {i \in paid : of[i] = p})
  <2>1. \A p : {i \in paid : bill.payment[i].plan = p} = {i \in paid : of[i] = p}
    OBVIOUS
  <2> QED BY <1>1, <2>1
<1>6. IsFiniteSet(rows)
  BY FS_Subset, BillAssumption DEF BillRows, FiguresTyped, BillTyped, PlanIds
<1> HIDE DEF byPlan, of, paid, rows
<1>7. Grouped(Takings, paid, of, rows, byPlan) /\ Outside(paid, of, rows) = {}
  BY <1>4, <1>5 DEF Grouped, Outside
<1>8. SumOver(Takings, {}) = 0
  BY SumOfNone
<1>9. /\ SumOver(Takings, paid) = SumOver(byPlan, rows) + SumOver(Takings, Outside(paid, of, rows))
      /\ SumOver(byPlan, rows) \in Int
  BY ONLY <1>3, <1>6, <1>7, SumByGroups
<1>10. SumOver(Takings, paid) = SumOver(byPlan, rows)
  BY <1>7, <1>8, <1>9
<1> QED BY <1>10 DEF Collected, OfPlans, byPlan, paid, rows

LEMMA PlanRowsHere ==
    ASSUME FiguresTyped
    PROVE  /\ IsFiniteSet(BillRows("plan")) /\ BillRows("plan") \subseteq PlanIds
           /\ \A p \in BillRows("plan") : bill.plan[p] \in PlanRow
           /\ \A p \in BillRows("plan") : bill.plan[p].price \in Nat /\ PerMonth(p) \in Nat
<1>1. BillRows("plan") \subseteq PlanIds
  BY DEF BillRows, FiguresTyped, BillTyped, PlanIds
<1>2. IsFiniteSet(BillRows("plan"))
  BY <1>1, FS_Subset, BillAssumption
<1>3. \A p \in BillRows("plan") : bill.plan[p] \in PlanRow
  BY DEF BillRows, FiguresTyped, BillTyped, Priced
<1>4. \A p \in BillRows("plan") : bill.plan[p].price \in Nat
  BY <1>3 DEF PlanRow
<1>5. \A p \in BillRows("plan") : PerMonth(p) \in Nat
  BY <1>4 DEF PerMonth
<1> QED BY <1>1, <1>2, <1>3, <1>4, <1>5

(* Among fewer payments there are no more people.                          *)
LEMMA FewerPeople ==
    ASSUME FiguresTyped, NEW S \in SUBSET Kept, NEW p, NEW t
    PROVE  /\ Cardinality(PaidPeopleAt(S, p, t)) \in Nat /\ Cardinality(PaidPeopleAt(Kept, p, t)) \in Nat
           /\ Cardinality(PaidPeopleAt(S, p, t)) <= Cardinality(PaidPeopleAt(Kept, p, t))
<1> DEFINE theirs == {j \in Kept : bill.payment[j].plan = p /\ bill.payment[j].at <= t /\ PaidUntil(j) > t}
           user == [i \in theirs |-> bill.payment[i].user]
           people == PaidPeopleAt(Kept, p, t)
<1>1. IsFiniteSet(theirs)
  <2>1. theirs \subseteq BillRows("payment")
    BY DEF Kept
  <2> QED BY <2>1, TakingsAdd
<1>2. people = {bill.payment[i].user : i \in theirs}
  BY DEF PaidPeopleAt
<1>3. IsFiniteSet(people)
  <2>1. user \in Surjection(theirs, people)
    BY <1>2 DEF Surjection
  <2> HIDE DEF theirs, user, people
  <2> QED BY <1>1, <2>1, FS_Surjection
<1>4. PaidPeopleAt(S, p, t) \subseteq people
  BY DEF PaidPeopleAt
<1> HIDE DEF people
<1>5. Cardinality(PaidPeopleAt(S, p, t)) <= Cardinality(people) /\ IsFiniteSet(PaidPeopleAt(S, p, t))
  BY <1>3, <1>4, FS_Subset
<1> QED BY <1>3, <1>5, FS_CardinalityType DEF people

(* The plans page counts the people of fewer payments than the revenue     *)
(* page does.                                                              *)
LEMMA HistoryBelow ==
    ASSUME FiguresTyped, NEW m \in DOMAIN RevenueOverview.mrr
    PROVE  OfPlans([p \in BillRows("plan") |-> PerMonth(p) * PlanAnalytics[p].history[m]])
             <= RevenueOverview.mrr[m]
<1> DEFINE rows == BillRows("plan")
           whole == {i \in Kept : bill.payment[i].status = "SUCCESS"}
           f == [p \in rows |-> PerMonth(p) * PlanAnalytics[p].history[m]]
           g == [p \in rows |-> PerMonth(p) * Cardinality(PaidPeopleAt(Kept, p, MonthEnd(m)))]
<1>1. DOMAIN RevenueOverview.mrr = (ThisMonth - 5) .. ThisMonth /\ RevenueOverview.mrr[m] = OfPlans(g)
  BY DEF RevenueOverview
<1>2. ASSUME NEW p \in rows
      PROVE  PlanAnalytics[p].history[m] = Cardinality(PaidPeopleAt(whole, p, MonthEnd(m)))
  BY <1>1 DEF PlanAnalytics
<1>3. ASSUME NEW p \in rows
      PROVE  f[p] \in Int /\ g[p] \in Int /\ f[p] <= g[p]
  <2> DEFINE few == Cardinality(PaidPeopleAt(whole, p, MonthEnd(m)))
             many == Cardinality(PaidPeopleAt(Kept, p, MonthEnd(m)))
  <2>1. few \in Nat /\ many \in Nat /\ few <= many
    BY FewerPeople
  <2>2. PerMonth(p) \in Nat
    BY PlanRowsHere
  <2>3. f[p] = PerMonth(p) * few /\ g[p] = PerMonth(p) * many
    BY <1>2
  <2>4. \A k, a, b \in Nat : a <= b => k * a \in Int /\ k * b \in Int /\ k * a <= k * b
    OBVIOUS
  <2> HIDE DEF few, many, f, g
  <2> QED BY <2>1, <2>2, <2>3, <2>4
<1>4. Ints(f, rows) /\ Ints(g, rows)
  BY <1>3, PlanRowsHere DEF Ints
<1>5. SumOver(f, rows) <= SumOver(g, rows)
  <2> HIDE DEF f, g, rows
  <2> QED BY <1>3, <1>4, SumOrder
<1> QED BY <1>1, <1>5 DEF OfPlans

(* What the plans page expects of the monthly plans is part of what the    *)
(* revenue page expects.                                                   *)
LEMMA EstimatesBelow ==
    ASSUME FiguresTyped, NEW monthly, monthly = {p \in BillRows("plan") : bill.plan[p].cycle = "MONTHLY"}
    PROVE  SumOver([p \in monthly |-> PlanAnalytics[p].estimate], monthly) <= Mrr
<1> DEFINE f == [w \in Paying |-> PerMonth(bill.on[w].plan)]
           g == [p \in monthly |-> PlanAnalytics[p].estimate]
           some == {w \in Paying : bill.on[w].plan \in monthly /\ bill.on[w].default}
           of == [w \in some |-> bill.on[w].plan]
<1>1. monthly \subseteq BillRows("plan") /\ IsFiniteSet(monthly) /\ Nothing \notin monthly
  BY PlanRowsHere, FS_Subset, BillAssumption
<1>2. DOMAIN bill.on = DOMAIN BillStart.on
      /\ \A w \in DOMAIN bill.on : bill.on[w].active \in BOOLEAN /\ bill.on[w].default \in BOOLEAN
  BY DEF FiguresTyped, WorkspaceRow
<1>3. Paying \subseteq DOMAIN bill.on /\ IsFiniteSet(Paying)
  BY <1>2, FS_Subset, BillAssumption DEF Paying
<1>4. \A w \in Paying : f[w] \in Nat
  <2>1. \A w \in Paying : bill.on[w].plan \in BillRows("plan")
    BY DEF Paying, FiguresTyped
  <2> QED BY <2>1, PlanRowsHere
<1>5. Ints(f, Paying) /\ some \subseteq Paying
  BY <1>3, <1>4 DEF Ints
<1>6. SumOver(f, some) <= SumOver(f, Paying)
  <2>1. \A w \in Paying : f[w] >= 0
    BY <1>4
  <2> HIDE DEF f, some
  <2> QED BY <1>5, <2>1, SumOfFewer
<1>7. ASSUME NEW p \in monthly
      PROVE  g[p] = SumOver(f, {w \in some : of[w] = p})
  <2> DEFINE theirs == {w \in some : of[w] = p}
             users == {w \in OnPlan(p) : bill.on[w].default}
  <2>1. g[p] = bill.plan[p].price * Cardinality({w \in users : bill.on[w].active})
    BY <1>1 DEF PlanAnalytics
  <2>2. bill.plan[p].cycle = "MONTHLY" /\ p # Nothing
    BY <1>1
  <2>3. {w \in users : bill.on[w].active} = theirs
    BY <1>2, <2>2 DEF OnPlan, Paying
  <2>4. PerMonth(p) = bill.plan[p].price /\ bill.plan[p].price \in Int
    BY <1>1, <2>2, PlanRowsHere DEF PerMonth
  <2>5. \A w \in theirs : f[w] = bill.plan[p].price
    BY <2>4
  <2>6. IsFiniteSet(theirs)
    BY <1>3, FS_Subset
  <2> HIDE DEF theirs, f
  <2>7. SumOver(f, theirs) = bill.plan[p].price * Cardinality(theirs)
    BY <2>4, <2>5, <2>6, SumOfSame
  <2> QED BY <2>1, <2>3, <2>7 DEF theirs
<1>8. Ints(f, some)
  BY <1>5, IntsBelow
<1>9. Grouped(f, some, of, monthly, g)
  BY <1>7 DEF Grouped
<1>10. Outside(some, of, monthly) = {}
  BY DEF Outside
<1>11. Mrr = SumOver(f, Paying)
  BY DEF Mrr
<1>12. SumOver(f, {}) = 0
  BY SumOfNone
<1> HIDE DEF f, g, some, of
<1>13. /\ SumOver(f, some) = SumOver(g, monthly) + SumOver(f, Outside(some, of, monthly))
       /\ SumOver(g, monthly) \in Int
  BY ONLY <1>1, <1>8, <1>9, SumByGroups
<1>14. SumOver(g, monthly) <= Mrr
  BY <1>6, <1>10, <1>11, <1>12, <1>13
<1> QED BY <1>14 DEF g

(* A workspace that left and pays was moved back.                          *)
LEMMA ChurnBounded ==
    ASSUME FiguresTyped, MovesFollow
    PROVE  Churn.churned + Churn.paying
             <= Cardinality(DOMAIN bill.on) + Cardinality({r \in BillRows("moved") : MovedUp(r)})
<1> DEFINE gone == {q \in BillRows("moved") :
                       FreePlan # Nothing /\ bill.moved[q][3] = FreePlan /\ bill.moved[q][2] # FreePlan}
           left == {bill.moved[r][1] : r \in gone}
           up == {r \in BillRows("moved") : MovedUp(r)}
           raised == {bill.moved[r][1] : r \in up}
           to == [r \in up |-> bill.moved[r][1]]
           all == DOMAIN bill.on
<1>1. Churn.churned = Cardinality(left) /\ Churn.paying = Cardinality(Paying)
  BY DEF Churn
<1>2. IsFiniteSet(all)
  BY BillAssumption DEF FiguresTyped
<1>3. BillRows("moved") = {r \in PaymentIds : bill.moved[r] # Nothing}
  BY DEF BillRows, MovesFollow
<1>4. left \subseteq all /\ Paying \subseteq all
  BY <1>3 DEF MovesFollow, Paying
<1>5. left \cap Paying \subseteq raised
  <2>1. ASSUME NEW w \in left, w \in Paying PROVE w \in raised
    <3>1. PICK r \in PaymentIds : bill.moved[r] # Nothing /\ bill.moved[r][1] = w
      BY <1>3, <2>1
    <3>2. bill.on[w].plan # Nothing /\ bill.plan[bill.on[w].plan].cycle # "FREE"
      BY <2>1 DEF Paying
    <3>3. PICK q \in PaymentIds :
            bill.moved[q] # Nothing /\ bill.moved[q][1] = w /\ bill.moved[q][3] = bill.on[w].plan
      BY <3>1, <3>2 DEF MovesFollow
    <3>4. q \in up
      BY <1>3, <3>2, <3>3 DEF MovedUp
    <3> QED BY <3>3, <3>4
  <2> QED BY <2>1
<1>6. IsFiniteSet(up)
  BY <1>3, FS_Subset, BillAssumption
<1>7. to \in Surjection(up, raised)
  BY DEF Surjection
<1> HIDE DEF left, up, raised, to, all
<1>8. IsFiniteSet(raised) /\ Cardinality(raised) <= Cardinality(up)
  BY <1>6, <1>7, FS_Surjection
<1>9. Cardinality(left \cap Paying) <= Cardinality(raised) /\ IsFiniteSet(left \cap Paying)
  BY <1>5, <1>8, FS_Subset
<1>10. IsFiniteSet(left) /\ IsFiniteSet(Paying) /\ IsFiniteSet(left \cup Paying)
  BY <1>2, <1>4, FS_Subset, FS_Union
<1>11. Cardinality(left \cup Paying) <= Cardinality(all)
  <2>1. left \cup Paying \subseteq all
    BY <1>4
  <2> QED BY <1>2, <2>1, FS_Subset
<1>12. Cardinality(left \cup Paying) = Cardinality(left) + Cardinality(Paying) - Cardinality(left \cap Paying)
  BY <1>10, FS_Union
<1>13. /\ Cardinality(left) \in Nat /\ Cardinality(Paying) \in Nat /\ Cardinality(left \cap Paying) \in Nat
       /\ Cardinality(raised) \in Nat /\ Cardinality(up) \in Nat /\ Cardinality(all) \in Nat
       /\ Cardinality(left \cup Paying) \in Nat
  BY <1>2, <1>6, <1>8, <1>9, <1>10, FS_CardinalityType
<1>14. Cardinality(left) + Cardinality(Paying) <= Cardinality(all) + Cardinality(up)
  BY <1>8, <1>9, <1>11, <1>12, <1>13
<1> QED BY <1>1, <1>14 DEF all, up

(* Of the successes, some are of this month.                               *)
LEMMA CouponsBelow ==
    ASSUME FiguresTyped
    PROVE  CouponStats.payments <= PaymentStats.statuses["SUCCESS"]
<1> DEFINE all == {i \in BillRows("payment") : bill.payment[i].status = "SUCCESS"}
           paid == {i \in BillRows("payment") : bill.payment[i].status = "SUCCESS"
                                                /\ Month(bill.payment[i].at) = ThisMonth}
<1>1. CouponStats.payments = Cardinality(paid)
  BY DEF CouponStats
<1>2. PaymentStats.statuses["SUCCESS"] = Cardinality(all)
  BY DEF PaymentStats
<1>3. IsFiniteSet(all) /\ paid \subseteq all
  BY TakingsAdd
<1> HIDE DEF all, paid
<1>4. Cardinality(paid) <= Cardinality(all)
  BY <1>3, FS_Subset
<1> QED BY <1>1, <1>2, <1>4

LEMMA FiguresAddUp == FiguresTyped /\ MovesFollow => PagesAgree
<1> SUFFICES ASSUME FiguresTyped, MovesFollow PROVE PagesAgree
  OBVIOUS
<1> DEFINE trend == RevenueSummary.trend
           monthly == {p \in BillRows("plan") : bill.plan[p].cycle = "MONTHLY"}
<1>1. ThisMonth \in Int /\ trend = [m \in (ThisMonth - 11) .. ThisMonth |-> Collected(m)]
  BY BillAssumption DEF ThisMonth, Month, RevenueSummary
<1>2. trend[ThisMonth] = Collected(ThisMonth) /\ trend[ThisMonth - 1] = Collected(ThisMonth - 1)
  BY <1>1
<1>3. RevenueSummary.total = SumOver(trend, DOMAIN trend) + SumOver(Takings, BeforeTrend)
  BY TotalTaken, TrendAdds
<1>4. PaymentStats.thisMonth = trend[ThisMonth] /\ PaymentStats.lastMonth = trend[ThisMonth - 1]
  BY <1>2 DEF PaymentStats
<1>5. trend[ThisMonth] = OfPlans(RevenueOverview.byPlan)
  BY <1>2, PlansAdd
<1>6. CouponStats.payments <= PaymentStats.statuses["SUCCESS"]
  BY CouponsBelow
<1>7. \A m \in DOMAIN RevenueOverview.mrr :
        OfPlans([p \in BillRows("plan") |-> PerMonth(p) * PlanAnalytics[p].history[m]])
          <= RevenueOverview.mrr[m]
  BY HistoryBelow
<1>8. SumOver([p \in monthly |-> PlanAnalytics[p].estimate], monthly) <= Mrr
  BY EstimatesBelow
<1>9. Churn.churned + Churn.paying
        <= Cardinality(DOMAIN bill.on) + Cardinality({r \in BillRows("moved") : MovedUp(r)})
  BY ChurnBounded
<1> QED BY Zenon, <1>3, <1>4, <1>5, <1>6, <1>7, <1>8, <1>9 DEF PagesAgree

(* A request that is under way has moved nothing yet.                      *)
Unmoved(r) ==
    /\ ~Ended(r) => bill.moved[r] = Nothing
    /\ At(r, "move", "move") => mem[r] \in PlanIds \cup {Nothing}

FiguresInv == FiguresTyped /\ MovesFollow /\ \A r \in Request : Unmoved(r)

LEMMA FiguresStart == RequestsInit /\ BillInit => FiguresInv
<1> SUFFICES ASSUME RequestsInit, BillInit PROVE FiguresInv
  OBVIOUS
<1>1. BillTyped /\ bill = BillStart
  BY BillStarts DEF BillInv, BillInit
<1>2. /\ DOMAIN BillStart.plan = PlanIds /\ DOMAIN BillStart.payment = PaymentIds
      /\ BillRows("plan") = {p \in PlanIds : BillStart.plan[p] # Nothing}
  BY <1>1 DEF BillRows, PlanIds, PaymentIds
<1>3. bill.refund = [i \in PaymentIds |-> Nothing] /\ bill.moved = [i \in PaymentIds |-> Nothing]
      /\ bill.on \in [DOMAIN BillStart.on -> WorkspaceRow]
  BY <1>1, BillAssumption
<1>4. \A i \in PaymentIds : bill.payment[i] # Nothing =>
          bill.payment[i].plan \in BillRows("plan") /\ bill.payment[i].at <= Now
  BY <1>1, <1>2, BillAssumption
<1>5. \A w \in DOMAIN bill.on : bill.on[w].plan \in BillRows("plan") \cup {Nothing}
  BY <1>1, <1>2, BillAssumption
<1>6. FiguresTyped
  BY <1>1, <1>3, <1>4, <1>5 DEF FiguresTyped
<1>7. MovesFollow /\ \A r \in Request : Unmoved(r)
  BY <1>3, BillAssumption, RequestsStart DEF MovesFollow, Unmoved, At
<1> QED BY <1>6, <1>7 DEF FiguresInv

(* A move remembers the plan it has read.                                  *)
LEMMA UnmovedStays ==
    ASSUME FiguresInv, NEW r \in Request, BillStep(r) \/ (Abort(r) /\ Stay),
           \A q \in Request : bill'.moved[q] # bill.moved[q] => q = r /\ Ended(r)'
    PROVE  \A q \in Request : Unmoved(q)'
<1> USE DEF FiguresInv
<1>0. /\ body' = body /\ ~Ended(r) /\ BillTyped
      /\ \A q \in Request \ {r} : pc'[q] = pc[q] /\ mem'[q] = mem[q]
      /\ \A q \in Request : ~Ended(q)' => ~Ended(q)
  BY BillFrame DEF FiguresTyped
<1>1. ASSUME At(r, "move", "move")' PROVE mem'[r] \in PlanIds \cup {Nothing}
  <2>1. pc'[r] = "move" /\ body[r].op = "move"
    BY <1>0, <1>1 DEF At
  <2> USE DEF BillTyped
  <2>2. FindNewPlan(r)
    <3>1. CASE Finish(r) \/ Abort(r)
      BY <1>0, <2>1, <3>1, FinishGoes, AbortGoes
    <3>2. CASE MoveWorkspace(r)
      BY <3>1, <3>2 DEF MoveWorkspace
    <3> QED BY <1>0, <2>1, <3>1, <3>2
          DEF BillStep, CreateCoupon, InsertCoupon, FindCoupon, UpdateCoupon, RemoveCoupon, CreatePlan,
              InsertPlan, FindPlan, UpdatePlan, CountPlanUses, RemovePlan, FindPayment, Retry, Refund,
              SimulateLook, CountInvoices, PayAndInvoice, At
  <2>3. mem'[r] = bill.on[body[r].workspace].plan
    BY <1>0, <2>1, <2>2, FinishGoes, KeepGoes DEF FindNewPlan
  <2>4. body[r].workspace \in DOMAIN BillStart.on
    BY <1>0, <2>1 DEF BodyFits
  <2> QED BY <2>3, <2>4 DEF FiguresTyped, WorkspaceRow
<1>2. ASSUME NEW q \in Request PROVE Unmoved(q)'
  <2>1. CASE q = r
    BY <1>0, <1>1, <2>1 DEF Unmoved
  <2>2. CASE q # r
    BY <1>0, <2>2 DEF Unmoved, At
  <2> QED BY <2>1, <2>2
<1> QED BY <1>2

(* The other tables, when payments, plans and workspaces stay.             *)
LEMMA FiguresKept ==
    ASSUME FiguresInv, BillTyped', NEW r \in Request, BillStep(r) \/ (Abort(r) /\ Stay),
           bill'.payment = bill.payment, bill'.refund = bill.refund, bill'.on = bill.on,
           bill'.moved = bill.moved,
           \A p \in PlanIds : bill.plan[p] # Nothing => bill'.plan[p] # Nothing
    PROVE  FiguresInv'
<1> USE DEF FiguresInv
<1>1. BillRows("plan") \subseteq BillRows("plan")'
  BY DEF BillRows, FiguresTyped, BillTyped, PlanIds
<1>2. FiguresTyped'
  BY <1>1 DEF FiguresTyped
<1>3. MovesFollow'
  BY DEF MovesFollow
<1>4. \A q \in Request : Unmoved(q)'
  BY UnmovedStays
<1> QED BY <1>2, <1>3, <1>4

(* A plan that is created or edited is there.                              *)
LEMMA PlanKeeps ==
    ASSUME FiguresInv, BillTyped', NEW r \in Request, InsertPlan(r) \/ UpdatePlan(r)
    PROVE  FiguresInv'
<1> USE DEF FiguresInv, FiguresTyped, BillTyped
<1>0. BillStep(r) /\ Nothing \notin PlanRow
  BY BillAssumption DEF BillStep
<1>1. CASE bill' = bill
  BY <1>0, <1>1, FiguresKept
<1>2. ASSUME NEW i, NEW row \in PlanRow, NEW a,
             bill' = [bill EXCEPT !.plan[i] = row, !.audit = a]
      PROVE  FiguresInv'
  <2>1. /\ bill'.payment = bill.payment /\ bill'.refund = bill.refund /\ bill'.on = bill.on
        /\ bill'.moved = bill.moved /\ bill'.plan = [bill.plan EXCEPT ![i] = row]
    BY <1>2
  <2>2. \A p \in PlanIds : bill.plan[p] # Nothing => bill'.plan[p] # Nothing
    BY <1>0, <2>1 DEF PlanIds
  <2> QED BY <1>0, <2>1, <2>2, FiguresKept
<1>3. CASE InsertPlan(r)
  <2>1. body[r].row \in PlanRow
    BY <1>3 DEF InsertPlan, At, BodyFits
  <2>2. CASE bill' = [bill EXCEPT !.plan[r] = body[r].row]
    <3>1. bill' = [bill EXCEPT !.plan[r] = body[r].row, !.audit = bill.audit]
      BY <2>2
    <3> QED BY <1>2, <2>1, <3>1
  <2> QED BY <1>1, <1>3, <2>2 DEF InsertPlan
<1>4. CASE UpdatePlan(r)
  <2> DEFINE i == body[r].id
             m == Merged(bill.plan[i], body[r].row)
  <2>1. CASE bill.plan[i] # Nothing /\ bill' = LoggedBy(r, [bill EXCEPT !.plan[i] = m])
    <3>1. BodyFits(body[r]) /\ body[r].op \in {"edit-plan", "archive-plan"} /\ i \in DOMAIN bill.plan
      BY <1>4 DEF UpdatePlan, BodyFits, PlanIds
    <3>2. bill.plan[i] \in PlanRow
      BY <2>1, <3>1 DEF Priced
    <3>3. m \in PlanRow
      BY <3>1, <3>2, MergedPriced DEF BodyFits
    <3> HIDE DEF m
    <3>4. bill' = [bill EXCEPT !.plan[i] = m, !.audit = [bill.audit EXCEPT ![r] = body[r].op]]
      BY <2>1 DEF LoggedBy
    <3> QED BY <1>2, <3>3, <3>4
  <2> QED BY <1>1, <1>4, <2>1 DEF UpdatePlan
<1> QED BY <1>3, <1>4

(* The plan of a payment cannot be deleted, and the workspaces on one that *)
(* is are left on none.                                                    *)
LEMMA RemovalKeeps ==
    ASSUME FiguresInv, BillTyped', NEW r \in Request, RemovePlan(r)
    PROVE  FiguresInv'
<1> USE DEF FiguresInv
<1> DEFINE p == body[r].id
           t == [bill EXCEPT !.plan[p] = Nothing,
                             !.on = [w \in DOMAIN @ |-> IF @[w].plan = p
                                                        THEN [@[w] EXCEPT !.plan = Nothing] ELSE @[w]]]
<1>0. BillStep(r)
  BY DEF BillStep
<1>1. CASE bill' = bill
  BY <1>0, <1>1, FiguresKept
<1>2. CASE PaidFor(p) = {} /\ bill' = LoggedBy(r, t)
  <2>1. /\ DOMAIN t = DOMAIN bill /\ t.payment = bill.payment /\ t.refund = bill.refund
        /\ t.moved = bill.moved /\ t.plan = [bill.plan EXCEPT ![p] = Nothing]
        /\ t.on = [w \in DOMAIN bill.on |-> IF bill.on[w].plan = p
                                            THEN [bill.on[w] EXCEPT !.plan = Nothing] ELSE bill.on[w]]
    BY DEF FiguresTyped, BillTyped
  <2> HIDE DEF t
  <2>2. /\ bill'.payment = bill.payment /\ bill'.refund = bill.refund /\ bill'.moved = bill.moved
        /\ bill'.plan = t.plan /\ bill'.on = t.on
    BY <1>2, <2>1 DEF LoggedBy, FiguresTyped, BillTyped
  <2>3. \A q : q \in BillRows("plan") /\ q # p => q \in BillRows("plan")'
    BY <2>1, <2>2 DEF BillRows
  <2>4. DOMAIN bill.on = DOMAIN BillStart.on /\ DOMAIN bill'.on = DOMAIN BillStart.on
    BY <2>1, <2>2 DEF FiguresTyped
  <2>5. ASSUME NEW w \in DOMAIN BillStart.on
        PROVE  /\ bill'.on[w] \in WorkspaceRow
               /\ bill'.on[w].plan \in {bill.on[w].plan, Nothing} \ {p}
               /\ bill'.on[w].plan \in BillRows("plan")' \cup {Nothing}
    <3>1. bill.on[w] \in WorkspaceRow /\ bill.on[w].plan \in BillRows("plan") \cup {Nothing}
      BY <2>4 DEF FiguresTyped
    <3>2. p \in PlanIds /\ Nothing \notin PlanIds
      BY BillAssumption DEF RemovePlan, At, FiguresTyped, BillTyped, BodyFits
    <3>3. CASE bill.on[w].plan = p
      <4>1. bill'.on[w] = [bill.on[w] EXCEPT !.plan = Nothing]
        BY <2>1, <2>2, <2>4, <3>3
      <4> QED BY <3>1, <3>2, <4>1 DEF WorkspaceRow
    <3>4. CASE bill.on[w].plan # p
      <4>1. bill'.on[w] = bill.on[w]
        BY <2>1, <2>2, <2>4, <3>4
      <4> QED BY <2>3, <3>1, <3>4, <4>1
    <3> QED BY <3>3, <3>4
  <2>6. bill'.on \in [DOMAIN BillStart.on -> WorkspaceRow]
    BY <2>1, <2>2, <2>4, <2>5
  <2>7. \A i \in PaymentIds : bill'.payment[i] # Nothing =>
            bill'.payment[i].plan \in BillRows("plan")' /\ bill'.payment[i].at <= Now
    <3>1. \A i \in PaymentIds : bill.payment[i] # Nothing => bill.payment[i].plan # p
      BY <1>2 DEF PaidFor, BillRows, FiguresTyped, BillTyped
    <3> QED BY <2>2, <2>3, <3>1 DEF FiguresTyped
  <2>8. FiguresTyped'
    BY <2>2, <2>4, <2>5, <2>6, <2>7 DEF FiguresTyped
  <2>9. MovesFollow'
    <3>1. ASSUME NEW q \in PaymentIds, bill'.moved[q] # Nothing
          PROVE  /\ bill'.moved[q][1] \in DOMAIN bill'.on
                 /\ bill'.on[bill'.moved[q][1]].plan # Nothing =>
                      \E s \in PaymentIds :
                          /\ bill'.moved[s] # Nothing /\ bill'.moved[s][1] = bill'.moved[q][1]
                          /\ bill'.moved[s][3] = bill'.on[bill'.moved[q][1]].plan
      <4> DEFINE w == bill.moved[q][1]
      <4>1. /\ w \in DOMAIN bill.on
            /\ bill.on[w].plan # Nothing =>
                 \E s \in PaymentIds : /\ bill.moved[s] # Nothing
                                       /\ bill.moved[s][1] = w /\ bill.moved[s][3] = bill.on[w].plan
        BY <2>2, <3>1 DEF MovesFollow
      <4>2. bill'.on[w].plan \in {bill.on[w].plan, Nothing}
        BY <2>4, <2>5, <4>1
      <4> QED BY <2>2, <2>4, <4>1, <4>2
    <3>2. DOMAIN bill'.moved = PaymentIds
      BY <2>2 DEF MovesFollow
    <3> QED BY <3>1, <3>2 DEF MovesFollow
  <2>10. \A q \in Request : Unmoved(q)'
    BY <1>0, <2>2, UnmovedStays
  <2> QED BY <2>8, <2>9, <2>10
<1> QED BY <1>1, <1>2 DEF RemovePlan

(* A workspace that is moved is on the plan this request moved it to.      *)
LEMMA MoveKeeps ==
    ASSUME FiguresInv, BillTyped', NEW r \in Request, MoveWorkspace(r)
    PROVE  FiguresInv'
<1> USE DEF FiguresInv
<1> DEFINE b == body[r]
           w == b.workspace
           move == <<w, mem[r], b.plan>>
           row == [bill.on[w] EXCEPT !.plan = b.plan]
           t == [bill EXCEPT !.on[w].plan = b.plan, !.moved[r] = move]
<1>0. BillStep(r) /\ Finish(r) /\ At(r, "move", "move") /\ ~Ended(r)
  BY BillFrame DEF BillStep, MoveWorkspace, FiguresTyped
<1>1. CASE bill' = bill
  BY <1>0, <1>1, FiguresKept
<1>2. CASE bill.plan[b.plan] # Nothing /\ bill' = LoggedBy(r, t)
  <2>1. /\ w \in DOMAIN BillStart.on /\ b.plan \in PlanIds /\ b.plan \in BillRows("plan")
        /\ mem[r] \in PlanIds \cup {Nothing} /\ DOMAIN bill.on = DOMAIN BillStart.on
    BY <1>0, <1>2 DEF Unmoved, At, FiguresTyped, BillTyped, BodyFits, PlanIds, BillRows
  <2>2. r \in PaymentIds /\ bill.moved[r] = Nothing /\ DOMAIN bill.moved = PaymentIds
    BY <1>0, BillAssumption DEF Unmoved, MovesFollow
  <2>3. move # Nothing /\ move[1] = w /\ move[3] = b.plan
    <3>1. Nothing \notin (DOMAIN BillStart.on) \X (PlanIds \cup {Nothing}) \X PlanIds
      BY Zenon, BillAssumption
    <3> QED BY <2>1, <3>1
  <2>4. row \in WorkspaceRow /\ row.plan = b.plan
    <3>1. bill.on[w] \in WorkspaceRow
      BY <2>1 DEF FiguresTyped
    <3> QED BY <2>1, <3>1 DEF WorkspaceRow
  <2>5. /\ DOMAIN t = DOMAIN bill /\ t.payment = bill.payment /\ t.refund = bill.refund
        /\ t.plan = bill.plan /\ t.on = [bill.on EXCEPT ![w] = row]
        /\ t.moved = [bill.moved EXCEPT ![r] = move]
    BY DEF FiguresTyped, BillTyped
  <2> HIDE DEF t, row, move
  <2>6. /\ bill'.payment = bill.payment /\ bill'.refund = bill.refund /\ bill'.plan = bill.plan
        /\ bill'.on = [bill.on EXCEPT ![w] = row] /\ bill'.moved = [bill.moved EXCEPT ![r] = move]
    BY <1>2, <2>5 DEF LoggedBy, FiguresTyped, BillTyped
  <2>7. BillRows("plan")' = BillRows("plan")
    BY <2>6 DEF BillRows
  <2>8. FiguresTyped'
    <3>1. bill'.on \in [DOMAIN BillStart.on -> WorkspaceRow]
      BY <2>4, <2>6 DEF FiguresTyped
    <3>2. \A v \in DOMAIN bill'.on : bill'.on[v].plan \in BillRows("plan") \cup {Nothing}
      BY <2>1, <2>4, <2>6 DEF FiguresTyped
    <3> QED BY <2>6, <2>7, <3>1, <3>2 DEF FiguresTyped
  <2>9. MovesFollow'
    <3>1. ASSUME NEW q \in PaymentIds, bill'.moved[q] # Nothing
          PROVE  /\ bill'.moved[q][1] \in DOMAIN bill'.on
                 /\ bill'.on[bill'.moved[q][1]].plan # Nothing =>
                      \E s \in PaymentIds :
                          /\ bill'.moved[s] # Nothing /\ bill'.moved[s][1] = bill'.moved[q][1]
                          /\ bill'.moved[s][3] = bill'.on[bill'.moved[q][1]].plan
      <4> DEFINE v == bill'.moved[q][1]
      <4>1. CASE v = w
        <5>1. w \in DOMAIN bill'.on /\ bill'.on[w].plan = b.plan /\ bill'.moved[r] = move
          BY <2>1, <2>2, <2>4, <2>6
        <5> QED BY <2>2, <2>3, <4>1, <5>1
      <4>2. CASE v # w
        <5>1. q # r /\ bill'.moved[q] = bill.moved[q]
          BY <2>2, <2>3, <2>6, <4>2
        <5>2. /\ v \in DOMAIN bill.on
              /\ bill.on[v].plan # Nothing =>
                   \E s \in PaymentIds : /\ bill.moved[s] # Nothing
                                         /\ bill.moved[s][1] = v /\ bill.moved[s][3] = bill.on[v].plan
          BY <3>1, <5>1 DEF MovesFollow
        <5>3. v \in DOMAIN bill'.on /\ bill'.on[v] = bill.on[v]
          BY <2>6, <4>2, <5>2
        <5>4. \A s \in PaymentIds : bill.moved[s] # Nothing => bill'.moved[s] = bill.moved[s]
          BY <2>2, <2>6
        <5> HIDE DEF v
        <5> QED BY <5>2, <5>3, <5>4 DEF v
      <4> QED BY <4>1, <4>2
    <3>2. DOMAIN bill'.moved = PaymentIds
      BY <2>2, <2>6
    <3> QED BY <3>1, <3>2 DEF MovesFollow
  <2>10. \A q \in Request : Unmoved(q)'
    <3>1. Ended(r)'
      BY <1>0, FinishGoes DEF Ended, FiguresTyped, BillTyped
    <3>2. \A q \in Request : bill'.moved[q] # bill.moved[q] => q = r
      BY <2>2, <2>6
    <3> QED BY <1>0, <3>1, <3>2, UnmovedStays
  <2> QED BY <2>8, <2>9, <2>10
<1> QED BY <1>1, <1>2 DEF MoveWorkspace

(* A retry or a refund leaves the plan and the time of its payment.        *)
LEMMA StatusKeeps ==
    ASSUME FiguresInv, BillInv, BillTyped', NEW r \in Request, Retry(r) \/ Refund(r)
    PROVE  FiguresInv'
<1> USE DEF FiguresInv
<1> DEFINE i == body[r].id
           back == [amount |-> body[r].amount, at |-> Now]
<1>0. BillStep(r) /\ BillTyped
  BY DEF BillStep, FiguresTyped
<1>1. CASE bill' = bill
  BY <1>0, <1>1, FiguresKept
<1>2. ASSUME NEW s \in {"PENDING", "REFUNDED"}, NEW refund \in {bill.refund, [bill.refund EXCEPT ![i] = back]},
             back \in RefundRow \/ refund = bill.refund, i \in PaymentIds, bill.payment[i] # Nothing,
             bill'.payment = [bill.payment EXCEPT ![i] = [bill.payment[i] EXCEPT !.status = s]],
             bill'.refund = refund, bill'.on = bill.on, bill'.moved = bill.moved, bill'.plan = bill.plan
      PROVE  FiguresInv'
  <2> DEFINE row == [bill.payment[i] EXCEPT !.status = s]
  <2>1. BillRows("plan")' = BillRows("plan")
    BY <1>2 DEF BillRows
  <2>2. row.plan = bill.payment[i].plan /\ row.at = bill.payment[i].at
    <3>1. bill.payment[i] \in PaymentRow
      BY <1>0, <1>2 DEF BillTyped
    <3> QED BY <3>1 DEF PaymentRow
  <2> HIDE DEF row
  <2>3. bill'.payment = [bill.payment EXCEPT ![i] = row] /\ DOMAIN bill.payment = PaymentIds
    BY <1>0, <1>2 DEF row, BillTyped
  <2>4. \A j \in PaymentIds : bill'.payment[j] # Nothing =>
            bill'.payment[j].plan \in BillRows("plan") /\ bill'.payment[j].at <= Now
    BY <1>2, <2>2, <2>3 DEF FiguresTyped
  <2>5. bill'.refund \in [PaymentIds -> RefundRow \cup {Nothing}]
    BY <1>2 DEF FiguresTyped
  <2>6. FiguresTyped'
    BY <1>2, <2>1, <2>4, <2>5 DEF FiguresTyped
  <2>7. MovesFollow'
    BY <1>2 DEF MovesFollow
  <2>8. \A q \in Request : Unmoved(q)'
    BY <1>0, <1>2, UnmovedStays
  <2> QED BY <2>6, <2>7, <2>8
<1>3. CASE Retry(r)
  <2>1. i \in PaymentIds /\ bill.payment[i] # Nothing
    BY <1>0, <1>3 DEF Retry, At, Found, BillInv, BillTyped, BodyFits
  <2> DEFINE t == [bill EXCEPT !.payment[i].status = "PENDING"]
  <2>2. /\ DOMAIN t = DOMAIN bill /\ t.refund = bill.refund /\ t.on = bill.on
        /\ t.moved = bill.moved /\ t.plan = bill.plan
        /\ t.payment = [bill.payment EXCEPT ![i] = [bill.payment[i] EXCEPT !.status = "PENDING"]]
    BY <1>0 DEF BillTyped
  <2>3. bill' = LoggedBy(r, t)
    BY <1>3 DEF Retry
  <2> HIDE DEF t
  <2>4. /\ bill'.payment = t.payment /\ bill'.refund = t.refund /\ bill'.on = t.on
        /\ bill'.moved = t.moved /\ bill'.plan = t.plan
    BY <1>0, <2>2, <2>3 DEF LoggedBy, BillTyped
  <2> HIDE DEF i
  <2> QED BY <1>2, <2>1, <2>2, <2>4
<1>4. CASE Refund(r)
  <2>1. i \in PaymentIds /\ bill.payment[i] # Nothing
    BY <1>0, <1>4 DEF Refund, At, Found, BillInv, BillTyped, BodyFits
  <2>5. back \in RefundRow
    BY <1>0, <1>4, BillAssumption DEF Refund, At, BillTyped, BodyFits, RefundRow
  <2> DEFINE t == [bill EXCEPT !.payment[i].status = "REFUNDED", !.refund[i] = back]
  <2>2. /\ DOMAIN t = DOMAIN bill /\ t.refund = [bill.refund EXCEPT ![i] = back] /\ t.on = bill.on
        /\ t.moved = bill.moved /\ t.plan = bill.plan
        /\ t.payment = [bill.payment EXCEPT ![i] = [bill.payment[i] EXCEPT !.status = "REFUNDED"]]
    BY <1>0 DEF BillTyped
  <2>3. CASE bill' = LoggedBy(r, t)
    <3> HIDE DEF t
    <3>4. /\ bill'.payment = t.payment /\ bill'.refund = t.refund /\ bill'.on = t.on
          /\ bill'.moved = t.moved /\ bill'.plan = t.plan
      BY <1>0, <2>2, <2>3 DEF LoggedBy, BillTyped
    <3> HIDE DEF i, back
    <3> QED BY <1>2, <2>1, <2>2, <2>5, <3>4
  <2> QED BY <1>1, <1>4, <2>3 DEF Refund
<1> QED BY <1>3, <1>4

(* What is paid is paid now, and for a plan that is there.                 *)
LEMMA PaymentKeeps ==
    ASSUME FiguresInv, BillTyped', NEW r \in Request, PayAndInvoice(r)
    PROVE  FiguresInv'
<1> USE DEF FiguresInv
<1> DEFINE n == mem[r].number
           row == [user |-> body[r].user, plan |-> body[r].plan, amount |-> mem[r].price,
                   status |-> "SUCCESS", at |-> Now, coupon |-> Nothing, off |-> 0]
<1>0. BillStep(r) /\ BillTyped
  BY DEF BillStep, FiguresTyped
<1>1. CASE bill' = bill
  BY <1>0, <1>1, FiguresKept
<1>2. CASE bill.plan[body[r].plan] # Nothing /\ bill' = [Paid(r) EXCEPT !.invoice[r] = n]
  <2>1. body[r].plan \in BillRows("plan")
    BY <1>0, <1>2 DEF PayAndInvoice, At, BillTyped, BodyFits, BillRows, PlanIds
  <2>2. row.plan = body[r].plan /\ row.at <= Now
    BY BillAssumption
  <2>3. /\ bill'.payment = [bill.payment EXCEPT ![r] = row] /\ bill'.refund = bill.refund
        /\ bill'.plan = bill.plan /\ bill'.on = bill.on /\ bill'.moved = bill.moved
    BY <1>0, <1>2 DEF Paid, BillTyped
  <2> HIDE DEF row
  <2>4. BillRows("plan")' = BillRows("plan")
    BY <2>3 DEF BillRows
  <2>5. \A j \in PaymentIds : bill'.payment[j] # Nothing =>
            bill'.payment[j].plan \in BillRows("plan") /\ bill'.payment[j].at <= Now
    BY <1>0, <2>1, <2>2, <2>3 DEF FiguresTyped, BillTyped
  <2>6. FiguresTyped'
    BY <2>3, <2>4, <2>5 DEF FiguresTyped
  <2>7. MovesFollow'
    BY <2>3 DEF MovesFollow
  <2>8. \A q \in Request : Unmoved(q)'
    BY <1>0, <2>3, UnmovedStays
  <2> QED BY <2>6, <2>7, <2>8
<1> QED BY <1>1, <1>2 DEF PayAndInvoice

(* The coupons are tables of their own.                                    *)
LEMMA CouponKeeps ==
    ASSUME FiguresInv, BillTyped', NEW r \in Request, InsertCoupon(r) \/ UpdateCoupon(r) \/ RemoveCoupon(r)
    PROVE  FiguresInv'
<1> USE DEF FiguresInv
<1>0. BillStep(r) /\ BillTyped
  BY DEF BillStep, FiguresTyped
<1>1. PICK i, c : bill' = bill \/ bill' = LoggedBy(r, [bill EXCEPT !.coupon[i] = c])
  <2>1. CASE InsertCoupon(r)
    BY <2>1 DEF InsertCoupon
  <2>2. CASE UpdateCoupon(r)
    BY <2>2 DEF UpdateCoupon
  <2>3. CASE RemoveCoupon(r)
    BY <2>3 DEF RemoveCoupon
  <2> QED BY <2>1, <2>2, <2>3
<1>2. /\ bill'.payment = bill.payment /\ bill'.refund = bill.refund /\ bill'.on = bill.on
      /\ bill'.moved = bill.moved /\ bill'.plan = bill.plan
  BY <1>0, <1>1 DEF LoggedBy, BillTyped
<1> QED BY <1>0, <1>2, FiguresKept

LEMMA FiguresStay ==
    ASSUME FiguresInv, BillInv, NEW r \in Request, BillStep(r) \/ (Abort(r) /\ Stay)
    PROVE  FiguresInv'
<1>1. BillTyped'
  BY BillInvStays DEF BillInv
<1>2. CASE Stay
  BY <1>1, <1>2, FiguresKept DEF Stay
<1>3. CASE CreateCoupon(r) \/ FindCoupon(r) \/ CreatePlan(r) \/ FindPlan(r) \/ CountPlanUses(r)
  BY <1>2, <1>3 DEF CreateCoupon, FindCoupon, CreatePlan, FindPlan, CountPlanUses
<1>4. CASE FindNewPlan(r) \/ FindPayment(r) \/ SimulateLook(r) \/ CountInvoices(r)
  BY <1>2, <1>4 DEF FindNewPlan, FindPayment, SimulateLook, CountInvoices
<1> QED BY <1>1, <1>2, <1>3, <1>4, PlanKeeps, RemovalKeeps, MoveKeeps, StatusKeeps, PaymentKeeps,
           CouponKeeps DEF BillStep

(* The payments page, the coupons page, the plans page and the revenue     *)
(* page tell one story: the months of the chart and what came before them  *)
(* are all that was collected, this month's plans are this month, no plan  *)
(* earns more than there is, and who left or moved up is someone.          *)
THEOREM PagesStayInAgreement == BillSpec => []PagesAgree
<1> DEFINE Both == BillInv /\ FiguresInv
<1>1. RequestsInit /\ BillInit => Both
  BY BillStarts, FiguresStart
<1>2. Both /\ [BillNext]_<<requests, bill>> => Both'
  <2> SUFFICES ASSUME Both, [BillNext]_<<requests, bill>> PROVE Both'
    OBVIOUS
  <2>1. CASE UNCHANGED <<requests, bill>>
    <3>1. body' = body /\ pc' = pc /\ mem' = mem /\ lock' = lock /\ bill' = bill
      BY <2>1 DEF requests
    <3>2. BillInv'
      BY <2>1, BillInvRests
    <3>3. FiguresInv'
      BY <3>1, <3>2 DEF BillInv, FiguresInv, FiguresTyped, MovesFollow, Unmoved, Ended, At, BillRows
    <3> QED BY <3>2, <3>3
  <2>2. ASSUME NEW r \in Request, BillStep(r) \/ (Abort(r) /\ Stay) PROVE Both'
    BY <2>2, BillInvStays, FiguresStay
  <2> QED BY <2>1, <2>2 DEF BillNext
<1>3. Both => PagesAgree
  BY FiguresAddUp DEF FiguresInv
<1> QED BY <1>1, <1>2, <1>3, PTL DEF BillSpec

(***************************************************************************)
(* Categories and their entries                                            *)
(***************************************************************************)
BudgetNext == \E r \in Request : BudgetStep(r) \/ (Abort(r) /\ BudgetStays)

BudgetSpec == RequestsInit /\ BudgetInit /\ [][BudgetNext]_<<requests, budget>>

BudgetTyped ==
    /\ Framed
    /\ \A r \in Request : BudgetBodyFits(body[r])
    /\ DOMAIN budget = {"category", "goal", "entry", "target", "crossed", "stray"}
    /\ budget.category \in [BudgetIds -> CategoryRow \cup {Nothing}]
    /\ budget.entry \in [BudgetIds -> EntryRow \cup {Nothing}]

Categories == {c \in BudgetIds : budget.category[c] # Nothing}

NamesApart ==
    \A c, d \in Categories :
        budget.category[c].type = budget.category[d].type
          /\ budget.category[c].name = budget.category[d].name => c = d

(* A category's entries are of its type.                                   *)
TypesFollow ==
    \A e \in BudgetIds : budget.entry[e] # Nothing =>
        LET c == budget.entry[e].of
        IN  budget.category[c] # Nothing => budget.entry[e].type = budget.category[c].type

(* A rename that has read its category, and what a request holds of the    *)
(* category it has read, or of the entry.                                  *)
Renaming(r) ==
    body[r].op = "edit-category" /\ pc[r] \in {"category", "find-entries", "claim-entries", "save"}

Holds(r) == Renaming(r) \/ At(r, "quick-entry", "post-entry")

ReadRight(r) ==
    /\ At(r, "new-category", "insert") => mem[r] \in Int
    /\ Holds(r) =>
        LET row == budget.category[body[r].category]
        IN  mem[r].row \in CategoryRow /\ (row # Nothing => row.type = mem[r].row.type)
    /\ Renaming(r) => mem[r] \in [row : CategoryRow, entries : SUBSET BudgetIds]
    /\ At(r, "edit-category", "category") => mem[r].entries = {}
    /\ At(r, "void-entry", "reverse-entry") =>
        LET row == budget.entry[body[r].entry]
        IN  mem[r] \in EntryRow /\ row # Nothing /\ row.of = mem[r].of /\ row.type = mem[r].type

(* A row is new when it is inserted: nobody has read the category, and no  *)
(* entry is meant for it.                                                  *)
RowsNew(r) ==
    ~Ended(r) =>
        /\ budget.category[r] = Nothing /\ budget.entry[r] = Nothing
        /\ \A e \in BudgetIds : budget.entry[e] # Nothing => budget.entry[e].of # r
        /\ \A q \in Request : Holds(q) => body[q].category # r

(* The entries that must go by the name of the category.                   *)
Meant(c) ==
    {e \in BudgetIds \ budget.stray :
        budget.entry[e] # Nothing /\ budget.entry[e].of = c /\ ~budget.entry[e].reverses}

Uncrossed == Categories \ budget.crossed

NamesFollow ==
    \A c \in Uncrossed : \A e \in Meant(c) : budget.entry[e].name = budget.category[c].name

(* A rename of what the category is still called has found all of its      *)
(* entries,                                                                *)
FoundAll(r) ==
    \A c \in Uncrossed :
        r \in Renames(c) /\ budget.category[c].name = mem[r].row.name => Meant(c) \subseteq mem[r].entries

(* and those it has claimed bear the name until it commits, since no other *)
(* rename has claimed them.                                                *)
Claims(r) == At(r, "edit-category", "save")

Claimed(r) ==
    Claims(r) =>
        \A e \in mem[r].entries :
            /\ budget.entry[e] # Nothing
            /\ budget.entry[e].name = mem[r].row.name /\ budget.entry[e].type = mem[r].row.type

ClaimsApart(r) ==
    \A q \in Request \ {r} : Claims(r) /\ Claims(q) => mem[r].entries \cap mem[q].entries = {}

BudgetInv ==
    /\ BudgetTyped /\ NamesApart /\ TypesFollow /\ NamesFollow
    /\ \A r \in Request : ReadRight(r) /\ RowsNew(r)
    /\ \A r \in Request : FoundAll(r) /\ Claimed(r) /\ ClaimsApart(r)

LEMMA BudgetStarts == RequestsInit /\ BudgetInit => BudgetInv
<1> SUFFICES ASSUME RequestsInit, BudgetInit PROVE BudgetInv
  OBVIOUS
<1> USE BudgetAssumption DEF BudgetInit
<1>1. \A r \in Request : BudgetBodyFits(body[r])
  <2>1. \A r \in Request : body[r].op # "none" => \E s \in Scenario : body[r] \in s.bodies
    BY RequestsStart DEF NoBody
  <2> QED BY <2>1, BudgetBodies DEF BudgetBodyFits
<1>2. BudgetTyped
  BY <1>1, RequestsStart DEF BudgetTyped
<1>3. NamesApart
  BY DEF NamesApart, Categories
<1>4. TypesFollow /\ NamesFollow
  <2>1. ASSUME NEW e \in BudgetIds, budget.entry[e] # Nothing, budget.category[budget.entry[e].of] # Nothing
        PROVE  /\ budget.entry[e].type = budget.category[budget.entry[e].of].type
               /\ budget.entry[e].name = budget.category[budget.entry[e].of].name
    <3>1. budget.entry[e].of \in BudgetIds
      BY <2>1 DEF EntryRow
    <3> QED BY <2>1, <3>1
  <2> QED BY <2>1 DEF TypesFollow, NamesFollow, Meant, Uncrossed, Categories
<1>5. \A r \in Request : ~Holds(r) /\ ~At(r, "new-category", "insert") /\ ~At(r, "void-entry", "reverse-entry")
  BY RequestsStart DEF Holds, Renaming, At
<1>6. \A r \in Request : ReadRight(r) /\ RowsNew(r)
  BY <1>5 DEF ReadRight, RowsNew, Holds, Renaming, At
<1>7. \A r \in Request : FoundAll(r) /\ Claimed(r) /\ ClaimsApart(r)
  BY <1>5 DEF FoundAll, Renames, Claimed, ClaimsApart, Claims, Holds, Renaming, At
<1> QED BY <1>2, <1>3, <1>4, <1>6, <1>7 DEF BudgetInv

LEMMA BudgetMoves ==
    ASSUME NEW r \in Request, BudgetStep(r) \/ Abort(r)
    PROVE  Moves(r) /\ ~Ended(r)
<1> USE FinishMoves, AwaitMoves, KeepMoves DEF At, Ended
<1>1. CASE FindCategoryName(r) \/ InsertCategory(r) \/ RequireCategory(r) \/ CheckClash(r)
  BY <1>1 DEF FindCategoryName, InsertCategory, RequireCategory, CheckClash
<1>2. CASE SaveCategory(r) \/ DropCategory(r) \/ SetTarget(r) \/ FindGoalOf(r) \/ InsertGoal(r)
  BY <1>2 DEF SaveCategory, DropCategory, SetTarget, FindGoalOf, InsertGoal
<1>3. CASE RequireIncomeGoal(r) \/ CheckMonth(r) \/ MoveGoal(r) \/ DropGoal(r)
  BY <1>3 DEF RequireIncomeGoal, CheckMonth, MoveGoal, DropGoal
<1>4. CASE RequireAccounts(r) \/ PostEntry(r) \/ FindOriginal(r) \/ VoidEntry(r)
  BY <1>4 DEF RequireAccounts, PostEntry, FindOriginal, VoidEntry
<1>5. CASE FindEntries(r) \/ ClaimEntries(r)
  BY <1>5 DEF FindEntries, ClaimEntries
<1>6. CASE Abort(r)
  BY <1>6, AbortMoves DEF Abort
<1> QED BY <1>1, <1>2, <1>3, <1>4, <1>5, <1>6 DEF BudgetStep

(* Where a request comes to hold something.                                *)
LEMMA BudgetComesFrom ==
    ASSUME BudgetTyped, NEW r \in Request, BudgetStep(r) \/ (Abort(r) /\ BudgetStays)
    PROVE  /\ At(r, "new-category", "insert")' => FindCategoryName(r)
           /\ At(r, "quick-entry", "post-entry")' => RequireAccounts(r)
           /\ At(r, "void-entry", "reverse-entry")' => FindOriginal(r)
           /\ Renaming(r)' => RequireCategory(r) \/ CheckClash(r) \/ FindEntries(r) \/ ClaimEntries(r)
<1> USE DEF BudgetTyped
<1>0. body' = body
  BY BudgetMoves DEF Moves
<1>1. CASE Finish(r) \/ Abort(r)
  BY <1>1, FinishGoes, AbortGoes DEF Renaming, At
<1>2. CASE body[r].op \notin {"new-category", "edit-category", "quick-entry", "void-entry"}
  BY <1>0, <1>2 DEF Renaming, At
<1>3. CASE InsertCategory(r) \/ SaveCategory(r) \/ DropCategory(r) \/ SetTarget(r) \/ InsertGoal(r)
  BY <1>1, <1>3 DEF InsertCategory, SaveCategory, DropCategory, SetTarget, InsertGoal
<1>4. CASE MoveGoal(r) \/ DropGoal(r) \/ PostEntry(r) \/ VoidEntry(r)
  BY <1>1, <1>4 DEF MoveGoal, DropGoal, PostEntry, VoidEntry
<1>5. CASE FindGoalOf(r) \/ RequireIncomeGoal(r) \/ CheckMonth(r)
  BY <1>2, <1>5 DEF FindGoalOf, RequireIncomeGoal, CheckMonth, At
<1>6. CASE FindCategoryName(r) \/ RequireCategory(r) \/ CheckClash(r) \/ RequireAccounts(r)
  BY <1>0, <1>6 DEF FindCategoryName, RequireCategory, CheckClash, RequireAccounts, Renaming, At
<1>7. CASE FindEntries(r) \/ ClaimEntries(r) \/ FindOriginal(r)
  BY <1>0, <1>7 DEF FindEntries, ClaimEntries, FindOriginal, Renaming, At
<1> QED BY <1>1, <1>3, <1>4, <1>5, <1>6, <1>7 DEF BudgetStep

LEMMA BudgetFrame ==
    ASSUME BudgetTyped, NEW r \in Request, BudgetStep(r) \/ (Abort(r) /\ BudgetStays)
    PROVE  /\ Framed' /\ body' = body /\ ~Ended(r)
           /\ \A q \in Request \ {r} : pc'[q] = pc[q] /\ mem'[q] = mem[q]
           /\ \A q \in Request : ~Ended(q)' => ~Ended(q)
<1>1. Framed' /\ body' = body /\ ~Ended(r)
      /\ \A q \in Request \ {r} : pc'[q] = pc[q] /\ mem'[q] = mem[q]
  BY BudgetMoves, OthersStay DEF BudgetTyped
<1> QED BY <1>1 DEF Ended

(* Categories keep their types; one that is new was inserted by r.         *)
KindToCategories(r) ==
    \A c \in BudgetIds : budget'.category[c] # Nothing =>
        \/ budget.category[c] # Nothing /\ budget'.category[c].type = budget.category[c].type
        \/ c = r /\ Ended(r)'

(* Entries keep their types and what they are meant for; one that is new   *)
(* is r's, for a category that had entries or that r holds.                *)
KindToEntries(r) ==
    \A e \in BudgetIds :
        /\ budget.entry[e] # Nothing =>
             /\ budget'.entry[e] # Nothing
             /\ budget'.entry[e].type = budget.entry[e].type /\ budget'.entry[e].of = budget.entry[e].of
             /\ budget'.entry[e].reverses = budget.entry[e].reverses
        /\ budget'.entry[e] # Nothing /\ budget.entry[e] = Nothing =>
             /\ e = r /\ Ended(r)'
             /\ \/ Holds(r) /\ budget'.entry[e].of = body[r].category
                \/ \E d \in BudgetIds : budget.entry[d] # Nothing /\ budget'.entry[e].of = budget.entry[d].of

(* What another rename has found and claimed stays what it must find and   *)
(* may claim.                                                              *)
KindToRenames(r) ==
    /\ budget.crossed \subseteq budget'.crossed /\ budget.stray \subseteq budget'.stray
    /\ \A q \in Request \ {r} : \A c \in BudgetIds \ budget'.crossed :
          q \in Renames(c) /\ budget'.category[c] # Nothing /\ budget'.category[c].name = mem[q].row.name =>
              /\ budget.category[c].name = mem[q].row.name
              /\ \A e \in BudgetIds \ budget'.stray :
                    budget'.entry[e] # Nothing /\ budget'.entry[e].of = c /\ ~budget'.entry[e].reverses =>
                        budget.entry[e] # Nothing
    /\ \A q \in Request \ {r} : Claims(q) =>
          \A e \in mem[q].entries : budget.entry[e] # Nothing => budget'.entry[e].name = budget.entry[e].name

Kindly(r) == KindToCategories(r) /\ KindToEntries(r) /\ KindToRenames(r)

(* What a request has just read is right, and not new.                     *)
LEMMA JustRead ==
    ASSUME BudgetInv, NEW r \in Request, BudgetStep(r) \/ (Abort(r) /\ BudgetStays)
    PROVE  /\ At(r, "new-category", "insert")' => mem'[r] \in Int
           /\ At(r, "edit-category", "category")' => mem'[r].entries = {}
           /\ Holds(r)' =>
                LET row == budget.category[body[r].category]
                IN  /\ mem'[r].row \in CategoryRow /\ (row # Nothing => row.type = mem'[r].row.type)
                    /\ budget' = budget
                    /\ row # Nothing \/ Holds(r)
           /\ Renaming(r)' => mem'[r] \in [row : CategoryRow, entries : SUBSET BudgetIds]
           /\ At(r, "void-entry", "reverse-entry")' =>
                mem'[r] = budget.entry[body[r].entry] /\ mem'[r] \in EntryRow /\ mem'[r] # Nothing /\ budget' = budget
<1> USE DEF BudgetInv
<1>0. body' = body /\ Framed
  BY BudgetFrame DEF BudgetTyped
<1>1. ASSUME At(r, "new-category", "insert")' PROVE mem'[r] \in Int
  <2>1. FindCategoryName(r) /\ pc'[r] # "done"
    BY <1>1, BudgetComesFrom DEF At
  <2>2. mem'[r] = CategoryCount(body[r].type)
    BY <1>0, <2>1, FinishGoes, KeepGoes DEF FindCategoryName
  <2>3. IsFiniteSet({c \in BudgetRows("category") : budget.category[c].type = body[r].type})
    BY FS_Subset, BudgetAssumption DEF BudgetRows, BudgetTyped
  <2> QED BY <2>2, <2>3, FS_CardinalityType DEF CategoryCount
<1> DEFINE row == budget.category[body[r].category]
<1>2. ASSUME At(r, "quick-entry", "post-entry")'
      PROVE  /\ mem'[r].row \in CategoryRow /\ (row # Nothing => row.type = mem'[r].row.type)
             /\ budget' = budget /\ row # Nothing
  <2>1. pc'[r] # "done" /\ RequireAccounts(r)
    BY <1>2, BudgetComesFrom DEF At
  <2>2. body[r].category \in BudgetIds
    BY <2>1 DEF BudgetTyped, BudgetBodyFits, RequireAccounts, At
  <2>3. row # Nothing /\ mem'[r] = [row |-> row] /\ budget' = budget
    BY <1>0, <2>1, FinishGoes, KeepGoes DEF RequireAccounts, BudgetStays
  <2> QED BY <2>2, <2>3 DEF BudgetTyped
<1>3. ASSUME Renaming(r)'
      PROVE  /\ mem'[r] \in [row : CategoryRow, entries : SUBSET BudgetIds]
             /\ mem'[r].row \in CategoryRow /\ (row # Nothing => row.type = mem'[r].row.type)
             /\ budget' = budget /\ (row # Nothing \/ Holds(r))
             /\ At(r, "edit-category", "category")' => mem'[r].entries = {}
  <2>1. pc'[r] # "done" /\ body[r].category \in BudgetIds
    BY <1>0, <1>3 DEF Renaming, BudgetTyped, BudgetBodyFits
  <2>2. CASE RequireCategory(r)
    <3>1. row # Nothing /\ mem'[r] = [row |-> row, entries |-> {}] /\ budget' = budget
      BY <1>0, <2>1, <2>2, FinishGoes, KeepGoes DEF RequireCategory, BudgetStays
    <3> QED BY <2>1, <3>1 DEF BudgetTyped
  <2>3. CASE CheckClash(r)
    <3>1. mem'[r] = mem[r] /\ budget' = budget /\ Renaming(r) /\ pc'[r] # "category"
      BY <1>0, <2>1, <2>3, FinishGoes, AwaitGoes DEF CheckClash, BudgetStays, Renaming, At
    <3> QED BY <3>1 DEF ReadRight, Holds, At
  <2>4. CASE FindEntries(r) \/ ClaimEntries(r)
    <3>1. Renaming(r) /\ budget' = budget
      BY <2>4 DEF FindEntries, ClaimEntries, BudgetStays, Renaming, At
    <3>2. mem[r] \in [row : CategoryRow, entries : SUBSET BudgetIds]
      BY <3>1 DEF ReadRight
    <3>3. Bearing(mem[r].row) \subseteq BudgetIds
      BY DEF Bearing, BudgetRows, BudgetTyped
    <3>4. /\ mem'[r] \in {[mem[r] EXCEPT !.entries = Bearing(mem[r].row)],
                          [mem[r] EXCEPT !.entries = @ \cap Bearing(mem[r].row)]}
          /\ pc'[r] # "category"
      BY <1>0, <2>4, KeepGoes DEF FindEntries, ClaimEntries
    <3>5. mem'[r] \in [row : CategoryRow, entries : SUBSET BudgetIds] /\ mem'[r].row = mem[r].row
          /\ pc'[r] # "category"
      BY <3>2, <3>3, <3>4
    <3> QED BY <3>1, <3>5 DEF ReadRight, Holds, At
  <2> QED BY <1>3, <2>2, <2>3, <2>4, BudgetComesFrom
<1>4. ASSUME At(r, "void-entry", "reverse-entry")'
      PROVE  mem'[r] = budget.entry[body[r].entry] /\ mem'[r] \in EntryRow /\ mem'[r] # Nothing /\ budget' = budget
  <2>1. pc'[r] # "done" /\ FindOriginal(r)
    BY <1>4, BudgetComesFrom DEF At
  <2>2. body[r].entry \in BudgetIds
    BY <2>1 DEF BudgetTyped, BudgetBodyFits, FindOriginal, At
  <2>3. budget.entry[body[r].entry] # Nothing /\ mem'[r] = budget.entry[body[r].entry] /\ budget' = budget
    BY <1>0, <2>1, FinishGoes, KeepGoes DEF FindOriginal, Voidable, BudgetStays
  <2> QED BY <2>2, <2>3 DEF BudgetTyped
<1>5. At(r, "edit-category", "category")' => Renaming(r)'
  BY DEF At, Renaming
<1>6. Holds(r)' => Renaming(r)' \/ At(r, "quick-entry", "post-entry")'
  BY DEF Holds
<1> HIDE DEF row
<1> QED BY <1>1, <1>2, <1>3, <1>4, <1>5, <1>6 DEF row

LEMMA HeldStays ==
    ASSUME BudgetInv, NEW r \in Request, BudgetStep(r) \/ (Abort(r) /\ BudgetStays), Kindly(r)
    PROVE  \A q \in Request : ReadRight(q)' /\ RowsNew(q)'
<1> USE DEF BudgetInv
<1>0. /\ body' = body /\ ~Ended(r) /\ Request \subseteq BudgetIds
      /\ \A q \in Request \ {r} : pc'[q] = pc[q] /\ mem'[q] = mem[q]
      /\ \A q \in Request : ~Ended(q)' => ~Ended(q)
  BY BudgetFrame, BudgetAssumption
<1>1. ReadRight(r)'
  BY <1>0, JustRead DEF ReadRight
<1>2. ASSUME NEW q \in Request \ {r} PROVE ReadRight(q)'
  <2>1. /\ Renaming(q)' = Renaming(q) /\ Holds(q)' = Holds(q)
        /\ At(q, "new-category", "insert")' = At(q, "new-category", "insert")
        /\ At(q, "edit-category", "category")' = At(q, "edit-category", "category")
        /\ At(q, "void-entry", "reverse-entry")' = At(q, "void-entry", "reverse-entry")
    BY <1>0 DEF Holds, Renaming, At
  <2>2. Holds(q) => body[q].category # r /\ body[q].category \in BudgetIds
    BY <1>0 DEF RowsNew, Holds, Renaming, At, BudgetTyped, BudgetBodyFits
  <2>3. ASSUME Holds(q)
        PROVE  LET row == budget'.category[body[q].category]
               IN  mem'[q].row \in CategoryRow /\ (row # Nothing => row.type = mem'[q].row.type)
    BY <1>0, <2>2, <2>3 DEF Kindly, KindToCategories, ReadRight
  <2>4. ASSUME At(q, "void-entry", "reverse-entry")
        PROVE  LET row == budget'.entry[body[q].entry]
               IN  mem'[q] \in EntryRow /\ row # Nothing /\ row.of = mem'[q].of /\ row.type = mem'[q].type
    <3>1. body[q].entry \in BudgetIds
      BY <2>4 DEF At, BudgetTyped, BudgetBodyFits
    <3> QED BY <1>0, <2>4, <3>1 DEF Kindly, KindToEntries, ReadRight
  <2> QED BY <1>0, <2>1, <2>3, <2>4 DEF ReadRight
<1>3. ASSUME NEW q \in Request, ~Ended(q)' PROVE RowsNew(q)'
  <2>1. ~Ended(q) /\ RowsNew(q)
    BY <1>0, <1>3
  <2>2. budget'.category[q] = Nothing /\ budget'.entry[q] = Nothing
    BY <1>0, <1>3, <2>1 DEF RowsNew, Kindly, KindToCategories, KindToEntries
  <2>3. \A e \in BudgetIds : budget'.entry[e] # Nothing => budget'.entry[e].of # q
    BY <2>1 DEF RowsNew, Kindly, KindToEntries
  <2>4. ASSUME NEW p \in Request, Holds(p)' PROVE body[p].category # q
    <3>1. CASE p = r
      BY <2>1, <2>4, <3>1, JustRead DEF RowsNew
    <3>2. CASE p # r
      BY <1>0, <2>1, <2>4, <3>2 DEF RowsNew, Holds, Renaming, At
    <3> QED BY <3>1, <3>2
  <2> QED BY <1>0, <2>2, <2>3, <2>4 DEF RowsNew
<1> QED BY <1>1, <1>2, <1>3 DEF RowsNew

LEMMA OthersHold ==
    ASSUME BudgetInv, NEW r \in Request, BudgetStep(r) \/ (Abort(r) /\ BudgetStays), Kindly(r),
           NEW q \in Request \ {r}
    PROVE  FoundAll(q)' /\ Claimed(q)'
<1> USE DEF BudgetInv
<1>0. body' = body /\ pc'[q] = pc[q] /\ mem'[q] = mem[q] /\ ~Ended(r)
  BY BudgetFrame
<1>1. ASSUME NEW c \in Uncrossed', (q \in Renames(c))', budget'.category[c].name = mem'[q].row.name,
             NEW e \in Meant(c)'
      PROVE  e \in mem'[q].entries
  <2>1. /\ c \in BudgetIds \ budget'.crossed /\ budget'.category[c] # Nothing
        /\ e \in BudgetIds \ budget'.stray /\ budget'.entry[e] # Nothing
        /\ budget'.entry[e].of = c /\ ~budget'.entry[e].reverses
    BY <1>1 DEF Uncrossed, Categories, Meant
  <2>2. q \in Renames(c) /\ Holds(q) /\ body[q].category = c
    BY <1>0, <1>1 DEF Renames, Holds, Renaming
  <2>3. budget.category[c] # Nothing
    BY <1>0, <2>1, <2>2 DEF RowsNew, Kindly, KindToCategories
  <2>4. c \in Uncrossed /\ budget.category[c].name = mem[q].row.name
        /\ budget.entry[e] # Nothing /\ e \notin budget.stray
    BY <1>0, <1>1, <2>1, <2>2, <2>3 DEF Kindly, KindToRenames, Uncrossed, Categories
  <2>5. budget'.entry[e].of = budget.entry[e].of /\ budget'.entry[e].reverses = budget.entry[e].reverses
    BY <2>1, <2>4 DEF Kindly, KindToEntries
  <2>6. e \in Meant(c)
    BY <2>1, <2>4, <2>5 DEF Meant
  <2> QED BY <1>0, <2>2, <2>4, <2>6 DEF FoundAll
<1>2. FoundAll(q)'
  BY <1>1 DEF FoundAll
<1>3. ASSUME Claims(q), NEW e \in mem[q].entries
      PROVE  /\ budget'.entry[e] # Nothing
             /\ budget'.entry[e].name = mem[q].row.name /\ budget'.entry[e].type = mem[q].row.type
  <2>1. e \in BudgetIds
    BY <1>3 DEF Claims, At, Renaming, ReadRight
  <2>2. budget.entry[e] # Nothing
        /\ budget.entry[e].name = mem[q].row.name /\ budget.entry[e].type = mem[q].row.type
    BY <1>3 DEF Claimed
  <2>3. budget'.entry[e] # Nothing /\ budget'.entry[e].type = budget.entry[e].type
    BY <2>1, <2>2 DEF Kindly, KindToEntries
  <2>4. budget'.entry[e].name = budget.entry[e].name
    BY <1>3, <2>2 DEF Kindly, KindToRenames
  <2> QED BY <2>2, <2>3, <2>4
<1>4. Claims(q)' = Claims(q)
  BY <1>0 DEF Claims, At
<1>5. Claimed(q)'
  BY <1>0, <1>3, <1>4 DEF Claimed
<1> QED BY <1>2, <1>5

(* What a rename finds and claims is all it must, and nobody else's.       *)
LEMMA JustClaimed ==
    ASSUME BudgetInv, NEW r \in Request, BudgetStep(r) \/ (Abort(r) /\ BudgetStays)
    PROVE  /\ FoundAll(r)' /\ Claimed(r)'
           /\ \A q \in Request \ {r} : Claims(r)' /\ Claims(q)' => mem'[r].entries \cap mem'[q].entries = {}
<1> USE DEF BudgetInv
<1>0. /\ body' = body /\ Framed
      /\ \A q \in Request \ {r} : pc'[q] = pc[q] /\ mem'[q] = mem[q]
  BY BudgetFrame DEF BudgetTyped
<1>1. ASSUME FindEntries(r) \/ ClaimEntries(r)
      PROVE  /\ budget' = budget /\ Renaming(r) /\ mem'[r].row = mem[r].row
             /\ FindEntries(r) => mem'[r].entries = Bearing(mem[r].row) /\ pc'[r] = "claim-entries"
             /\ ClaimEntries(r) => mem'[r].entries = mem[r].entries \cap Bearing(mem[r].row) /\ pc'[r] = "save"
  <2>1. Renaming(r) /\ mem[r] \in [row : CategoryRow, entries : SUBSET BudgetIds]
    BY <1>1 DEF FindEntries, ClaimEntries, At, Renaming, ReadRight
  <2>2. budget' = budget
    BY <1>1 DEF FindEntries, ClaimEntries, BudgetStays
  <2>3. CASE FindEntries(r)
    <3>1. mem'[r] = [mem[r] EXCEPT !.entries = Bearing(mem[r].row)] /\ pc'[r] = "claim-entries"
      BY <1>0, <2>3, KeepGoes DEF FindEntries
    <3>2. mem'[r].entries = Bearing(mem[r].row) /\ mem'[r].row = mem[r].row
      BY <2>1, <3>1
    <3> QED BY <2>1, <2>2, <2>3, <3>1, <3>2 DEF ClaimEntries, FindEntries, At
  <2>4. CASE ClaimEntries(r)
    <3>1. mem'[r] = [mem[r] EXCEPT !.entries = mem[r].entries \cap Bearing(mem[r].row)] /\ pc'[r] = "save"
      BY <1>0, <2>1, <2>4, KeepGoes DEF ClaimEntries
    <3>2. mem'[r].entries = mem[r].entries \cap Bearing(mem[r].row) /\ mem'[r].row = mem[r].row
      BY <2>1, <3>1
    <3> QED BY <2>1, <2>2, <2>4, <3>1, <3>2 DEF ClaimEntries, FindEntries, At
  <2> QED BY <1>1, <2>3, <2>4
<1>2. ASSUME CheckClash(r), pc'[r] = "save"
      PROVE  mem'[r].entries = {} /\ body[r].name = mem'[r].row.name
  <2>1. mem'[r] = mem[r] /\ pc'[r] = IF body[r].name = mem[r].row.name THEN "save" ELSE "find-entries"
    BY <1>0, <1>2, FinishGoes, AwaitGoes DEF CheckClash
  <2> QED BY <1>2, <2>1 DEF CheckClash, ReadRight
<1>3. Renaming(r)' => RequireCategory(r) \/ CheckClash(r) \/ FindEntries(r) \/ ClaimEntries(r)
  BY BudgetComesFrom
<1>4. RequireCategory(r) => pc'[r] \in {"category", "done"}
  BY <1>0, FinishGoes, KeepGoes DEF RequireCategory
<1>5. CheckClash(r) => pc'[r] \in {"find-entries", "save", "done"}
  BY <1>0, FinishGoes, AwaitGoes DEF CheckClash
<1>6. ASSUME NEW c \in Uncrossed', (r \in Renames(c))', budget'.category[c].name = mem'[r].row.name,
             NEW e \in Meant(c)'
      PROVE  e \in mem'[r].entries
  <2>1. /\ Renaming(r)' /\ pc'[r] \in {"claim-entries", "save"} /\ body[r].category = c
        /\ pc'[r] = "save" => body[r].name # mem'[r].row.name
    BY <1>0, <1>6 DEF Renames, Renaming
  <2>2. FindEntries(r) \/ ClaimEntries(r)
    BY <1>2, <1>3, <1>4, <1>5, <2>1
  <2>3. budget' = budget /\ Renaming(r) /\ mem'[r].row = mem[r].row
    BY <1>1, <2>2
  <2>4. c \in Uncrossed /\ e \in Meant(c) /\ budget.category[c].name = mem[r].row.name
    BY <1>6, <2>3 DEF Uncrossed, Categories, Meant
  <2>5. /\ c \in BudgetIds /\ budget.category[c] # Nothing
        /\ e \in BudgetIds /\ budget.entry[e] # Nothing /\ budget.entry[e].of = c
    BY <2>4 DEF Uncrossed, Categories, Meant
  <2>6. budget.entry[e].name = mem[r].row.name
    BY <2>4 DEF NamesFollow
  <2>7. budget.entry[e].type = mem[r].row.type
    BY <2>1, <2>3, <2>5 DEF TypesFollow, ReadRight, Holds
  <2>8. e \in Bearing(mem[r].row)
    BY <2>5, <2>6, <2>7 DEF Bearing, BudgetRows, BudgetTyped
  <2>9. CASE ClaimEntries(r)
    <3>1. r \in Renames(c)
      BY <2>1, <2>9 DEF Renames, ClaimEntries, At
    <3>2. e \in mem[r].entries
      BY <2>4, <3>1 DEF FoundAll
    <3> QED BY <1>1, <2>8, <2>9, <3>2
  <2> QED BY <1>1, <2>2, <2>8, <2>9
<1>7. FoundAll(r)'
  BY <1>6 DEF FoundAll
<1>8. Claims(r)' => CheckClash(r) \/ ClaimEntries(r)
  <2>1. Claims(r)' => Renaming(r)' /\ pc'[r] = "save"
    BY DEF Claims, At, Renaming
  <2>2. FindEntries(r) => pc'[r] = "claim-entries"
    BY <1>1
  <2> QED BY <1>3, <1>4, <2>1, <2>2
<1>9. Claimed(r)'
  <2>1. ASSUME Claims(r)', NEW e \in mem'[r].entries
        PROVE  /\ budget'.entry[e] # Nothing
               /\ budget'.entry[e].name = mem'[r].row.name /\ budget'.entry[e].type = mem'[r].row.type
    <3>1. ClaimEntries(r)
      BY <1>2, <1>8, <2>1 DEF Claims, At
    <3>2. e \in Bearing(mem[r].row) /\ budget' = budget /\ mem'[r].row = mem[r].row
      BY <1>1, <2>1, <3>1
    <3> QED BY <3>2 DEF Bearing, BudgetRows
  <2> QED BY <2>1 DEF Claimed
<1>10. ASSUME NEW q \in Request \ {r}, Claims(r)', Claims(q)'
       PROVE  mem'[r].entries \cap mem'[q].entries = {}
  <2>1. CASE CheckClash(r)
    BY <1>2, <1>10, <2>1 DEF Claims, At
  <2>2. CASE ClaimEntries(r)
    <3>1. At(q, "edit-category", "save") /\ mem'[q] = mem[q]
      BY <1>0, <1>10 DEF Claims, At
    <3>2. mem[q].entries \cap mem[r].entries = {}
      BY <2>2, <3>1 DEF ClaimEntries
    <3>3. mem'[r].entries \subseteq mem[r].entries
      BY <1>1, <2>2
    <3> QED BY <3>1, <3>2, <3>3
  <2> QED BY <1>8, <1>10, <2>1, <2>2
<1> QED BY <1>7, <1>9, <1>10

(* A kind step that keeps types and names keeps everything.                *)
LEMMA BudgetKept ==
    ASSUME BudgetInv, NEW r \in Request, BudgetStep(r) \/ (Abort(r) /\ BudgetStays), Kindly(r),
           BudgetTyped', NamesApart', TypesFollow', NamesFollow'
    PROVE  BudgetInv'
<1>1. \A q \in Request : ReadRight(q)' /\ RowsNew(q)'
  BY HeldStays
<1>2. \A q \in Request : FoundAll(q)' /\ Claimed(q)'
  BY OthersHold, JustClaimed
<1>3. ASSUME NEW p \in Request, NEW q \in Request \ {p}, Claims(p)', Claims(q)'
      PROVE  mem'[p].entries \cap mem'[q].entries = {}
  <2>1. CASE p = r \/ q = r
    BY <1>3, <2>1, JustClaimed
  <2>2. CASE p # r /\ q # r
    <3>1. /\ Claims(p) /\ Claims(q) /\ mem'[p] = mem[p] /\ mem'[q] = mem[q]
      BY <1>3, <2>2, BudgetFrame DEF Claims, At, BudgetInv
    <3> QED BY <3>1 DEF BudgetInv, ClaimsApart
  <2> QED BY <2>1, <2>2
<1>4. \A q \in Request : ClaimsApart(q)'
  BY <1>3 DEF ClaimsApart
<1> QED BY <1>1, <1>2, <1>4 DEF BudgetInv

(* A step that leaves categories and entries as they are.                  *)
LEMMA BudgetQuiet ==
    ASSUME BudgetInv, NEW r \in Request, BudgetStep(r) \/ (Abort(r) /\ BudgetStays),
           DOMAIN budget' = DOMAIN budget, budget'.category = budget.category,
           budget'.entry = budget.entry, budget'.crossed = budget.crossed, budget'.stray = budget.stray
    PROVE  BudgetInv'
<1>1. BudgetTyped'
  BY BudgetFrame DEF BudgetInv, BudgetTyped
<1>2. NamesApart' /\ TypesFollow' /\ NamesFollow'
  BY DEF BudgetInv, NamesApart, Categories, TypesFollow, NamesFollow, Uncrossed, Meant
<1>3. Kindly(r)
  BY DEF Kindly, KindToCategories, KindToEntries, KindToRenames
<1> QED BY <1>1, <1>2, <1>3, BudgetKept

LEMMA InsertCategoryStep == ASSUME BudgetInv, NEW r \in Request, InsertCategory(r) PROVE BudgetInv'
<1> USE DEF BudgetInv
<1> DEFINE b == body[r]
           row == [type |-> b.type, name |-> b.name, order |-> mem[r],
                   limit |-> IF b.type = "EXPENSE" THEN b.limit ELSE Nothing]
<1>0. BudgetStep(r) /\ Finish(r) /\ ~Ended(r)
  BY BudgetFrame DEF BudgetStep, InsertCategory
<1>1. CASE budget' = budget
  BY <1>0, <1>1, BudgetQuiet
<1>2. CASE ~NameTaken(b.type, b.name, Nothing) /\ budget' = [budget EXCEPT !.category[r] = row]
  <2>1. row \in CategoryRow
    BY DEF InsertCategory, At, BudgetTyped, BudgetBodyFits, ReadRight, CategoryRow
  <2>2. row.type = b.type /\ row.name = b.name
    OBVIOUS
  <2>3. /\ DOMAIN budget' = DOMAIN budget /\ budget'.category = [budget.category EXCEPT ![r] = row]
        /\ budget'.entry = budget.entry /\ budget'.crossed = budget.crossed /\ budget'.stray = budget.stray
    BY <1>2 DEF BudgetTyped
  <2> HIDE DEF row
  <2>4. BudgetTyped'
    BY <1>0, <2>1, <2>3, BudgetFrame DEF BudgetTyped
  <2>5. /\ budget'.category[r] = row
        /\ \A c \in BudgetIds \ {r} : budget'.category[c] = budget.category[c]
    BY <2>3, BudgetAssumption DEF BudgetTyped
  <2>6. \A c \in Categories : budget.category[c].type # b.type \/ budget.category[c].name # b.name
    BY <1>2, BudgetAssumption DEF NameTaken, BudgetRows, Categories, BudgetTyped
  <2>7. NamesApart'
    BY <2>2, <2>5, <2>6 DEF NamesApart, Categories
  <2>8. \A e \in BudgetIds : budget.entry[e] # Nothing =>
            budget.entry[e].of \in BudgetIds \ {r}
    BY <1>0 DEF RowsNew, BudgetTyped, EntryRow
  <2>9. TypesFollow'
    BY <2>3, <2>5, <2>8 DEF TypesFollow
  <2>10. NamesFollow'
    BY <2>3, <2>5, <2>8 DEF NamesFollow, Uncrossed, Categories, Meant
  <2>11. Ended(r)'
    BY <1>0, FinishGoes DEF Ended, BudgetTyped
  <2>12. KindToCategories(r) /\ KindToEntries(r)
    BY <2>3, <2>5, <2>11 DEF KindToCategories, KindToEntries
  <2>13. \A q \in Request, c \in BudgetIds : q \in Renames(c) => c # r
    BY <1>0 DEF RowsNew, Renames, Holds, Renaming
  <2>14. KindToRenames(r)
    BY <2>3, <2>5, <2>13 DEF KindToRenames
  <2> QED BY <1>0, <2>4, <2>7, <2>9, <2>10, <2>12, <2>14, BudgetKept DEF Kindly
<1> QED BY <1>1, <1>2 DEF InsertCategory

LEMMA SaveCategoryStep == ASSUME BudgetInv, NEW r \in Request, SaveCategory(r) PROVE BudgetInv'
<1> USE DEF BudgetInv
<1> PICK b : b = body[r]
  OBVIOUS
<1> PICK read : read = mem[r].row
  OBVIOUS
<1> PICK mine : mine = mem[r].entries
  OBVIOUS
<1> DEFINE s == b.category
           now == budget.category[s].name
           row == [budget.category[s] EXCEPT !.name = b.name]
<1>0. BudgetStep(r) /\ ~Ended(r)
  BY BudgetFrame DEF BudgetStep, SaveCategory
<1>1. CASE budget' = budget
  BY <1>0, <1>1, BudgetQuiet
<1>2. CASE /\ budget.category[s] # Nothing /\ ~NameTaken(read.type, b.name, s)
           /\ budget' = [budget EXCEPT !.category[s].name = b.name,
                                       !.entry = [e \in DOMAIN @ |->
                                           IF e \in mine THEN [@[e] EXCEPT !.name = b.name] ELSE @[e]],
                                       !.crossed = @ \cup Crossed(r)]
  <2>1. Holds(r) /\ Renaming(r) /\ Claims(r) /\ s \in BudgetIds /\ b.name \in STRING
    BY DEF SaveCategory, At, Holds, Renaming, Claims, BudgetTyped, BudgetBodyFits
  <2>2. read \in CategoryRow /\ budget.category[s] \in CategoryRow
        /\ budget.category[s].type = read.type
    BY <1>2, <2>1 DEF ReadRight, BudgetTyped
  <2>3. row \in CategoryRow /\ row.name = b.name /\ row.type = read.type
    BY <2>1, <2>2 DEF CategoryRow
  <2>4. /\ DOMAIN budget' = DOMAIN budget /\ budget'.category = [budget.category EXCEPT ![s] = row]
        /\ budget'.entry = [e \in BudgetIds |->
               IF e \in mine THEN [budget.entry[e] EXCEPT !.name = b.name] ELSE budget.entry[e]]
        /\ budget'.crossed = budget.crossed \cup Crossed(r) /\ budget'.stray = budget.stray
    BY <1>2 DEF BudgetTyped
  <2> HIDE DEF row
  <2>5. /\ budget'.category[s] = row
        /\ \A c \in BudgetIds \ {s} : budget'.category[c] = budget.category[c]
    BY <2>1, <2>4 DEF BudgetTyped
  <2>6. \A e \in mine : e \in BudgetIds /\ budget.entry[e] # Nothing
              /\ budget.entry[e].name = read.name /\ budget.entry[e].type = read.type
    BY <2>1 DEF Claimed, ReadRight
  <2>7. ASSUME NEW e \in BudgetIds
        PROVE  /\ budget'.entry[e] \in EntryRow \cup {Nothing}
               /\ budget'.entry[e] = Nothing <=> budget.entry[e] = Nothing
               /\ e \notin mine => budget'.entry[e] = budget.entry[e]
               /\ e \in mine => budget'.entry[e].name = b.name
               /\ budget.entry[e] # Nothing =>
                    /\ budget'.entry[e].type = budget.entry[e].type
                    /\ budget'.entry[e].of = budget.entry[e].of
                    /\ budget'.entry[e].reverses = budget.entry[e].reverses
    <3>1. CASE e \in mine
      <4>1. budget.entry[e] \in EntryRow
        BY <2>6, <3>1 DEF BudgetTyped
      <4>2. budget'.entry[e] = [budget.entry[e] EXCEPT !.name = b.name]
        BY <2>4, <3>1
      <4>3. /\ budget'.entry[e] \in EntryRow /\ budget'.entry[e].name = b.name
            /\ budget'.entry[e].type = budget.entry[e].type
            /\ budget'.entry[e].of = budget.entry[e].of
            /\ budget'.entry[e].reverses = budget.entry[e].reverses
        BY <2>1, <4>1, <4>2 DEF EntryRow
      <4>4. Nothing \notin EntryRow
        BY BudgetAssumption
      <4> QED BY <2>6, <3>1, <4>3, <4>4
    <3>2. CASE e \notin mine
      BY <2>4, <3>2 DEF BudgetTyped
    <3> QED BY <3>1, <3>2
  <2>8. BudgetTyped'
    <3>1. budget'.category \in [BudgetIds -> CategoryRow \cup {Nothing}]
      BY <2>3, <2>4 DEF BudgetTyped
    <3>2. budget'.entry \in [BudgetIds -> EntryRow \cup {Nothing}]
      BY <2>4, <2>7
    <3> QED BY <1>0, <2>4, <3>1, <3>2, BudgetFrame DEF BudgetTyped
  <2>9. \A c \in Categories \ {s} : budget.category[c].type # read.type \/ budget.category[c].name # b.name
    BY <1>2 DEF NameTaken, BudgetRows, Categories, BudgetTyped
  <2>10. NamesApart'
    <3>1. Categories' \subseteq Categories
      BY <1>2, <2>1, <2>5 DEF Categories
    <3>2. \A c \in Categories \ {s} : budget'.category[c] = budget.category[c]
      BY <2>5 DEF Categories
    <3>3. \A c \in Categories \ {s} :
            budget.category[c].type # budget'.category[s].type \/ budget.category[c].name # budget'.category[s].name
      BY <2>3, <2>5, <2>9
    <3> QED BY <3>1, <3>2, <3>3 DEF NamesApart
  <2>11. \A c \in BudgetIds : budget'.category[c] # Nothing =>
              budget.category[c] # Nothing /\ budget'.category[c].type = budget.category[c].type
    BY <1>2, <2>2, <2>3, <2>5
  <2>12. TypesFollow'
    <3>1. ASSUME NEW e \in BudgetIds, budget'.entry[e] # Nothing, budget'.category[budget'.entry[e].of] # Nothing
          PROVE  budget'.entry[e].type = budget'.category[budget'.entry[e].of].type
      <4>1. budget.entry[e] # Nothing /\ budget'.entry[e].of = budget.entry[e].of
            /\ budget'.entry[e].type = budget.entry[e].type /\ budget.entry[e].of \in BudgetIds
        BY <2>7, <3>1 DEF BudgetTyped, EntryRow
      <4> QED BY <2>11, <3>1, <4>1 DEF TypesFollow
    <3> QED BY <3>1 DEF TypesFollow
  <2>13. s \notin Crossed(r) => now = read.name /\ (now = b.name \/ Renames(s) \ {r} = {})
    BY DEF Crossed
  <2>14. \A d \in BudgetIds : d \notin Crossed(r) /\ budget.category[d] # Nothing =>
              now = read.name \/ budget.category[d].name # read.name
    BY DEF Crossed, BudgetRows, BudgetTyped
  <2>15. ASSUME NEW c \in Uncrossed', NEW e \in Meant(c)'
         PROVE  budget'.entry[e].name = budget'.category[c].name
    <3>1. /\ c \in BudgetIds /\ budget'.category[c] # Nothing
          /\ c \notin budget.crossed /\ c \notin Crossed(r)
      BY <2>4, <2>15 DEF Uncrossed, Categories
    <3>2. c \in Uncrossed /\ budget.category[c] # Nothing
      BY <2>11, <3>1 DEF Uncrossed, Categories
    <3>3. e \in BudgetIds /\ e \in Meant(c) /\ budget.entry[e] # Nothing /\ budget.entry[e].of = c
      BY <2>4, <2>7, <2>15 DEF Meant
    <3>4. budget.entry[e].name = budget.category[c].name
      BY <3>2, <3>3 DEF NamesFollow
    <3>5. CASE c = s
      <4>1. now = read.name /\ budget'.category[c].name = b.name
        BY <2>3, <2>5, <2>13, <3>1, <3>5
      <4>2. CASE b.name = read.name
        BY <2>7, <3>3, <3>4, <3>5, <4>1, <4>2
      <4>3. CASE b.name # read.name
        <5>1. r \in Renames(s)
          BY <2>1, <4>3 DEF Renames, Claims, At
        <5>2. e \in mine
          BY <3>2, <3>3, <3>5, <4>1, <5>1 DEF FoundAll
        <5> QED BY <2>7, <3>3, <4>1, <5>2
      <4> QED BY <4>2, <4>3
    <3>6. CASE c # s
      <4>1. e \notin mine
        <5>1. SUFFICES ASSUME e \in mine PROVE FALSE
          OBVIOUS
        <5>2. budget.category[c].name = read.name
          BY <2>6, <3>4, <5>1
        <5>3. budget.category[c].type = read.type
          BY <2>6, <3>1, <3>2, <3>3, <5>1 DEF TypesFollow
        <5>4. now = read.name
          BY <2>14, <3>1, <3>2, <5>2
        <5>5. c = s
          BY <1>2, <2>1, <2>2, <3>1, <3>2, <5>2, <5>3, <5>4 DEF NamesApart, Categories
        <5> QED BY <3>6, <5>5
      <4> QED BY <2>5, <2>7, <3>1, <3>3, <3>4, <3>6, <4>1
    <3> QED BY <3>5, <3>6
  <2>16. NamesFollow'
    BY <2>15 DEF NamesFollow
  <2>17. KindToCategories(r) /\ KindToEntries(r)
    BY <2>7, <2>11 DEF KindToCategories, KindToEntries
  <2>18. ASSUME NEW q \in Request \ {r}, NEW c \in BudgetIds \ budget'.crossed,
                q \in Renames(c), budget'.category[c] # Nothing, budget'.category[c].name = mem[q].row.name
         PROVE  budget.category[c].name = mem[q].row.name
    <3>1. CASE c = s
      <4>1. s \notin Crossed(r)
        BY <2>4, <2>18, <3>1
      <4>2. now = b.name
        BY <2>13, <2>18, <3>1, <4>1
      <4> QED BY <2>3, <2>5, <2>18, <3>1, <4>2
    <3>2. CASE c # s
      BY <2>5, <2>18, <3>2
    <3> QED BY <3>1, <3>2
  <2>19. ASSUME NEW q \in Request \ {r}, Claims(q), NEW e \in mem[q].entries, budget.entry[e] # Nothing
         PROVE  budget'.entry[e].name = budget.entry[e].name
    <3>1. e \in BudgetIds
      BY <2>19 DEF Claims, At, Renaming, ReadRight
    <3>2. e \notin mine
      BY <2>1, <2>19 DEF ClaimsApart
    <3> QED BY <2>7, <3>1, <3>2
  <2>20. \A e \in BudgetIds : budget'.entry[e] # Nothing => budget.entry[e] # Nothing
    BY <2>7
  <2>21. budget.crossed \subseteq budget'.crossed /\ budget.stray \subseteq budget'.stray
    BY <2>4
  <2>22. KindToRenames(r)
    BY <2>18, <2>19, <2>20, <2>21 DEF KindToRenames
  <2> QED BY <1>0, <2>8, <2>10, <2>12, <2>16, <2>17, <2>22, BudgetKept DEF Kindly
<1>3. DOMAIN budget.entry = BudgetIds
  BY DEF BudgetTyped
<1> QED BY <1>1, <1>2, <1>3 DEF SaveCategory

LEMMA DropCategoryStep == ASSUME BudgetInv, NEW r \in Request, DropCategory(r) PROVE BudgetInv'
<1> USE DEF BudgetInv
<1> PICK s : s = body[r].category
  OBVIOUS
<1>0. BudgetStep(r)
  BY DEF BudgetStep
<1>1. /\ DOMAIN budget' = DOMAIN budget /\ budget'.category = [budget.category EXCEPT ![s] = Nothing]
      /\ budget'.entry = budget.entry /\ budget'.crossed = budget.crossed /\ budget'.stray = budget.stray
  BY DEF DropCategory, BudgetTyped
<1>2. \A c \in BudgetIds : budget'.category[c] # Nothing => budget'.category[c] = budget.category[c]
  BY <1>1 DEF BudgetTyped
<1>3. BudgetTyped'
  BY <1>0, <1>1, BudgetFrame DEF BudgetTyped
<1>4. NamesApart'
  BY <1>2 DEF NamesApart, Categories
<1>5. \A e \in BudgetIds : budget.entry[e] # Nothing => budget.entry[e].of \in BudgetIds
  BY DEF BudgetTyped, EntryRow
<1>6. TypesFollow'
  BY <1>1, <1>2, <1>5 DEF TypesFollow
<1>7. NamesFollow'
  BY <1>1, <1>2, <1>5 DEF NamesFollow, Uncrossed, Categories, Meant
<1>8. KindToCategories(r) /\ KindToEntries(r) /\ KindToRenames(r)
  BY <1>1, <1>2 DEF KindToCategories, KindToEntries, KindToRenames
<1> QED BY <1>0, <1>3, <1>4, <1>6, <1>7, <1>8, BudgetKept DEF Kindly

(* An entry that is written anew has the type of its category, and the     *)
(* name, unless it reverses another or is astray.                          *)
LEMMA EntryWritten ==
    ASSUME BudgetInv, NEW r \in Request, BudgetStep(r), Ended(r)',
           DOMAIN budget' = DOMAIN budget, budget'.category = budget.category,
           budget'.crossed = budget.crossed, budget.stray \subseteq budget'.stray,
           budget'.entry \in [BudgetIds -> EntryRow \cup {Nothing}],
           \A e \in BudgetIds : budget.entry[e] # Nothing =>
              /\ budget'.entry[e] # Nothing
              /\ budget'.entry[e].type = budget.entry[e].type /\ budget'.entry[e].of = budget.entry[e].of
              /\ budget'.entry[e].name = budget.entry[e].name
              /\ budget'.entry[e].reverses = budget.entry[e].reverses,
           \A e \in BudgetIds : budget.entry[e] = Nothing /\ budget'.entry[e] # Nothing =>
              /\ e = r
              /\ LET new == budget'.entry[e]
                     c == new.of
                 IN  /\ budget.category[c] # Nothing => new.type = budget.category[c].type
                     /\ \/ budget.category[c] = Nothing \/ new.reverses \/ e \in budget'.stray
                        \/ new.name = budget.category[c].name /\ Renames(c) = {}
                     /\ \/ Holds(r) /\ c = body[r].category
                        \/ \E d \in BudgetIds : budget.entry[d] # Nothing /\ c = budget.entry[d].of
    PROVE  BudgetInv'
<1> USE DEF BudgetInv
<1>1. BudgetTyped'
  BY BudgetFrame DEF BudgetTyped
<1>2. NamesApart'
  BY DEF NamesApart, Categories
<1>3. TypesFollow'
  BY DEF TypesFollow
<1>4. NamesFollow'
  <2>1. ASSUME NEW c \in Uncrossed', NEW e \in Meant(c)'
        PROVE  budget'.entry[e].name = budget'.category[c].name
    <3>1. /\ c \in Uncrossed /\ budget.category[c] # Nothing
          /\ e \in BudgetIds \ budget'.stray /\ budget'.entry[e] # Nothing
          /\ budget'.entry[e].of = c /\ ~budget'.entry[e].reverses
      BY <2>1 DEF Uncrossed, Categories, Meant
    <3>2. CASE budget.entry[e] = Nothing
      BY <3>1, <3>2
    <3>3. CASE budget.entry[e] # Nothing
      <4>1. e \in Meant(c)
        BY <3>1, <3>3 DEF Meant
      <4> QED BY <3>1, <3>3, <4>1 DEF NamesFollow
    <3> QED BY <3>2, <3>3
  <2> QED BY <2>1 DEF NamesFollow
<1>5. KindToCategories(r) /\ KindToEntries(r)
  BY DEF KindToCategories, KindToEntries
<1>6. \A q \in Request \ {r} : Claims(q) => mem[q].entries \subseteq BudgetIds
  BY DEF Claims, At, Renaming, ReadRight
<1>7. ASSUME NEW q \in Request, NEW c \in BudgetIds, q \in Renames(c), budget'.category[c] # Nothing,
             NEW e \in BudgetIds \ budget'.stray,
             budget'.entry[e] # Nothing, budget'.entry[e].of = c, ~budget'.entry[e].reverses
      PROVE  budget.entry[e] # Nothing
  BY <1>7
<1>8. KindToRenames(r)
  BY <1>6, <1>7 DEF KindToRenames
<1> QED BY <1>1, <1>2, <1>3, <1>4, <1>5, <1>8, BudgetKept DEF Kindly

LEMMA PostEntryStep == ASSUME BudgetInv, NEW r \in Request, PostEntry(r) PROVE BudgetInv'
<1> USE DEF BudgetInv
<1> PICK b : b = body[r]
  OBVIOUS
<1> PICK read : read = mem[r].row
  OBVIOUS
<1> DEFINE c == b.category
           row == [type |-> read.type, name |-> read.name, amount |-> b.amount, day |-> b.day,
                   wallet |-> b.wallet, live |-> TRUE, reverses |-> FALSE, of |-> c]
<1>0. BudgetStep(r) /\ Holds(r) /\ ~Ended(r) /\ Ended(r)'
  BY FinishGoes DEF BudgetStep, PostEntry, Holds, At, Ended, BudgetTyped
<1>1. /\ read \in CategoryRow /\ (budget.category[c] # Nothing => budget.category[c].type = read.type)
  BY <1>0 DEF ReadRight
<1>2. row \in EntryRow
  BY <1>1 DEF PostEntry, At, BudgetTyped, BudgetBodyFits, CategoryRow, EntryRow
<1>3. row.type = read.type /\ row.name = read.name /\ row.of = c
  OBVIOUS
<1>4. /\ DOMAIN budget' = DOMAIN budget /\ budget'.category = budget.category
      /\ budget'.entry = [budget.entry EXCEPT ![r] = row]
      /\ budget'.crossed = budget.crossed
      /\ budget'.stray = budget.stray \cup (IF Astray(c, read) THEN {r} ELSE {})
  BY DEF PostEntry, BudgetTyped
<1> HIDE DEF row
<1>5. budget'.entry \in [BudgetIds -> EntryRow \cup {Nothing}]
  BY <1>2, <1>4 DEF BudgetTyped
<1>6. budget.entry[r] = Nothing
  BY <1>0 DEF RowsNew
<1>7. \A e \in BudgetIds : budget'.entry[e] = IF e = r THEN row ELSE budget.entry[e]
  BY <1>4 DEF BudgetTyped
<1>8. budget.category[c] = Nothing \/ r \in budget'.stray \/ (budget.category[c].name = read.name /\ Renames(c) = {})
  BY <1>4 DEF Astray
<1> QED BY <1>0, <1>1, <1>3, <1>4, <1>5, <1>6, <1>7, <1>8, EntryWritten

LEMMA VoidEntryStep == ASSUME BudgetInv, NEW r \in Request, VoidEntry(r) PROVE BudgetInv'
<1> USE DEF BudgetInv
<1> PICK i : i = body[r].entry
  OBVIOUS
<1> DEFINE voided == [budget.entry[i] EXCEPT !.live = FALSE]
           back == [[mem[r] EXCEPT !.reverses = TRUE] EXCEPT !.day = body[r].day]
<1>0. BudgetStep(r) /\ ~Ended(r) /\ Ended(r)' /\ i \in BudgetIds /\ body[r].day \in Int
  BY FinishGoes DEF BudgetStep, VoidEntry, At, Ended, BudgetTyped, BudgetBodyFits
<1>1. CASE budget' = budget
  BY <1>0, <1>1, BudgetQuiet
<1>2. CASE budget' # budget
  <2>1. /\ budget.entry[i] \in EntryRow /\ budget.entry[i] # Nothing /\ mem[r] \in EntryRow
        /\ mem[r].of = budget.entry[i].of /\ mem[r].type = budget.entry[i].type
    BY <1>0 DEF VoidEntry, ReadRight, BudgetTyped
  <2>2. /\ voided \in EntryRow /\ voided.of = budget.entry[i].of
        /\ voided.type = budget.entry[i].type /\ voided.name = budget.entry[i].name
        /\ voided.reverses = budget.entry[i].reverses
    BY <2>1 DEF EntryRow
  <2>3. /\ back \in EntryRow /\ back.of = budget.entry[i].of
        /\ back.type = budget.entry[i].type /\ back.reverses = TRUE
    BY <1>0, <2>1 DEF EntryRow
  <2>4. /\ DOMAIN budget' = DOMAIN budget /\ budget'.category = budget.category
        /\ budget'.entry = [[budget.entry EXCEPT ![i] = voided] EXCEPT ![r] = back]
        /\ budget'.crossed = budget.crossed /\ budget'.stray = budget.stray
    BY <1>2 DEF VoidEntry, BudgetTyped
  <2> HIDE DEF voided, back
  <2>5. budget'.entry \in [BudgetIds -> EntryRow \cup {Nothing}]
    BY <2>2, <2>3, <2>4 DEF BudgetTyped
  <2>6. budget.entry[r] = Nothing /\ Nothing \notin EntryRow
    BY <1>0, BudgetAssumption DEF RowsNew
  <2>7. \A e \in BudgetIds : budget'.entry[e] = IF e = r THEN back ELSE IF e = i THEN voided ELSE budget.entry[e]
    BY <2>4 DEF BudgetTyped
  <2>8. budget.category[back.of] # Nothing => back.type = budget.category[back.of].type
    BY <1>0, <2>1, <2>3 DEF TypesFollow
  <2>9. \A e \in BudgetIds : budget.entry[e] # Nothing =>
              /\ budget'.entry[e] # Nothing
              /\ budget'.entry[e].type = budget.entry[e].type /\ budget'.entry[e].of = budget.entry[e].of
              /\ budget'.entry[e].name = budget.entry[e].name
              /\ budget'.entry[e].reverses = budget.entry[e].reverses
    BY <2>2, <2>6, <2>7
  <2>10. \A e \in BudgetIds : budget.entry[e] = Nothing /\ budget'.entry[e] # Nothing =>
              e = r /\ budget'.entry[e] = back
    BY <2>1, <2>7
  <2>11. \A e \in BudgetIds : budget.entry[e] = Nothing /\ budget'.entry[e] # Nothing =>
              /\ e = r
              /\ LET new == budget'.entry[e]
                     c == new.of
                 IN  /\ budget.category[c] # Nothing => new.type = budget.category[c].type
                     /\ new.reverses
                     /\ \E d \in BudgetIds : budget.entry[d] # Nothing /\ c = budget.entry[d].of
    BY <1>0, <2>1, <2>3, <2>8, <2>10
  <2> QED BY <1>0, <2>4, <2>5, <2>9, <2>11, EntryWritten
<1> QED BY <1>1, <1>2

LEMMA BudgetInvStep ==
    ASSUME BudgetInv, NEW r \in Request, BudgetStep(r) \/ (Abort(r) /\ BudgetStays)
    PROVE  BudgetInv'
<1>1. CASE BudgetStays
  BY <1>1, BudgetQuiet DEF BudgetStays
<1>2. CASE FindCategoryName(r) \/ RequireCategory(r) \/ CheckClash(r) \/ FindGoalOf(r)
  BY <1>1, <1>2 DEF FindCategoryName, RequireCategory, CheckClash, FindGoalOf
<1>3. CASE RequireIncomeGoal(r) \/ CheckMonth(r) \/ RequireAccounts(r)
  BY <1>1, <1>3 DEF RequireIncomeGoal, CheckMonth, RequireAccounts
<1>4. CASE FindEntries(r) \/ ClaimEntries(r) \/ FindOriginal(r)
  BY <1>1, <1>4 DEF FindEntries, ClaimEntries, FindOriginal
<1>5. CASE SetTarget(r) \/ InsertGoal(r) \/ MoveGoal(r) \/ DropGoal(r)
  <2>1. /\ DOMAIN budget' = DOMAIN budget /\ budget'.category = budget.category
        /\ budget'.entry = budget.entry /\ budget'.crossed = budget.crossed /\ budget'.stray = budget.stray
    <3> USE DEF BudgetInv, BudgetTyped
    <3>1. CASE SetTarget(r)
      BY <3>1 DEF SetTarget
    <3>2. CASE InsertGoal(r)
      BY <3>2 DEF InsertGoal
    <3>3. CASE MoveGoal(r)
      BY <3>3 DEF MoveGoal
    <3>4. CASE DropGoal(r)
      BY <3>4 DEF DropGoal
    <3> QED BY <1>5, <3>1, <3>2, <3>3, <3>4
  <2> QED BY <2>1, BudgetQuiet
<1> QED BY <1>1, <1>2, <1>3, <1>4, <1>5, InsertCategoryStep, SaveCategoryStep, DropCategoryStep,
           PostEntryStep, VoidEntryStep DEF BudgetStep

LEMMA BudgetInvStays == BudgetInv /\ UNCHANGED <<requests, budget>> => BudgetInv'
<1> SUFFICES ASSUME BudgetInv, UNCHANGED <<requests, budget>> PROVE BudgetInv'
  OBVIOUS
<1>1. body' = body /\ pc' = pc /\ mem' = mem /\ lock' = lock /\ budget' = budget
  BY DEF requests
<1>2. BudgetTyped' /\ NamesApart' /\ TypesFollow' /\ NamesFollow'
  BY <1>1 DEF BudgetInv, BudgetTyped, Framed, NamesApart, Categories, TypesFollow, NamesFollow, Uncrossed, Meant
<1>3. \A r \in Request : ReadRight(r)' /\ RowsNew(r)'
  BY <1>1 DEF BudgetInv, ReadRight, RowsNew, Holds, Renaming, At, Ended
<1>4. \A r \in Request : FoundAll(r)' /\ Claimed(r)' /\ ClaimsApart(r)'
  BY <1>1 DEF BudgetInv, FoundAll, Renames, Meant, Uncrossed, Categories, Claimed, ClaimsApart, Claims, At
<1> QED BY <1>2, <1>3, <1>4 DEF BudgetInv

(* What was entered for a category is counted under its present name,      *)
(* whatever is renamed, dropped, entered and voided at once.               *)
THEOREM EntriesFollowRenames == BudgetSpec => []EntriesFollow
<1>1. BudgetInv /\ [BudgetNext]_<<requests, budget>> => BudgetInv'
  <2> SUFFICES ASSUME BudgetInv, [BudgetNext]_<<requests, budget>> PROVE BudgetInv'
    OBVIOUS
  <2>1. CASE UNCHANGED <<requests, budget>>
    BY <2>1, BudgetInvStays
  <2>2. ASSUME NEW r \in Request, BudgetStep(r) \/ (Abort(r) /\ BudgetStays) PROVE BudgetInv'
    BY <2>2, BudgetInvStep
  <2> QED BY <2>1, <2>2 DEF BudgetNext
<1>2. BudgetInv => EntriesFollow
  <2> SUFFICES ASSUME BudgetInv PROVE EntriesFollow
    OBVIOUS
  <2>1. ASSUME NEW e \in BudgetRows("entry") \ budget.stray, budget.category[budget.entry[e].of] # Nothing,
               budget.entry[e].of \notin budget.crossed, ~budget.entry[e].reverses
        PROVE  budget.entry[e].name = budget.category[budget.entry[e].of].name
    <3>1. e \in BudgetIds /\ budget.entry[e] # Nothing /\ budget.entry[e].of \in BudgetIds
      BY <2>1 DEF BudgetInv, BudgetTyped, BudgetRows, EntryRow
    <3>2. budget.entry[e].of \in Uncrossed /\ e \in Meant(budget.entry[e].of)
      BY <2>1, <3>1 DEF Uncrossed, Categories, Meant
    <3> QED BY <3>2 DEF BudgetInv, NamesFollow
  <2> QED BY <2>1 DEF EntriesFollow
<1> QED BY <1>1, <1>2, BudgetStarts, PTL DEF BudgetSpec

(***************************************************************************)
(* What the pages add up                                                   *)
(***************************************************************************)

(* The month of a day, by division.                                        *)
LEMMA MonthOf ==
    ASSUME MonthLength \in Nat \ {0}, NEW d \in Int
    PROVE  /\ d \div MonthLength \in Int
           /\ MonthStart(d \div MonthLength) <= d /\ d < MonthStart((d \div MonthLength) + 1)
<1> DEFINE q == d \div MonthLength
           x == d % MonthLength
<1>1. q \in Int /\ x \in 0 .. MonthLength - 1 /\ d = MonthLength * q + x
  OBVIOUS
<1>2. (q + 1) * MonthLength = MonthLength * q + MonthLength /\ q * MonthLength = MonthLength * q
      /\ MonthLength * q \in Int
  BY <1>1
<1> HIDE DEF q, x
<1>3. q * MonthLength <= d /\ d < (q + 1) * MonthLength
  BY <1>1, <1>2
<1> QED BY <1>1, <1>3 DEF MonthStart, q

(* Months follow each other.                                               *)
LEMMA MonthsApart ==
    ASSUME MonthLength \in Nat \ {0}, NEW k \in Int, NEW m \in Int, NEW d \in Int, NEW e \in Int,
           MonthStart(k) <= d, d < MonthStart(k + 1), MonthStart(m) <= e, e < MonthStart(m + 1), d <= e
    PROVE  k <= m
<1> SUFFICES ASSUME m < k PROVE FALSE
  OBVIOUS
<1>1. \A a, b \in Int : a <= b => a * MonthLength <= b * MonthLength
  OBVIOUS
<1>2. (m + 1) * MonthLength <= k * MonthLength
  BY <1>1
<1>3. (m + 1) * MonthLength \in Int /\ k * MonthLength \in Int
  OBVIOUS
<1> QED BY <1>2, <1>3 DEF MonthStart

DayIn(d, k) == k.start <= d /\ d < k.until

(* The buckets of a range are finitely many, lie within it and share no    *)
(* day; unless the range is refused, each of its days has one.             *)
LEMMA BucketsApart ==
    ASSUME MonthLength \in Nat \ {0}, NEW from \in Int, NEW to \in Int
    PROVE  /\ IsFiniteSet(MonthBuckets(from, to))
           /\ \A k \in MonthBuckets(from, to) :
                 k.start \in Int /\ k.until \in Int /\ from <= k.start /\ k.until <= to + 1
           /\ \A d \in Int : \A k, l \in MonthBuckets(from, to) : DayIn(d, k) /\ DayIn(d, l) => k = l
           /\ MonthBuckets(from, to) # {} => \A d \in from .. to : \E k \in MonthBuckets(from, to) : DayIn(d, k)
<1> DEFINE first == from \div MonthLength
           last == to \div MonthLength
           start(m) == IF MonthStart(m) > from THEN MonthStart(m) ELSE from
           until(m) == IF MonthStart(m + 1) < to + 1 THEN MonthStart(m + 1) ELSE to + 1
           bucket(m) == [month |-> m, start |-> start(m), until |-> until(m)]
           all == {bucket(m) : m \in first .. last}
           buckets == MonthBuckets(from, to)
<1>1. buckets \in {{}, all} /\ (buckets = all => TRUE)
  BY DEF MonthBuckets
<1>2. first \in Int /\ last \in Int
  BY MonthOf
<1>3. \A m \in Int : MonthStart(m) \in Int /\ m + 1 \in Int
  BY DEF MonthStart
<1> HIDE DEF first, last
<1>4. ASSUME NEW k \in all
      PROVE  /\ k.month \in first .. last /\ k = bucket(k.month)
             /\ k.start = start(k.month) /\ k.until = until(k.month)
  OBVIOUS
<1>5. IsFiniteSet(all)
  <2> DEFINE f == [m \in first .. last |-> bucket(m)]
  <2>1. IsFiniteSet(first .. last)
    BY <1>2, FS_Interval
  <2>2. f \in [first .. last -> all]
    OBVIOUS
  <2>3. \A k \in all : \E m \in first .. last : f[m] = k
    OBVIOUS
  <2> HIDE DEF f, all
  <2>4. f \in Surjection(first .. last, all)
    BY <2>2, <2>3 DEF Surjection
  <2> QED BY <2>1, <2>4, FS_Surjection
<1>6. ASSUME NEW k \in all
      PROVE  k.start \in Int /\ k.until \in Int /\ from <= k.start /\ k.until <= to + 1
  <2>1. k.month \in Int /\ k.start = start(k.month) /\ k.until = until(k.month)
    BY <1>2, <1>4
  <2>2. MonthStart(k.month) \in Int /\ MonthStart(k.month + 1) \in Int
    BY <1>3, <2>1
  <2> HIDE DEF all
  <2> QED BY <2>1, <2>2
<1>7. ASSUME NEW d \in Int, NEW k \in all, DayIn(d, k)
      PROVE  /\ MonthStart(k.month) <= d /\ d < MonthStart(k.month + 1) /\ k.month \in Int
  <2>1. k.month \in Int /\ k.start = start(k.month) /\ k.until = until(k.month)
    BY <1>2, <1>4
  <2>2. MonthStart(k.month) \in Int /\ MonthStart(k.month + 1) \in Int
    BY <1>3, <2>1
  <2> HIDE DEF all
  <2> QED BY <1>7, <2>1, <2>2 DEF DayIn
<1>8. ASSUME NEW d \in Int, NEW k \in all, NEW l \in all, DayIn(d, k), DayIn(d, l)
      PROVE  k = l
  <2>1. k.month <= l.month /\ l.month <= k.month /\ k.month \in Int /\ l.month \in Int
    BY <1>7, <1>8, MonthsApart
  <2>2. k.month = l.month
    BY <2>1
  <2> HIDE DEF all, bucket
  <2> QED BY <1>4, <2>2
<1>9. ASSUME NEW d \in from .. to
      PROVE  \E k \in all : DayIn(d, k)
  <2> DEFINE m == d \div MonthLength
  <2>1. m \in Int /\ MonthStart(m) <= d /\ d < MonthStart(m + 1)
    BY MonthOf
  <2>2. /\ MonthStart(first) <= from /\ from < MonthStart(first + 1)
        /\ MonthStart(last) <= to /\ to < MonthStart(last + 1)
    BY MonthOf DEF first, last
  <2> HIDE DEF m
  <2>3. from \in Int /\ d \in Int /\ to \in Int /\ from <= d /\ d <= to
    OBVIOUS
  <2>4. first <= m
    BY ONLY MonthLength \in Nat \ {0}, <1>2, <2>1, <2>2, <2>3, MonthsApart
  <2>5. m <= last
    BY ONLY MonthLength \in Nat \ {0}, <1>2, <2>1, <2>2, <2>3, MonthsApart
  <2>6. m \in first .. last
    BY <1>2, <2>1, <2>4, <2>5
  <2>7. bucket(m) \in all /\ bucket(m).start = start(m) /\ bucket(m).until = until(m)
    BY <2>6
  <2>8. start(m) <= d /\ d < until(m)
    BY <1>3, <2>1, <2>3
  <2> HIDE DEF all, bucket, start, until
  <2> QED BY <2>7, <2>8 DEF DayIn
<1> HIDE DEF all, bucket, start, until, buckets
<1>10. IsFiniteSet({})
  BY FS_EmptySet
<1>11. buckets \subseteq all /\ IsFiniteSet(buckets) /\ (buckets # {} => buckets = all)
  BY <1>1, <1>5, <1>10
<1>12. /\ IsFiniteSet(buckets)
       /\ \A k \in buckets : k.start \in Int /\ k.until \in Int /\ from <= k.start /\ k.until <= to + 1
       /\ \A d \in Int : \A k, l \in buckets : DayIn(d, k) /\ DayIn(d, l) => k = l
       /\ buckets # {} => \A d \in from .. to : \E k \in buckets : DayIn(d, k)
  <2>1. \A k \in buckets : k.start \in Int /\ k.until \in Int /\ from <= k.start /\ k.until <= to + 1
    BY <1>6, <1>11
  <2>2. \A d \in Int : \A k, l \in buckets : DayIn(d, k) /\ DayIn(d, l) => k = l
    BY <1>8, <1>11
  <2>3. buckets # {} => \A d \in from .. to : \E k \in buckets : DayIn(d, k)
    BY <1>9, <1>11
  <2> QED BY <1>11, <2>1, <2>2, <2>3
<1> QED BY <1>12 DEF buckets

LEMMA AmountsAdd ==
    ASSUME BudgetTyped, NEW T \in SUBSET BudgetRows("entry")
    PROVE  Ints(EntryAmount, T) /\ IsFiniteSet(T)
<1>1. BudgetRows("entry") \subseteq BudgetIds
  BY DEF BudgetRows, BudgetTyped
<1>2. IsFiniteSet(T)
  BY <1>1, FS_Subset, BudgetAssumption
<1>3. ASSUME NEW e \in T PROVE EntryAmount[e] \in Int
  <2>1. budget.entry[e] \in EntryRow
    BY <1>1 DEF BudgetRows, BudgetTyped
  <2> QED BY <2>1 DEF EntryAmount, EntryRow
<1> QED BY <1>2, <1>3 DEF Ints

(* Grouped by what they are of, the entries are all there.                 *)
LEMMA GroupsAdd ==
    ASSUME BudgetTyped, NEW T \in SUBSET BudgetRows("entry"), NEW of, NEW rows, IsFiniteSet(DOMAIN rows),
           \A e \in T : of[e] \in DOMAIN rows,
           \A k \in DOMAIN rows : rows[k] = Amounts({e \in T : of[e] = k})
    PROVE  Total(rows) = Amounts(T)
<1> DEFINE rest == {e \in T : of[e] \notin DOMAIN rows}
<1>1. Ints(EntryAmount, T)
  BY AmountsAdd
<1>2. \A k \in DOMAIN rows : rows[k] = SumOver(EntryAmount, {e \in T : of[e] = k})
  BY DEF Amounts
<1>3. SumOver(EntryAmount, T) = SumOver(rows, DOMAIN rows) + SumOver(EntryAmount, rest)
  BY ONLY <1>1, <1>2, IsFiniteSet(DOMAIN rows), SumOfGroups
<1>4. rest = {} /\ SumOver(EntryAmount, {}) = 0
  BY SumOfNone
<1>5. SumOver(rows, DOMAIN rows) \in Int
  <2>1. ASSUME NEW k \in DOMAIN rows PROVE rows[k] \in Int
    <3>1. Ints(EntryAmount, {e \in T : of[e] = k})
      BY <1>1, IntsBelow
    <3>2. SumOver(EntryAmount, {e \in T : of[e] = k}) \in Int
      BY <3>1, SumInt
    <3> QED BY <1>2, <3>2
  <2>2. Ints(rows, DOMAIN rows)
    BY <2>1 DEF Ints
  <2> QED BY <2>2, SumInt
<1> HIDE DEF rest
<1>6. SumOver(EntryAmount, T) = SumOver(rows, DOMAIN rows)
  BY <1>3, <1>4, <1>5
<1> QED BY <1>6 DEF Total, Amounts

LEMMA CountedRows ==
    ASSUME NEW type, NEW from, NEW until
    PROVE  CountedFor(type, from, until) \subseteq BudgetRows("entry")
BY DEF CountedFor

LEMMA BreakdownTotal ==
    ASSUME BudgetTyped, NEW type, NEW from, NEW to
    PROVE  Total(CategoryBreakdown(type, from, to)) = Amounts(CountedFor(type, from, to + 1))
<1> DEFINE counted == CountedFor(type, from, to + 1)
           of == [e \in counted |-> budget.entry[e].name]
           names == {budget.entry[e].name : e \in counted}
           rows == CategoryBreakdown(type, from, to)
<1>1. counted \subseteq BudgetRows("entry")
  BY CountedRows
<1>2. DOMAIN rows = names /\ \A n \in names : rows[n] = Amounts(Named(counted, n))
  BY DEF CategoryBreakdown
<1> HIDE DEF rows, counted
<1>3. \A n \in names : Named(counted, n) = {e \in counted : of[e] = n}
  BY DEF Named
<1>4. IsFiniteSet(counted)
  BY <1>1, AmountsAdd
<1>5. IsFiniteSet(names)
  <2>1. of \in Surjection(counted, names)
    BY DEF Surjection
  <2> QED BY <1>4, <2>1, FS_Surjection
<1>6. \A e \in counted : of[e] \in names
  OBVIOUS
<1> HIDE DEF names, of
<1>7. \A n \in DOMAIN rows : rows[n] = Amounts({e \in counted : of[e] = n})
  BY <1>2, <1>3
<1>8. Total(rows) = Amounts(counted)
  BY <1>1, <1>2, <1>5, <1>6, <1>7, GroupsAdd
<1> QED BY <1>8 DEF rows, counted

LEMMA MonthlyTotal ==
    ASSUME BudgetTyped, NEW type, NEW from \in Int, NEW to \in Int, MonthBuckets(from, to) # {}, NEW w
    PROVE  Total(MonthlyBreakdown(type, from, to, w)) = Amounts(PaidWith(CountedFor(type, from, to + 1), w))
<1> DEFINE buckets == MonthBuckets(from, to)
           counted == PaidWith(CountedFor(type, from, to + 1), w)
           of == [e \in counted |-> CHOOSE k \in buckets : DayIn(budget.entry[e].day, k)]
           rows == MonthlyBreakdown(type, from, to, w)
<1>0. MonthLength \in Nat \ {0}
  BY BudgetAssumption
<1>1. /\ IsFiniteSet(buckets)
      /\ \A k \in buckets : k.start \in Int /\ k.until \in Int /\ from <= k.start /\ k.until <= to + 1
      /\ \A d \in Int : \A k, l \in buckets : DayIn(d, k) /\ DayIn(d, l) => k = l
      /\ \A d \in from .. to : \E k \in buckets : DayIn(d, k)
  BY <1>0, BucketsApart
<1>2. counted \subseteq BudgetRows("entry")
  BY CountedRows DEF PaidWith
<1>3. \A e \in BudgetRows("entry") : budget.entry[e].day \in Int
  BY DEF BudgetRows, BudgetTyped, EntryRow
<1>4. ASSUME NEW e \in counted
      PROVE  of[e] \in buckets /\ DayIn(budget.entry[e].day, of[e])
  <2>1. budget.entry[e].day \in from .. to
    BY <1>2, <1>3 DEF PaidWith, CountedFor
  <2>2. \E k \in buckets : DayIn(budget.entry[e].day, k)
    BY <1>1, <2>1
  <2> HIDE DEF buckets
  <2> QED BY <2>2
<1>5. ASSUME NEW k \in buckets
      PROVE  PaidWith(CountedFor(type, k.start, k.until), w) = {e \in counted : of[e] = k}
  <2>1. \A e \in BudgetRows("entry") :
          e \in PaidWith(CountedFor(type, k.start, k.until), w) <=>
          e \in counted /\ DayIn(budget.entry[e].day, k)
    BY <1>1, <1>3 DEF PaidWith, CountedFor, DayIn
  <2>2. \A e \in counted : DayIn(budget.entry[e].day, k) <=> of[e] = k
    BY <1>1, <1>2, <1>3, <1>4
  <2>3. PaidWith(CountedFor(type, k.start, k.until), w) \subseteq BudgetRows("entry")
    BY CountedRows DEF PaidWith
  <2> HIDE DEF counted, of, buckets
  <2> QED BY <1>2, <2>1, <2>2, <2>3
<1>6. DOMAIN rows = buckets
      /\ \A k \in buckets : rows[k] = Amounts(PaidWith(CountedFor(type, k.start, k.until), w))
  BY DEF MonthlyBreakdown
<1>7. \A k \in buckets : rows[k] = Amounts({e \in counted : of[e] = k})
  BY <1>5, <1>6
<1> HIDE DEF buckets, counted, of, rows
<1>8. Total(rows) = Amounts(counted)
  BY <1>1, <1>2, <1>4, <1>6, <1>7, GroupsAdd
<1> QED BY <1>8 DEF rows, counted

(* What the pages rest on besides the categories: no month has two goals,  *)
(* and what was entered was paid from, or into, a wallet.                  *)
GoalsTyped ==
    /\ BudgetTyped
    /\ budget.goal \in [BudgetIds -> GoalRow \cup {Nothing}]

GoalsApart ==
    \A g, h \in BudgetIds :
        budget.goal[g] # Nothing /\ budget.goal[h] # Nothing /\ budget.goal[g].month = budget.goal[h].month => g = h

PaidFromWallets ==
    /\ \A e \in BudgetIds : budget.entry[e] # Nothing => MoneyAccount(budget.entry[e].wallet)
    /\ \A r \in Request : At(r, "quick-entry", "post-entry") => MoneyAccount(body[r].wallet)
    /\ \A r \in Request : At(r, "void-entry", "reverse-entry") => MoneyAccount(mem[r].wallet)

LEMMA WalletsTotal ==
    ASSUME GoalsTyped, PaidFromWallets, NEW type, NEW from \in Int, NEW to \in Int, MonthBuckets(from, to) # {},
           NEW wallets, wallets = {a \in DOMAIN LedgerAccount : MoneyAccount(a)}
    PROVE  Total([w \in wallets |-> Total(MonthlyBreakdown(type, from, to, w))])
             = Amounts(CountedFor(type, from, to + 1))
<1> DEFINE counted == CountedFor(type, from, to + 1)
           rows == [w \in wallets |-> Total(MonthlyBreakdown(type, from, to, w))]
           of == [e \in counted |-> budget.entry[e].wallet]
<1>1. counted \subseteq BudgetRows("entry") /\ BudgetTyped
  BY CountedRows DEF GoalsTyped
<1>2. DOMAIN rows = wallets /\ IsFiniteSet(wallets) /\ Nothing \notin wallets
  BY FS_Subset, BudgetAssumption
<1>3. \A e \in counted : of[e] \in wallets
  BY <1>1 DEF BudgetRows, BudgetTyped, EntryRow, PaidFromWallets
<1>4. ASSUME NEW w \in wallets
      PROVE  rows[w] = Amounts({e \in counted : of[e] = w})
  <2>1. rows[w] = Amounts(PaidWith(counted, w))
    BY <1>1, MonthlyTotal
  <2>2. PaidWith(counted, w) = {e \in counted : of[e] = w}
    BY <1>2 DEF PaidWith
  <2> QED BY <2>1, <2>2
<1> HIDE DEF counted, of, rows
<1>5. Total(rows) = Amounts(counted)
  BY <1>1, <1>2, <1>3, <1>4, GroupsAdd
<1> QED BY <1>5 DEF rows, counted

LEMMA PagesAddUp == GoalsTyped /\ NamesApart /\ GoalsApart /\ PaidFromWallets => Tallied
<1> SUFFICES ASSUME GoalsTyped, NamesApart, GoalsApart, PaidFromWallets PROVE Tallied
  OBVIOUS
<1> DEFINE days == 0 .. 2 * MonthLength - 1
           wallets == {a \in DOMAIN LedgerAccount : MoneyAccount(a)}
           range(type, from, to) == Total(CategoryBreakdown(type, from, to))
<1>1. BudgetTyped /\ MonthLength \in Nat \ {0}
  BY BudgetAssumption DEF GoalsTyped
<1>2. ASSUME NEW type \in {"EXPENSE", "INCOME"}, NEW from \in days, NEW to \in days, MonthBuckets(from, to) # {}
      PROVE  /\ range(type, from, to) = Total(MonthlyBreakdown(type, from, to, Nothing))
             /\ range(type, from, to) = Total([w \in wallets |-> Total(MonthlyBreakdown(type, from, to, w))])
  <2> DEFINE counted == CountedFor(type, from, to + 1)
  <2>1. from \in Int /\ to \in Int
    BY <1>1
  <2>2. range(type, from, to) = Amounts(counted)
    BY <1>1, BreakdownTotal
  <2>3. Total(MonthlyBreakdown(type, from, to, Nothing)) = Amounts(PaidWith(counted, Nothing))
    BY <1>1, <1>2, <2>1, MonthlyTotal
  <2>4. PaidWith(counted, Nothing) = counted
    BY DEF PaidWith
  <2>5. Total([w \in wallets |-> Total(MonthlyBreakdown(type, from, to, w))]) = Amounts(counted)
    BY <1>2, <2>1, WalletsTotal
  <2> QED BY <2>2, <2>3, <2>4, <2>5
<1>3. ASSUME NEW m \in Int
      PROVE  MonthStart(m) \in Int /\ MonthStart(m + 1) \in Int /\ MonthStart(m + 1) - 1 + 1 = MonthStart(m + 1)
  <2>1. MonthStart(m) \in Int /\ MonthStart(m + 1) \in Int
    BY <1>1 DEF MonthStart
  <2> QED BY <2>1
<1>4. ASSUME NEW type \in {"EXPENSE", "INCOME"}, NEW m \in {0, 1}, NEW c \in DOMAIN Overview(type, m)
      PROVE  LET rows == CategoryBreakdown(type, MonthStart(m), MonthStart(m + 1) - 1)
                 name == budget.category[c].name
             IN  Overview(type, m)[c] = IF name \in DOMAIN rows THEN rows[name] ELSE 0
  <2> DEFINE rows == CategoryBreakdown(type, MonthStart(m), MonthStart(m + 1) - 1)
             name == budget.category[c].name
             counted == InMonth(type, m)
  <2>1. counted = CountedFor(type, MonthStart(m), MonthStart(m + 1) - 1 + 1)
    BY <1>3 DEF InMonth
  <2>2. Overview(type, m)[c] = Amounts(Named(counted, name))
    BY <1>4 DEF Overview
  <2>3. /\ DOMAIN rows = {budget.entry[e].name : e \in counted}
        /\ name \in DOMAIN rows => rows[name] = Amounts(Named(counted, name))
    BY <2>1 DEF CategoryBreakdown
  <2>4. name \notin DOMAIN rows => Named(counted, name) = {}
    BY <2>3 DEF Named
  <2>5. Amounts({}) = 0
    BY SumOfNone DEF Amounts
  <2> HIDE DEF rows, name, counted
  <2>6. Overview(type, m)[c] = IF name \in DOMAIN rows THEN rows[name] ELSE 0
    BY <2>2, <2>3, <2>4, <2>5
  <2> QED BY <2>6 DEF rows, name
<1>5. ASSUME NEW g \in BudgetRows("goal")
      PROVE  LET m == budget.goal[g].month
             IN  Earned(g) = TrendIncome(m) /\ Earned(g) = range("INCOME", MonthStart(m), MonthStart(m + 1) - 1)
  <2> DEFINE m == budget.goal[g].month
  <2>1. m \in Int
    BY <1>5 DEF BudgetRows, GoalsTyped, GoalRow
  <2> HIDE DEF m
  <2>2. InMonth("INCOME", m) = CountedFor("INCOME", MonthStart(m), MonthStart(m + 1) - 1 + 1)
    BY <1>3, <2>1 DEF InMonth
  <2>3. range("INCOME", MonthStart(m), MonthStart(m + 1) - 1) = Amounts(InMonth("INCOME", m))
    BY <1>1, <2>2, BreakdownTotal
  <2> QED BY <2>3 DEF Earned, TrendIncome, m
<1>6. \A g \in BudgetRows("goal") : ~MonthTaken(budget.goal[g].month, g)
  BY DEF MonthTaken, BudgetRows, GoalsTyped, GoalsApart
<1>7. \A c \in BudgetRows("category") : ~NameTaken(budget.category[c].type, budget.category[c].name, c)
  BY <1>1 DEF NameTaken, BudgetRows, BudgetTyped, NamesApart, Categories
<1>8. \A type \in {"EXPENSE", "INCOME"} : \A from, to \in days : MonthBuckets(from, to) # {} =>
          /\ range(type, from, to) = Total(MonthlyBreakdown(type, from, to, Nothing))
          /\ range(type, from, to) = Total([w \in wallets |-> Total(MonthlyBreakdown(type, from, to, w))])
  BY <1>2
<1>9. \A type \in {"EXPENSE", "INCOME"} : \A m \in {0, 1} :
          LET rows == CategoryBreakdown(type, MonthStart(m), MonthStart(m + 1) - 1)
              page == Overview(type, m)
          IN  \A c \in DOMAIN page :
                LET name == budget.category[c].name
                IN  page[c] = IF name \in DOMAIN rows THEN rows[name] ELSE 0
  BY Zenon, <1>4
<1>10. \A g \in BudgetRows("goal") :
          LET m == budget.goal[g].month
          IN  Earned(g) = TrendIncome(m) /\ Earned(g) = range("INCOME", MonthStart(m), MonthStart(m + 1) - 1)
  BY Zenon, <1>5
<1> QED BY Zenon, <1>6, <1>7, <1>8, <1>9, <1>10 DEF Tallied

LEMMA PagesStart == RequestsInit /\ BudgetInit => GoalsTyped /\ GoalsApart /\ PaidFromWallets
<1> SUFFICES ASSUME RequestsInit, BudgetInit PROVE GoalsTyped /\ GoalsApart /\ PaidFromWallets
  OBVIOUS
<1>1. GoalsTyped
  BY BudgetStarts, BudgetAssumption DEF GoalsTyped, BudgetInv, BudgetInit
<1>2. GoalsApart
  BY BudgetAssumption DEF GoalsApart, BudgetInit
<1>3. \A r \in Request : ~At(r, "quick-entry", "post-entry") /\ ~At(r, "void-entry", "reverse-entry")
  BY RequestsStart DEF At
<1>4. \A e \in BudgetIds : budget.entry[e] # Nothing => MoneyAccount(budget.entry[e].wallet)
  BY BudgetAssumption DEF BudgetInit
<1> QED BY <1>1, <1>2, <1>3, <1>4 DEF PaidFromWallets

(* The goals' months stay apart.                                           *)
LEMMA GoalsStep ==
    ASSUME GoalsTyped, GoalsApart, NEW r \in Request, BudgetStep(r) \/ (Abort(r) /\ BudgetStays)
    PROVE  budget'.goal \in [BudgetIds -> GoalRow \cup {Nothing}] /\ GoalsApart'
<1> USE DEF GoalsTyped
<1> PICK b : b = body[r]
  OBVIOUS
<1>0. r \in BudgetIds /\ BudgetBodyFits(b) /\ Nothing \notin GoalRow /\ Nothing \notin BudgetIds
      /\ DOMAIN budget = {"category", "goal", "entry", "target", "crossed", "stray"}
  BY BudgetAssumption DEF BudgetTyped
<1>1. CASE budget'.goal = budget.goal
  BY <1>1 DEF GoalsApart
<1>2. CASE InsertGoal(r) /\ budget'.goal # budget.goal
  <2> DEFINE row == [month |-> b.month, amount |-> b.amount]
  <2>1. row \in GoalRow /\ row.month = b.month
    BY <1>0, <1>2 DEF InsertGoal, At, BudgetBodyFits, GoalRow
  <2>2. ~MonthTaken(b.month, Nothing) /\ budget'.goal = [budget.goal EXCEPT ![r] = row]
    BY <1>0, <1>2 DEF InsertGoal
  <2> HIDE DEF row
  <2>3. budget'.goal[r] = row /\ \A g \in BudgetIds \ {r} : budget'.goal[g] = budget.goal[g]
    BY <1>0, <2>2
  <2>4. \A g \in BudgetIds : budget.goal[g] # Nothing => budget.goal[g].month # b.month
    BY <1>0, <2>2 DEF MonthTaken, BudgetRows
  <2>5. budget'.goal \in [BudgetIds -> GoalRow \cup {Nothing}]
    BY <2>1, <2>2
  <2>6. GoalsApart'
    BY <2>1, <2>3, <2>4 DEF GoalsApart
  <2> QED BY <2>5, <2>6
<1>3. CASE MoveGoal(r) /\ budget'.goal # budget.goal
  <2> DEFINE i == b.goal
             row == [budget.goal[i] EXCEPT !.month = b.month]
  <2>1. i \in BudgetIds /\ b.month \in Int
    BY <1>0, <1>3 DEF MoveGoal, At, BudgetBodyFits
  <2>2. budget.goal[i] # Nothing /\ ~MonthTaken(b.month, i)
        /\ budget'.goal = [budget.goal EXCEPT ![i] = row]
    BY <1>0, <1>3 DEF MoveGoal
  <2>3. row \in GoalRow /\ row.month = b.month
    BY <2>1, <2>2 DEF GoalRow
  <2> HIDE DEF row
  <2>4. budget'.goal[i] = row /\ \A g \in BudgetIds \ {i} : budget'.goal[g] = budget.goal[g]
    BY <2>1, <2>2
  <2>5. \A g \in BudgetIds \ {i} : budget.goal[g] # Nothing => budget.goal[g].month # b.month
    BY <1>0, <2>2 DEF MonthTaken, BudgetRows
  <2>6. budget'.goal \in [BudgetIds -> GoalRow \cup {Nothing}]
    BY <2>2, <2>3
  <2>7. GoalsApart'
    BY <2>3, <2>4, <2>5 DEF GoalsApart
  <2> QED BY <2>6, <2>7
<1>4. CASE DropGoal(r)
  <2>1. budget'.goal = [budget.goal EXCEPT ![b.goal] = Nothing]
    BY <1>0, <1>4 DEF DropGoal
  <2>2. \A g \in BudgetIds : budget'.goal[g] # Nothing => budget'.goal[g] = budget.goal[g]
    BY <2>1
  <2>3. budget'.goal \in [BudgetIds -> GoalRow \cup {Nothing}]
    BY <2>1
  <2> QED BY <2>2, <2>3 DEF GoalsApart
<1>5. CASE InsertCategory(r) \/ DropCategory(r) \/ SetTarget(r)
  BY <1>0, <1>1, <1>5 DEF InsertCategory, DropCategory, SetTarget
<1>6. CASE SaveCategory(r)
  BY <1>0, <1>1, <1>6 DEF SaveCategory
<1>7. CASE PostEntry(r) \/ VoidEntry(r)
  BY <1>0, <1>1, <1>7 DEF PostEntry, VoidEntry
<1>8. CASE BudgetStays \/ FindCategoryName(r) \/ RequireCategory(r) \/ CheckClash(r) \/ FindGoalOf(r)
  BY <1>1, <1>8 DEF BudgetStays, FindCategoryName, RequireCategory, CheckClash, FindGoalOf
<1>9. CASE RequireIncomeGoal(r) \/ CheckMonth(r) \/ RequireAccounts(r)
  BY <1>1, <1>9 DEF BudgetStays, RequireIncomeGoal, CheckMonth, RequireAccounts
<1>10. CASE FindEntries(r) \/ ClaimEntries(r) \/ FindOriginal(r)
  BY <1>1, <1>10 DEF BudgetStays, FindEntries, ClaimEntries, FindOriginal
<1> QED BY <1>1, <1>2, <1>3, <1>4, <1>5, <1>6, <1>7, <1>8, <1>9, <1>10 DEF BudgetStep

(* An entry's wallet is looked up before it is posted and never changes.   *)
LEMMA WalletsStep ==
    ASSUME BudgetInv, PaidFromWallets, NEW r \in Request, BudgetStep(r) \/ (Abort(r) /\ BudgetStays)
    PROVE  PaidFromWallets'
<1> BudgetTyped
  BY DEF BudgetInv
<1> PICK b : b = body[r]
  OBVIOUS
<1>0. /\ r \in BudgetIds /\ BudgetBodyFits(b) /\ Nothing \notin BudgetIds
      /\ DOMAIN budget = {"category", "goal", "entry", "target", "crossed", "stray"}
      /\ body' = body /\ \A q \in Request \ {r} : pc'[q] = pc[q] /\ mem'[q] = mem[q]
  BY BudgetAssumption, BudgetFrame DEF BudgetTyped
<1>1. ASSUME NEW q \in Request, At(q, "quick-entry", "post-entry")'
      PROVE  MoneyAccount(body'[q].wallet)
  <2>1. CASE q # r
    BY <1>0, <1>1, <2>1 DEF At, PaidFromWallets
  <2>2. CASE q = r
    <3>1. RequireAccounts(r) /\ pc'[r] # "done"
      BY <1>1, <2>2, BudgetComesFrom DEF At
    <3>2. MoneyAccount(b.wallet)
      BY <1>0, <3>1, FinishGoes DEF RequireAccounts, BudgetTyped
    <3> QED BY <1>0, <2>2, <3>2
  <2> QED BY <2>1, <2>2
<1>2. ASSUME NEW q \in Request, At(q, "void-entry", "reverse-entry")'
      PROVE  MoneyAccount(mem'[q].wallet)
  <2>1. CASE q # r
    BY <1>0, <1>2, <2>1 DEF At, PaidFromWallets
  <2>2. CASE q = r
    <3>1. mem'[r] = budget.entry[b.entry] /\ mem'[r] # Nothing /\ b.entry \in BudgetIds
      BY <1>0, <1>2, <2>2, JustRead DEF At, BudgetBodyFits
    <3> QED BY <2>2, <3>1 DEF PaidFromWallets
  <2> QED BY <2>1, <2>2
<1>3. ASSUME NEW e \in BudgetIds, budget'.entry[e] # Nothing
      PROVE  MoneyAccount(budget'.entry[e].wallet)
  <2>1. CASE budget'.entry = budget.entry
    BY <1>3, <2>1 DEF PaidFromWallets
  <2>2. CASE SaveCategory(r) /\ budget'.entry # budget.entry
    <3>1. budget'.entry = [i \in DOMAIN budget.entry |->
              IF i \in mem[r].entries THEN [budget.entry[i] EXCEPT !.name = b.name] ELSE budget.entry[i]]
      BY <1>0, <2>2 DEF SaveCategory
    <3>2. DOMAIN budget.entry = BudgetIds /\ \A i \in mem[r].entries : budget.entry[i] # Nothing
      BY <2>2 DEF BudgetInv, BudgetTyped, Claimed, Claims, SaveCategory
    <3>3. budget'.entry[e] \in {budget.entry[e], [budget.entry[e] EXCEPT !.name = b.name]}
          /\ budget.entry[e] # Nothing
      BY <1>3, <3>1, <3>2
    <3>4. budget.entry[e] \in EntryRow
      BY <3>3 DEF BudgetTyped
    <3>5. budget'.entry[e].wallet = budget.entry[e].wallet
      BY <3>3, <3>4 DEF EntryRow
    <3> QED BY <1>3, <3>3, <3>5 DEF PaidFromWallets
  <2>3. CASE PostEntry(r)
    <3> DEFINE row == [type |-> mem[r].row.type, name |-> mem[r].row.name, amount |-> b.amount,
                       day |-> b.day, wallet |-> b.wallet, live |-> TRUE, reverses |-> FALSE,
                       of |-> b.category]
    <3>1. budget'.entry = [budget.entry EXCEPT ![r] = row]
      BY <1>0, <2>3 DEF PostEntry
    <3>2. row.wallet = b.wallet /\ MoneyAccount(b.wallet)
      BY <2>3 DEF PaidFromWallets, PostEntry
    <3> HIDE DEF row
    <3>3. budget'.entry[e] = IF e = r THEN row ELSE budget.entry[e]
      BY <1>0, <3>1 DEF BudgetTyped
    <3> QED BY <1>3, <3>2, <3>3 DEF PaidFromWallets
  <2>4. CASE VoidEntry(r) /\ budget'.entry # budget.entry
    <3> DEFINE i == b.entry
               voided == [budget.entry[i] EXCEPT !.live = FALSE]
               back == [[mem[r] EXCEPT !.reverses = TRUE] EXCEPT !.day = b.day]
    <3>1. /\ i \in BudgetIds /\ budget.entry[i] # Nothing
          /\ mem[r] \in EntryRow /\ MoneyAccount(mem[r].wallet)
      BY <1>0, <2>4 DEF VoidEntry, At, BudgetBodyFits, BudgetInv, ReadRight, PaidFromWallets
    <3>2. budget'.entry = [[budget.entry EXCEPT ![i] = voided] EXCEPT ![r] = back]
      BY <1>0, <2>4 DEF VoidEntry
    <3>3. budget.entry[i] \in EntryRow
      BY <3>1 DEF BudgetTyped
    <3>4. voided.wallet = budget.entry[i].wallet /\ back.wallet = mem[r].wallet
      BY <3>1, <3>3 DEF EntryRow
    <3> HIDE DEF voided, back
    <3>5. budget'.entry[e] \in {budget.entry[e], voided, back}
      BY <1>0, <3>2 DEF BudgetTyped
    <3> QED BY <1>3, <3>1, <3>4, <3>5 DEF PaidFromWallets
  <2>5. CASE InsertCategory(r) \/ DropCategory(r) \/ SetTarget(r) \/ InsertGoal(r)
    BY <1>0, <2>1, <2>5 DEF InsertCategory, DropCategory, SetTarget, InsertGoal
  <2>6. CASE MoveGoal(r) \/ DropGoal(r)
    BY <1>0, <2>1, <2>6 DEF MoveGoal, DropGoal
  <2>7. CASE BudgetStays \/ FindCategoryName(r) \/ RequireCategory(r) \/ CheckClash(r) \/ FindGoalOf(r)
    BY <2>1, <2>7 DEF BudgetStays, FindCategoryName, RequireCategory, CheckClash, FindGoalOf
  <2>8. CASE RequireIncomeGoal(r) \/ CheckMonth(r) \/ RequireAccounts(r)
    BY <2>1, <2>8 DEF BudgetStays, RequireIncomeGoal, CheckMonth, RequireAccounts
  <2>9. CASE FindEntries(r) \/ ClaimEntries(r) \/ FindOriginal(r)
    BY <2>1, <2>9 DEF BudgetStays, FindEntries, ClaimEntries, FindOriginal
  <2> QED BY <2>1, <2>2, <2>3, <2>4, <2>5, <2>6, <2>7, <2>8, <2>9 DEF BudgetStep
<1> QED BY <1>1, <1>2, <1>3 DEF PaidFromWallets

(* Whatever is entered, voided, renamed and moved at once, the pages of    *)
(* the reports add the same entries up to the same totals.                 *)
THEOREM PagesStayTallied == BudgetSpec => PagesTally
<1> DEFINE Inv == BudgetInv /\ GoalsTyped /\ GoalsApart /\ PaidFromWallets
<1>1. RequestsInit /\ BudgetInit => Inv
  BY BudgetStarts, PagesStart
<1>2. Inv /\ [BudgetNext]_<<requests, budget>> => Inv'
  <2> SUFFICES ASSUME Inv, [BudgetNext]_<<requests, budget>> PROVE Inv'
    OBVIOUS
  <2>1. CASE UNCHANGED <<requests, budget>>
    <3>1. body' = body /\ pc' = pc /\ budget' = budget
      BY <2>1 DEF requests
    <3>2. BudgetInv'
      BY <2>1, BudgetInvStays
    <3>3. GoalsTyped' /\ GoalsApart'
      BY <3>1, <3>2 DEF BudgetInv, GoalsTyped, GoalsApart
    <3>4. PaidFromWallets'
      BY <2>1, <3>1 DEF PaidFromWallets, At, requests
    <3> QED BY <3>2, <3>3, <3>4
  <2>2. ASSUME NEW r \in Request, BudgetStep(r) \/ (Abort(r) /\ BudgetStays) PROVE Inv'
    <3>1. BudgetInv'
      BY <2>2, BudgetInvStep
    <3>2. budget'.goal \in [BudgetIds -> GoalRow \cup {Nothing}] /\ GoalsApart'
      BY <2>2, GoalsStep
    <3>3. GoalsTyped'
      BY <3>1, <3>2 DEF BudgetInv, GoalsTyped
    <3>4. PaidFromWallets'
      BY <2>2, WalletsStep
    <3> QED BY <3>1, <3>2, <3>3, <3>4
  <2> QED BY <2>1, <2>2 DEF BudgetNext
<1>3. Inv => Tallied
  BY PagesAddUp DEF BudgetInv
<1>4. Inv' => Tallied'
  BY <1>3, PTL
<1> HIDE DEF Inv
<1>5. Inv /\ Inv' => [budget' # budget => Tallied']_budget
  BY <1>4
<1> QED BY <1>1, <1>2, <1>5, PTL DEF BudgetSpec, PagesTally

(***************************************************************************)
(* Books and skills                                                        *)
(***************************************************************************)
ShelfNext == \E r \in Request : ShelfStep(r) \/ (Abort(r) /\ ShelfStays)

ShelfSpec == RequestsInit /\ ShelfInit /\ [][ShelfNext]_<<requests, shelf>>

ShelfTyped ==
    /\ Framed
    /\ \A r \in Request : ShelfBodyFits(body[r])
    /\ DOMAIN shelf = {"item", "log", "goal"}
    /\ shelf.item \in [ShelfIds -> ItemRow \cup {Nothing}]
    /\ shelf.log \in [ShelfIds -> Nat]

(* A row that has the updatedAt a request has read is the row it has read. *)
Swapping(r) ==
    At(r, "progress", "swap") =>
        LET from == mem[r].from
            now == shelf.item[body[r].id]
        IN  /\ from \in ItemRow /\ Settled(from) /\ Edited(from, body[r].change) # Refused
            /\ now # Nothing => /\ from.updatedAt <= now.updatedAt
                                /\ now.updatedAt = from.updatedAt => now = from

(* A shelf is counted and added to under its lock.                         *)
Counting(r) ==
    LET b == body[r]
    IN  b.op = "shelve" =>
          /\ pc[r] \in {"count", "insert"} => <<b.kind, 1>> \in lock[r] /\ Created(b) # Refused
          /\ pc[r] = "insert" => Cardinality(OnShelf(b.kind)) < MaxOnShelf[b.kind]

(* An item is new when it is put on the shelf.                             *)
ItemNew(r) ==
    ~Ended(r) =>
        /\ shelf.item[r] = Nothing
        /\ \A q \in Request : At(q, "progress", "swap") => body[q].id # r

ShelfInv ==
    /\ ShelfTyped /\ Apart
    /\ \A r \in Request : Swapping(r) /\ Counting(r) /\ ItemNew(r)
    /\ ShelvesKept

LEMMA LesserOf == ASSUME NEW m \in Nat, NEW n \in Nat PROVE Min({m, n}) \in 0 .. n
<1>1. \E x \in {m, n} : \A y \in {m, n} : x <= y
  <2>1. CASE m <= n
    BY <2>1
  <2>2. CASE n <= m
    BY <2>2
  <2> QED BY <2>1, <2>2
<1> QED BY <1>1 DEF Min

LEMMA GreaterOf == ASSUME NEW n \in Int PROVE Max({0, n}) \in Nat
<1>1. \E x \in {0, n} : \A y \in {0, n} : x >= y
  <2>1. CASE 0 <= n
    BY <2>1
  <2>2. CASE n <= 0
    BY <2>2
  <2> QED BY <2>1, <2>2
<1>2. Max({0, n}) \in {0, n} /\ Max({0, n}) >= 0
  BY <1>1 DEF Max
<1> QED BY <1>2

(* What settleShelf() gives an item that was in order.                     *)
LEMMA SettleGives ==
    ASSUME NEW from \in ItemRow, Settled(from), NEW change, ChangeFits(change),
           SettleShelf(from, change) # Refused
    PROVE  LET to == SettleShelf(from, change)
           IN  /\ to \in ItemRow /\ to.kind = from.kind
               /\ to.logged = from.logged /\ to.updatedAt = from.updatedAt
               /\ to.status = "done" <=> to.progress = to.total
               /\ to.status = "todo" => to.progress = 0
               /\ to.progress <= to.total
<1> DEFINE total == IF Sent(change, "total") THEN change.total ELSE from.total
           progress == Progress(from, change, total)
           status == StatusOf(from, change, progress, total)
           to == SettleShelf(from, change)
<1>0. /\ from.total \in Nat \ {0} /\ from.progress \in Nat /\ from.status \in {"todo", "doing", "done"}
      /\ from.progress <= from.total
      /\ from.status = "done" <=> from.progress = from.total
      /\ from.status = "todo" => from.progress = 0
  BY DEF ItemRow, Settled
<1>1. total \in Nat \ {0}
  BY <1>0 DEF ChangeFits
<1>2. /\ ~ShelfRefuses(change, progress, total)
      /\ to = [from EXCEPT !.total = total, !.progress = progress, !.status = status,
                           !.started = status # "todo"]
  BY DEF SettleShelf
<1> HIDE DEF total
<1>3. /\ progress \in Nat
      /\ Sent(change, "status") /\ change.status = "done" => progress = total
      /\ Sent(change, "status") /\ change.status = "todo" => progress = 0
  BY <1>0, <1>1 DEF Progress, ChangeFits
<1>4. progress <= total
  BY <1>1, <1>2, <1>3 DEF ShelfRefuses
<1> HIDE DEF progress
<1>5. /\ status \in {"todo", "doing", "done"}
      /\ status = "done" <=> progress = total
      /\ status = "todo" => progress = 0
  <2>1. CASE Sent(change, "status") /\ change.status = "todo"
    BY <1>1, <1>3, <2>1 DEF StatusOf
  <2>2. CASE ~(Sent(change, "status") /\ change.status = "todo") /\ progress = total
    BY <1>0, <1>1, <1>3, <1>4, <2>2 DEF StatusOf
  <2>3. CASE ~(Sent(change, "status") /\ change.status = "todo") /\ progress # total
    <3>1. ~(progress >= total)
      BY <1>1, <1>3, <1>4, <2>3
    <3>2. status = IF Sent(change, "status") \/ progress > 0 \/ from.status = "done" THEN "doing"
                   ELSE from.status
      BY <2>3, <3>1 DEF StatusOf
    <3> HIDE DEF status
    <3> QED BY <1>0, <1>3, <2>3, <3>2
  <2> QED BY <2>1, <2>2, <2>3
<1> HIDE DEF status, to
<1>6. /\ to \in ItemRow /\ to.kind = from.kind /\ to.logged = from.logged /\ to.updatedAt = from.updatedAt
      /\ to.status = status /\ to.progress = progress /\ to.total = total
  BY <1>1, <1>2, <1>3, <1>5 DEF ItemRow
<1> QED BY <1>4, <1>5, <1>6 DEF to

(* An edit keeps an item in order, and is a later version of it.           *)
LEMMA EditGives ==
    ASSUME NEW from \in ItemRow, Settled(from), NEW change, ChangeFits(change),
           Edited(from, change) # Refused
    PROVE  LET to == Edited(from, change)
           IN  /\ to \in ItemRow /\ Settled(to) /\ to.kind = from.kind
               /\ to.updatedAt = from.updatedAt + 1
               /\ LogDelta(from, change, to) \in Int
<1> DEFINE settled == SettleShelf(from, change)
           logged == IF Reported(change) THEN settled.progress ELSE Min({from.logged, settled.progress})
           to == Edited(from, change)
<1>1. settled # Refused
  BY DEF Edited
<1>2. /\ settled \in ItemRow /\ settled.kind = from.kind
      /\ settled.logged = from.logged /\ settled.updatedAt = from.updatedAt
      /\ settled.status = "done" <=> settled.progress = settled.total
      /\ settled.status = "todo" => settled.progress = 0
      /\ settled.progress <= settled.total
  BY <1>1, SettleGives
<1>3. to = [settled EXCEPT !.logged = logged, !.updatedAt = from.updatedAt + 1]
  BY <1>1, <1>2 DEF Edited
<1> HIDE DEF settled, to
<1>4. settled.progress \in Nat /\ settled.total \in Nat \ {0} /\ from.logged \in Nat /\ from.updatedAt \in Nat
  BY <1>2 DEF ItemRow
<1>5. logged \in 0 .. settled.progress /\ logged \in Nat /\ from.updatedAt + 1 \in Nat
  BY <1>4, LesserOf
<1> HIDE DEF logged
<1>6. /\ to \in ItemRow /\ to.kind = settled.kind /\ to.logged = logged
      /\ to.updatedAt = from.updatedAt + 1 /\ to.status = settled.status
      /\ to.progress = settled.progress /\ to.total = settled.total
  BY <1>2, <1>3, <1>4, <1>5 DEF ItemRow
<1>7. LogDelta(from, change, to) \in Int
  BY <1>4, <1>6 DEF LogDelta
<1> QED BY <1>2, <1>4, <1>5, <1>6, <1>7 DEF Settled, to

(* A new item is in order.                                                 *)
LEMMA CreateGives ==
    ASSUME NEW b, b.op = "shelve", ShelfBodyFits(b), Created(b) # Refused
    PROVE  Created(b) \in ItemRow /\ Settled(Created(b)) /\ Created(b).kind = b.kind
<1> DEFINE from == NewItem(b)
           settled == SettleShelf(from, b.change)
           to == Created(b)
<1>1. ChangeFits(b.change) /\ b.change.total \in Nat \ {0} /\ b.kind \in Kinds
  BY DEF ShelfBodyFits, ChangeFits
<1>2. from \in ItemRow /\ Settled(from) /\ from.kind = b.kind
  BY <1>1 DEF NewItem, ItemRow, Settled
<1>3. settled # Refused
  BY DEF Created
<1>4. /\ settled \in ItemRow /\ settled.kind = b.kind
      /\ settled.status = "done" <=> settled.progress = settled.total
      /\ settled.status = "todo" => settled.progress = 0
      /\ settled.progress <= settled.total
  <2> HIDE DEF from
  <2> QED BY <1>1, <1>2, <1>3, SettleGives
<1>5. to = [settled EXCEPT !.logged = settled.progress]
  BY <1>3 DEF Created
<1> HIDE DEF settled, to
<1>6. settled.progress \in Nat /\ settled.total \in Nat
  BY <1>4 DEF ItemRow
<1>7. /\ to \in ItemRow /\ to.kind = settled.kind /\ to.logged = settled.progress
      /\ to.status = settled.status /\ to.progress = settled.progress /\ to.total = settled.total
  BY <1>4, <1>5, <1>6 DEF ItemRow
<1> QED BY <1>4, <1>6, <1>7 DEF Settled, to

LEMMA ShelfStarts == RequestsInit /\ ShelfInit => ShelfInv
<1> SUFFICES ASSUME RequestsInit, ShelfInit PROVE ShelfInv
  OBVIOUS
<1>0. shelf = ShelfStart
  BY DEF ShelfInit
<1>1. ShelfTyped
  <2>1. \A r \in Request : ShelfBodyFits(body[r])
    BY RequestsStart, ShelfBodies DEF ShelfBodyFits, NoBody
  <2> QED BY <1>0, <2>1, RequestsStart, ShelfAssumption DEF ShelfTyped
<1>2. \A r \in Request : Swapping(r) /\ Counting(r) /\ ItemNew(r)
  BY <1>0, RequestsStart, ShelfAssumption DEF Swapping, Counting, ItemNew, At
<1>3. ShelvesKept
  <2> DEFINE there(kind) == {i \in ShelfIds : ShelfStart.item[i] # Nothing /\ ShelfStart.item[i].kind = kind}
  <2>1. \A kind : OnShelf(kind) = there(kind)
    BY <1>0 DEF OnShelf
  <2>2. /\ \A kind \in Kinds : Cardinality(there(kind)) <= MaxOnShelf[kind]
        /\ \A i \in ShelfIds : /\ ShelfStart.item[i] # Nothing => Settled(ShelfStart.item[i])
                               /\ ShelfStart.log[i] # 0 => i \in there("skill")
    BY ShelfAssumption
  <2>3. ASSUME NEW i \in ShelfIds, ShelfStart.log[i] # 0 PROVE i \in OnShelf("skill")
    BY <1>0, <2>2, <2>3 DEF OnShelf
  <2>4. DOMAIN LearnedToday = {i \in ShelfIds : ShelfStart.log[i] # 0}
    BY <1>0 DEF LearnedToday
  <2>5. DOMAIN LearnedToday \subseteq OnShelf("skill")
    BY <2>3, <2>4
  <2> HIDE DEF there
  <2>6. \A kind \in Kinds : Cardinality(OnShelf(kind)) <= MaxOnShelf[kind]
    BY <2>1, <2>2
  <2>7. \A i \in ShelfIds : shelf.item[i] # Nothing => Settled(shelf.item[i])
    BY <1>0, <2>2
  <2> QED BY <2>5, <2>6, <2>7 DEF ShelvesKept
<1> QED BY <1>1, <1>2, <1>3, RequestsStart DEF ShelfInv

LEMMA ShelfMoves ==
    ASSUME NEW r \in Request, ShelfStep(r) \/ Abort(r)
    PROVE  Moves(r) /\ ~Ended(r)
<1> USE FinishMoves, AwaitMoves, KeepMoves, TakeMoves DEF At, Ended
<1>1. CASE LockShelf(r) \/ CountShelf(r) \/ InsertItem(r)
  BY <1>1 DEF LockShelf, CountShelf, InsertItem
<1>2. CASE ReadItem(r) \/ SwapItem(r)
  BY <1>2 DEF ReadItem, SwapItem
<1>3. CASE RemoveItem(r) \/ SetGoal(r)
  BY <1>3 DEF RemoveItem, SetGoal
<1>4. CASE Abort(r)
  BY <1>4, AbortMoves DEF Abort
<1> QED BY <1>1, <1>2, <1>3, <1>4 DEF ShelfStep

(* The three ways to change what is shown.                                 *)
Puts(r) ==
    /\ At(r, "shelve", "insert")
    /\ shelf'.item = [shelf.item EXCEPT ![r] = Created(body[r])] /\ shelf'.log = shelf.log

Swaps(r) ==
    LET b == body[r]
        from == shelf.item[b.id]
        to == Edited(from, b.change)
    IN  /\ At(r, "progress", "swap") /\ b.id \in ShelfIds
        /\ from \in ItemRow /\ Settled(from) /\ to # Refused /\ ChangeFits(b.change)
        /\ shelf'.item = [shelf.item EXCEPT ![b.id] = to]
        /\ shelf'.log = [shelf.log EXCEPT ![b.id] = Adjusted(from.kind, @, LogDelta(from, b.change, to))]

Drops(r) ==
    LET i == body[r].id
    IN  /\ At(r, "unshelve", "start") /\ i \in ShelfIds
        /\ shelf'.item = [shelf.item EXCEPT ![i] = Nothing] /\ shelf'.log = [shelf.log EXCEPT ![i] = 0]

ShownStays == shelf'.item = shelf.item /\ shelf'.log = shelf.log

LEMMA ShelfChanges ==
    ASSUME ShelfInv, NEW r \in Request, ShelfStep(r) \/ (Abort(r) /\ ShelfStays)
    PROVE  /\ DOMAIN shelf' = {"item", "log", "goal"}
           /\ ShownStays \/ ((Puts(r) \/ Swaps(r) \/ Drops(r)) /\ pc'[r] = "done")
<1> USE DEF ShelfInv, ShelfTyped
<1>0. Finish(r) => pc'[r] = "done"
  BY FinishGoes
<1>1. CASE ShelfStays
  BY <1>1 DEF ShelfStays, ShownStays
<1>2. CASE InsertItem(r)
  BY <1>0, <1>2 DEF InsertItem, Puts
<1>3. CASE SwapItem(r)
  <2> DEFINE b == body[r]
             now == shelf.item[b.id]
  <2>1. At(r, "progress", "swap") /\ b.id \in ShelfIds /\ ChangeFits(b.change)
    BY <1>3 DEF SwapItem, At, ShelfBodyFits
  <2>2. CASE now # Nothing /\ now.updatedAt = mem[r].from.updatedAt
    <3>1. mem[r].from = now /\ now \in ItemRow /\ Settled(now) /\ Edited(now, b.change) # Refused
      BY <2>1, <2>2 DEF Swapping
    <3>2. shelf' = WithEdit(r) /\ Finish(r)
      BY <1>3, <2>2 DEF SwapItem
    <3>3. DOMAIN shelf' = {"item", "log", "goal"} /\ Swaps(r)
      BY <2>1, <3>1, <3>2 DEF WithEdit, Swaps
    <3> QED BY <1>0, <3>2, <3>3
  <2>3. CASE ~(now # Nothing /\ now.updatedAt = mem[r].from.updatedAt)
    BY <1>1, <1>3, <2>3 DEF SwapItem
  <2> QED BY <2>2, <2>3
<1>4. CASE RemoveItem(r)
  <2>1. At(r, "unshelve", "start") /\ body[r].id \in ShelfIds
    BY <1>4 DEF RemoveItem, At, ShelfBodyFits
  <2> QED BY <1>0, <1>4, <2>1 DEF RemoveItem, Drops, ShownStays
<1>5. CASE SetGoal(r)
  BY <1>5 DEF SetGoal, ShownStays
<1>6. CASE LockShelf(r) \/ CountShelf(r) \/ ReadItem(r)
  BY <1>1, <1>6 DEF LockShelf, CountShelf, ReadItem
<1> QED BY <1>1, <1>2, <1>3, <1>4, <1>5, <1>6 DEF ShelfStep

(* What becomes of each item and its log.                                  *)
LEMMA ItemsChange ==
    ASSUME ShelfInv, NEW r \in Request, ShelfStep(r) \/ (Abort(r) /\ ShelfStays)
    PROVE  /\ shelf'.item \in [ShelfIds -> ItemRow \cup {Nothing}]
           /\ shelf'.log \in [ShelfIds -> Nat]
           /\ \A i \in ShelfIds :
                \/ shelf'.item[i] = shelf.item[i] /\ shelf'.log[i] = shelf.log[i]
                \/ shelf'.item[i] = Nothing /\ shelf'.log[i] = 0
                \/ /\ i = r /\ Puts(r) /\ Settled(shelf'.item[r]) /\ shelf'.item[r].kind = body[r].kind
                   /\ shelf'.log[i] = shelf.log[i]
                \/ /\ shelf.item[i] # Nothing /\ shelf'.item[i] # Nothing /\ Settled(shelf'.item[i])
                   /\ shelf'.item[i].kind = shelf.item[i].kind
                   /\ shelf'.item[i].updatedAt = shelf.item[i].updatedAt + 1
                   /\ shelf'.item[i].kind = "book" => shelf'.log[i] = 0
<1>0. /\ shelf.item \in [ShelfIds -> ItemRow \cup {Nothing}] /\ shelf.log \in [ShelfIds -> Nat]
      /\ Request \subseteq ShelfIds /\ Nothing \notin ItemRow
      /\ ShelfBodyFits(body[r])
  BY ShelfAssumption DEF ShelfInv, ShelfTyped
<1>1. CASE ShownStays
  BY <1>0, <1>1 DEF ShownStays
<1>2. CASE Puts(r)
  <2>1. Created(body[r]) \in ItemRow /\ Settled(Created(body[r])) /\ Created(body[r]).kind = body[r].kind
    BY <1>0, <1>2, CreateGives DEF Puts, At, ShelfInv, Counting
  <2> QED BY <1>0, <1>2, <2>1 DEF Puts
<1>3. CASE Swaps(r)
  <2> DEFINE b == body[r]
             from == shelf.item[b.id]
             to == Edited(from, b.change)
             log == Adjusted(from.kind, shelf.log[b.id], LogDelta(from, b.change, to))
  <2>1. /\ b.id \in ShelfIds /\ from \in ItemRow /\ Settled(from) /\ to # Refused /\ ChangeFits(b.change)
        /\ shelf'.item = [shelf.item EXCEPT ![b.id] = to] /\ shelf'.log = [shelf.log EXCEPT ![b.id] = log]
    BY <1>3 DEF Swaps
  <2>2. /\ to \in ItemRow /\ Settled(to) /\ to.kind = from.kind /\ to.updatedAt = from.updatedAt + 1
        /\ LogDelta(from, b.change, to) \in Int
    BY <2>1, EditGives
  <2>3. log \in Nat /\ (from.kind = "book" => log = 0)
    BY <1>0, <2>1, <2>2, GreaterOf DEF Adjusted
  <2> HIDE DEF log, to
  <2> QED BY <1>0, <2>1, <2>2, <2>3
<1>4. CASE Drops(r)
  BY <1>0, <1>4 DEF Drops
<1> QED BY <1>1, <1>2, <1>3, <1>4, ShelfChanges

LEMMA ShelvesFinite ==
    ASSUME NEW kind
    PROVE  IsFiniteSet(OnShelf(kind)) /\ Cardinality(OnShelf(kind)) \in Nat
<1>1. OnShelf(kind) \subseteq ShelfIds
  BY DEF OnShelf
<1> QED BY <1>1, FS_Subset, FS_CardinalityType, ShelfAssumption

(* Nothing but Puts adds to a shelf.                                       *)
LEMMA ShelfGrows ==
    ASSUME ShelfInv, NEW r \in Request, ShelfStep(r) \/ (Abort(r) /\ ShelfStays), NEW kind
    PROVE  /\ IsFiniteSet(OnShelf(kind)') /\ Cardinality(OnShelf(kind)') \in Nat
           /\ \/ Cardinality(OnShelf(kind)') <= Cardinality(OnShelf(kind))
              \/ /\ Puts(r) /\ kind = body[r].kind
                 /\ Cardinality(OnShelf(kind)') <= Cardinality(OnShelf(kind)) + 1
<1> DEFINE Before == OnShelf(kind)
           Then == OnShelf(kind)'
<1>0. /\ shelf.item \in [ShelfIds -> ItemRow \cup {Nothing}] /\ Request \subseteq ShelfIds
      /\ IsFiniteSet(Before) /\ Cardinality(Before) \in Nat
  BY ShelfAssumption, ShelvesFinite DEF ShelfInv, ShelfTyped
<1>1. Then = {i \in ShelfIds : shelf'.item[i] # Nothing /\ shelf'.item[i].kind = kind}
  BY DEF OnShelf
<1>2. Then \subseteq Before \/ (Puts(r) /\ kind = body[r].kind /\ Then \subseteq Before \cup {r})
  BY <1>0, <1>1, ItemsChange DEF OnShelf
<1> HIDE DEF Before, Then
<1>3. /\ IsFiniteSet(Before \cup {r}) /\ Cardinality(Before \cup {r}) <= Cardinality(Before) + 1
      /\ Cardinality(Before \cup {r}) \in Nat
  <2>1. /\ IsFiniteSet(Before \cup {r})
        /\ Cardinality(Before \cup {r}) \in {Cardinality(Before), Cardinality(Before) + 1}
    BY <1>0, FS_AddElement
  <2> QED BY <1>0, <2>1
<1>4. CASE Then \subseteq Before
  BY <1>0, <1>4, FS_Subset, FS_CardinalityType DEF Before, Then
<1>5. CASE Puts(r) /\ kind = body[r].kind /\ Then \subseteq Before \cup {r}
  <2>1. IsFiniteSet(Then) /\ Cardinality(Then) <= Cardinality(Before \cup {r}) /\ Cardinality(Then) \in Nat
    BY <1>3, <1>5, FS_Subset, FS_CardinalityType
  <2>2. Cardinality(Then) <= Cardinality(Before) + 1
    BY <1>0, <1>3, <2>1
  <2> QED BY <1>5, <2>1, <2>2 DEF Before, Then
<1> QED BY <1>2, <1>4, <1>5

LEMMA ShelfGoes ==
    ASSUME Framed, NEW r \in Request, ShelfStep(r) \/ Abort(r)
    PROVE  /\ pc'[r] = "count" => LockShelf(r)
           /\ pc'[r] = "insert" => CountShelf(r)
           /\ pc'[r] = "swap" => ReadItem(r)
<1> USE FinishGoes, AwaitGoes, KeepGoes, TakeGoes
<1>1. CASE InsertItem(r) \/ SwapItem(r) \/ RemoveItem(r) \/ SetGoal(r) \/ Abort(r)
  BY <1>1, AbortGoes DEF InsertItem, SwapItem, RemoveItem, SetGoal
<1>2. CASE LockShelf(r)
  BY <1>2, pc'[r] \in {"done", "count"} DEF LockShelf
<1>3. CASE CountShelf(r)
  BY <1>3, pc'[r] \in {"done", "insert"} DEF CountShelf
<1>4. CASE ReadItem(r)
  BY <1>4, pc'[r] \in {"done", "swap"} DEF ReadItem
<1> QED BY <1>1, <1>2, <1>3, <1>4 DEF ShelfStep

LEMMA CountingStep ==
    ASSUME ShelfInv, NEW r \in Request, ShelfStep(r) \/ (Abort(r) /\ ShelfStays), NEW q \in Request
    PROVE  Counting(q)'
<1> DEFINE kind == body[q].kind
<1>0. /\ Framed /\ Apart /\ Counting(q) /\ body' = body /\ ShelfBodyFits(body[q])
      /\ Cardinality(OnShelf(kind)) \in Nat /\ (kind \in Kinds => MaxOnShelf[kind] \in Nat)
  BY ShelvesFinite, ShelfAssumption, ShelfMoves, OthersStay DEF ShelfInv, ShelfTyped
<1>1. SUFFICES ASSUME body[q].op = "shelve"
               PROVE  /\ pc'[q] \in {"count", "insert"} => <<kind, 1>> \in lock'[q] /\ Created(body[q]) # Refused
                      /\ pc'[q] = "insert" => Cardinality(OnShelf(kind)') < MaxOnShelf[kind]
  BY <1>0 DEF Counting, OnShelf
<1>2. MaxOnShelf[kind] \in Nat
  BY <1>0, <1>1 DEF ShelfBodyFits
<1>3. CASE q # r
  <2>1. pc'[q] = pc[q] /\ lock'[q] = lock[q]
    BY <1>0, <1>3, ShelfMoves, OthersStay
  <2>2. ASSUME pc[q] = "insert" PROVE Cardinality(OnShelf(kind)') < MaxOnShelf[kind]
    <3>1. Cardinality(OnShelf(kind)) < MaxOnShelf[kind] /\ <<kind, 1>> \in lock[q]
      BY <1>0, <1>1, <2>2 DEF Counting
    <3>2. ~(Puts(r) /\ kind = body[r].kind)
      BY <1>0, <1>3, <3>1 DEF ShelfInv, Counting, Puts, At, Apart
    <3>3. Cardinality(OnShelf(kind)') <= Cardinality(OnShelf(kind)) /\ Cardinality(OnShelf(kind)') \in Nat
      <4>1. PICK k : k = kind
        OBVIOUS
      <4>2. OnShelf(kind)' = OnShelf(k)'
        BY <1>0, <4>1 DEF OnShelf
      <4> QED BY <3>2, <4>1, <4>2, ShelfGrows
    <3> QED BY <1>0, <1>2, <3>1, <3>3
  <2> QED BY <1>0, <1>1, <2>1, <2>2 DEF Counting
<1>4. CASE q = r
  <2>1. ASSUME pc'[r] = "count" PROVE <<kind, 1>> \in lock'[r] /\ Created(body[r]) # Refused
    <3>1. LockShelf(r)
      BY <1>0, <2>1, ShelfGoes
    <3> QED BY <1>0, <1>4, <2>1, <3>1, FinishGoes, TakeGoes DEF LockShelf
  <2>2. ASSUME pc'[r] = "insert"
        PROVE  /\ <<kind, 1>> \in lock'[r] /\ Created(body[r]) # Refused
               /\ Cardinality(OnShelf(kind)') < MaxOnShelf[kind]
    <3>1. CountShelf(r)
      BY <1>0, <2>2, ShelfGoes
    <3>2. /\ pc[r] = "count" /\ ~(Cardinality(OnShelf(kind)) >= MaxOnShelf[kind])
          /\ Await(r, "insert") /\ ShelfStays
      BY <1>0, <1>4, <2>2, <3>1, FinishGoes DEF CountShelf, At
    <3>3. lock' = lock /\ OnShelf(kind)' = OnShelf(kind)
      BY <1>0, <3>2, AwaitGoes DEF ShelfStays, OnShelf
    <3> QED BY <1>0, <1>1, <1>2, <1>4, <3>2, <3>3 DEF Counting
  <2> QED BY <1>4, <2>1, <2>2
<1> QED BY <1>3, <1>4

LEMMA SwappingStep ==
    ASSUME ShelfInv, NEW r \in Request, ShelfStep(r) \/ (Abort(r) /\ ShelfStays), NEW q \in Request
    PROVE  Swapping(q)'
<1>0. /\ Framed /\ Swapping(q) /\ body' = body /\ ShelfBodyFits(body[q]) /\ ItemNew(r) /\ ~Ended(r)
      /\ shelf.item \in [ShelfIds -> ItemRow \cup {Nothing}] /\ Nothing \notin ItemRow
  BY ShelfAssumption, ShelfMoves, OthersStay DEF ShelfInv, ShelfTyped
<1>1. SUFFICES ASSUME body[q].op = "progress", pc'[q] = "swap"
               PROVE  LET from == mem'[q].from
                          now == shelf'.item[body[q].id]
                      IN  /\ from \in ItemRow /\ Settled(from) /\ Edited(from, body[q].change) # Refused
                          /\ now # Nothing => /\ from.updatedAt <= now.updatedAt
                                              /\ now.updatedAt = from.updatedAt => now = from
  BY <1>0 DEF Swapping, At
<1> DEFINE i == body[q].id
<1>2. i \in ShelfIds
  BY <1>0, <1>1 DEF ShelfBodyFits
<1>3. CASE q # r
  <2> DEFINE from == mem[q].from
             now == shelf.item[i]
             next == shelf'.item[i]
  <2>1. pc[q] = "swap" /\ mem'[q] = mem[q]
    BY <1>0, <1>1, <1>3, ShelfMoves, OthersStay
  <2>2. /\ from \in ItemRow /\ Settled(from) /\ Edited(from, body[q].change) # Refused
        /\ now # Nothing => from.updatedAt <= now.updatedAt /\ (now.updatedAt = from.updatedAt => now = from)
        /\ i # r
    BY <1>0, <1>1, <2>1 DEF Swapping, At, ItemNew
  <2>3. \/ next \in {now, Nothing}
        \/ now # Nothing /\ next # Nothing /\ next.updatedAt = now.updatedAt + 1
    BY <1>2, <2>2, ItemsChange
  <2>4. from.updatedAt \in Nat /\ (now # Nothing => now.updatedAt \in Nat)
    BY <1>0, <1>2, <2>2 DEF ItemRow
  <2>5. next # Nothing => from.updatedAt <= next.updatedAt /\ (next.updatedAt = from.updatedAt => next = from)
    <3> HIDE DEF from, now, next
    <3> QED BY <2>2, <2>3, <2>4
  <2> QED BY <2>1, <2>2, <2>5
<1>4. CASE q = r
  <2>1. ReadItem(r)
    BY <1>0, <1>1, <1>4, ShelfGoes
  <2>2. PICK tries : /\ shelf.item[i] # Nothing /\ Edited(shelf.item[i], body[r].change) # Refused
                     /\ Keep(r, "swap", [from |-> shelf.item[i], tries |-> tries]) /\ ShelfStays
    BY <1>0, <1>1, <1>4, <2>1, FinishGoes DEF ReadItem
  <2>3. mem'[r].from = shelf.item[i] /\ shelf' = shelf
    BY <1>0, <2>2, KeepGoes DEF ShelfStays
  <2>4. shelf.item[i] \in ItemRow /\ Settled(shelf.item[i])
    BY <1>0, <1>2, <2>2 DEF ShelfInv, ShelvesKept
  <2>5. shelf.item[i].updatedAt \in Nat
    BY <2>4 DEF ItemRow
  <2> QED BY <1>4, <2>2, <2>3, <2>4, <2>5
<1> QED BY <1>3, <1>4
LEMMA ItemNewStep ==
    ASSUME ShelfInv, NEW r \in Request, ShelfStep(r) \/ (Abort(r) /\ ShelfStays), NEW q \in Request
    PROVE  ItemNew(q)'
<1>0. /\ Framed /\ body' = body /\ ~Ended(r) /\ Moves(r) /\ ItemNew(q) /\ Request \subseteq ShelfIds
  BY ShelfAssumption, ShelfMoves, OthersStay DEF ShelfInv, ShelfTyped
<1>1. SUFFICES ASSUME ~Ended(q)'
               PROVE  /\ shelf'.item[q] = Nothing
                      /\ \A p \in Request : At(p, "progress", "swap")' => body[p].id # q
  BY <1>0 DEF ItemNew
<1>2. ~Ended(q)
  BY <1>0, <1>1, OthersStay DEF Ended
<1>3. shelf.item[q] = Nothing /\ \A p \in Request : At(p, "progress", "swap") => body[p].id # q
  BY <1>0, <1>2 DEF ItemNew
<1>4. ShownStays \/ q # r
  BY <1>1, ShelfChanges DEF Ended
<1>5. shelf'.item[q] = Nothing
  BY <1>0, <1>3, <1>4, ItemsChange DEF ShownStays
<1>6. ASSUME NEW p \in Request, At(p, "progress", "swap")'
      PROVE  body[p].id # q
  <2>1. CASE p # r
    BY <1>0, <1>3, <1>6, <2>1, OthersStay DEF At
  <2>2. CASE p = r
    <3>1. ReadItem(r) /\ pc'[r] = "swap"
      BY <1>0, <1>6, <2>2, ShelfGoes DEF At
    <3>2. shelf.item[body[r].id] # Nothing
      BY <1>0, <3>1, FinishGoes DEF ReadItem
    <3> QED BY <1>3, <2>2, <3>2
  <2> QED BY <2>1, <2>2
<1> QED BY <1>5, <1>6

LEMMA ShelvesKeptStep ==
    ASSUME ShelfInv, NEW r \in Request, ShelfStep(r) \/ (Abort(r) /\ ShelfStays)
    PROVE  ShelvesKept'
<1>0. /\ ShelvesKept /\ ItemNew(r) /\ ~Ended(r) /\ Counting(r) /\ r \in ShelfIds
      /\ shelf.item \in [ShelfIds -> ItemRow \cup {Nothing}] /\ Nothing \notin ItemRow
      /\ shelf'.item \in [ShelfIds -> ItemRow \cup {Nothing}] /\ MaxOnShelf \in [Kinds -> Nat]
  BY ShelfAssumption, ShelfMoves, ItemsChange DEF ShelfInv, ShelfTyped
<1>1. ASSUME NEW kind \in Kinds
      PROVE  Cardinality(OnShelf(kind)') <= MaxOnShelf[kind]
  <2>1. /\ Cardinality(OnShelf(kind)) \in Nat /\ Cardinality(OnShelf(kind)') \in Nat
        /\ MaxOnShelf[kind] \in Nat /\ Cardinality(OnShelf(kind)) <= MaxOnShelf[kind]
    BY <1>0, ShelvesFinite, ShelfGrows DEF ShelvesKept
  <2>2. Puts(r) /\ kind = body[r].kind => Cardinality(OnShelf(kind)) < MaxOnShelf[kind]
    BY <1>0 DEF Puts, At, Counting
  <2>3. \/ Cardinality(OnShelf(kind)') <= Cardinality(OnShelf(kind))
        \/ /\ Puts(r) /\ kind = body[r].kind
           /\ Cardinality(OnShelf(kind)') <= Cardinality(OnShelf(kind)) + 1
    BY ShelfGrows
  <2> QED BY <2>1, <2>2, <2>3
<1>2. ASSUME NEW i \in ShelfIds, shelf'.log[i] # 0
      PROVE  shelf'.item[i] # Nothing /\ shelf'.item[i].kind = "skill"
  <2>1. shelf.log[i] # 0 => shelf.item[i] # Nothing /\ shelf.item[i].kind = "skill"
    BY <1>0 DEF ShelvesKept, LearnedToday, OnShelf
  <2>2. shelf.item[i] # Nothing => shelf.item[i].kind \in {"book", "skill"}
    BY <1>0 DEF ItemRow, Kinds
  <2>3. ~(i = r /\ Puts(r) /\ shelf'.log[i] = shelf.log[i])
    BY <1>0, <1>2, <2>1 DEF ItemNew
  <2> QED BY <1>2, <2>1, <2>2, <2>3, ItemsChange
<1>3. DOMAIN LearnedToday' \subseteq OnShelf("skill")'
  BY <1>2 DEF LearnedToday, OnShelf
<1>4. ASSUME NEW i \in ShelfIds, shelf'.item[i] # Nothing
      PROVE  Settled(shelf'.item[i])
  BY <1>0, <1>4, ItemsChange DEF ShelvesKept
<1>5. \A kind \in Kinds : Cardinality(OnShelf(kind))' <= MaxOnShelf[kind]
  BY <1>1
<1> QED BY <1>3, <1>4, <1>5 DEF ShelvesKept

LEMMA OneByOneStep ==
    ASSUME ShelfInv, NEW r \in Request, ShelfStep(r) \/ (Abort(r) /\ ShelfStays)
    PROVE  OneByOne
<1>1. CASE ShownStays
  BY <1>1 DEF OneByOne, Shown, ShownStays
<1>2. CASE Puts(r) /\ pc'[r] = "done"
  <2>1. body[r].op = "shelve" /\ pc[r] # "done" /\ Shown' = After(Shown, r)
    BY <1>2 DEF Puts, At, Shown, After
  <2> QED BY <1>2, <2>1 DEF OneByOne
<1>3. CASE Swaps(r) /\ pc'[r] = "done"
  <2>1. body[r].op = "progress" /\ pc[r] # "done" /\ Shown' = After(Shown, r)
    BY <1>3 DEF Swaps, At, Shown, After
  <2> QED BY <1>3, <2>1 DEF OneByOne
<1>4. CASE Drops(r) /\ pc'[r] = "done"
  <2>1. body[r].op = "unshelve" /\ pc[r] # "done" /\ Shown' = After(Shown, r)
    BY <1>4 DEF Drops, At, Shown, After
  <2> QED BY <1>4, <2>1 DEF OneByOne
<1> QED BY <1>1, <1>2, <1>3, <1>4, ShelfChanges

LEMMA ShelfInvStep ==
    ASSUME ShelfInv, NEW r \in Request, ShelfStep(r) \/ (Abort(r) /\ ShelfStays)
    PROVE  ShelfInv'
<1>1. Moves(r) /\ Framed /\ Apart
  BY ShelfMoves DEF ShelfInv, ShelfTyped
<1>2. body' = body
  BY <1>1, OthersStay
<1>3. Framed' /\ Apart'
  BY <1>1, OthersStay
<1>4. ShelfTyped'
  BY <1>2, <1>3, ItemsChange, ShelfChanges DEF ShelfInv, ShelfTyped
<1>5. \A q \in Request : Swapping(q)' /\ Counting(q)' /\ ItemNew(q)'
  BY SwappingStep, CountingStep, ItemNewStep
<1> QED BY <1>3, <1>4, <1>5, ShelvesKeptStep DEF ShelfInv

LEMMA ShelfStutter ==
    ASSUME ShelfInv, UNCHANGED <<requests, shelf>>
    PROVE  ShelfInv'
<1> USE DEF requests
<1>1. ShelfTyped' /\ Apart'
  BY DEF ShelfInv, ShelfTyped, Framed, Apart
<1>2. \A kind : OnShelf(kind)' = OnShelf(kind)
  BY DEF OnShelf
<1>3. ShelvesKept'
  BY DEF ShelfInv, ShelvesKept, OnShelf, LearnedToday
<1>4. ASSUME NEW q \in Request PROVE Swapping(q)' /\ Counting(q)' /\ ItemNew(q)'
  BY DEF ShelfInv, Swapping, Counting, ItemNew, At, Ended, OnShelf
<1> QED BY <1>1, <1>3, <1>4 DEF ShelfInv

(* The caps hold, a day's log is that of a skill on the shelf, an item's   *)
(* progress is told right, and every change is that of one request that    *)
(* runs by itself, however requests on the shelves interleave.             *)
THEOREM ShelvesStaySerial == ShelfSpec => ShelvesSerial
<1>1. ShelfInv /\ [ShelfNext]_<<requests, shelf>> => ShelfInv'
  BY ShelfInvStep, ShelfStutter DEF ShelfNext
<1>2. ShelfInv /\ [ShelfNext]_<<requests, shelf>> => [OneByOne]_<<pc, shelf>>
  BY OneByOneStep DEF ShelfNext, requests
<1>3. ShelfInv => ShelvesKept
  BY DEF ShelfInv
<1> QED BY <1>1, <1>2, <1>3, ShelfStarts, PTL DEF ShelfSpec, ShelvesSerial

(***************************************************************************)
(* The chart of accounts                                                   *)
(***************************************************************************)
treeVars == <<requests, chart>>

ChartInit == RequestsInit /\ TreeInit

ChartNext == \E r \in Request : TreeStep(r) \/ (Abort(r) /\ ChartStays)

ChartSpec == ChartInit /\ [][ChartNext]_treeVars

ChartLabel ==
    {"start", "parent", "walk", "write-account", "children", "archive-account", "above",
     "unarchive", "kin", "entries", "delete-account", "done", "failed"}

ChartColumns ==
    chart \in [status : [Account -> {"UNUSED", "ACTIVE", "ARCHIVED", "DELETED"}],
               parent : [Account -> Account \cup {NoParent}],
               posted : SUBSET Account,
               pool : SUBSET Account]

ChartTyped ==
    /\ pc \in [Request -> ChartLabel]
    /\ ChartColumns
    /\ \A r \in Request : body[r].op \in TreeOps =>
        /\ body[r].account \in Account
        /\ body[r].op \in {"create", "reparent"} => body[r].parent \in Account \cup {NoParent}

(* What the reads of a request have made sure of, for good: neither the    *)
(* subtype of a reserved account nor the type of any changes.              *)
ChartCheckedBy(r) ==
    /\ pc[r] \notin {"start", "done", "failed"} => body[r].op \in TreeOps
    /\ pc[r] \in {"children", "kin", "entries", "archive-account", "delete-account"} =>
          body[r].account \notin Reserved
    /\ pc[r] \in {"walk", "write-account"} /\ body[r].op \in {"create", "reparent"}
         /\ body[r].parent # NoParent => Kind[body[r].parent] = Kind[body[r].account]

ChartIInv == ChartTyped /\ (\A r \in Request : ChartCheckedBy(r)) /\ ChartSound

LEMMA ChartInitIInv == ChartInit => ChartIInv
<1> SUFFICES ASSUME ChartInit PROVE ChartIInv
  OBVIOUS
<1> USE TreeAssumption DEF ChartInit, RequestsInit, TreeInit
<1>1. \A r \in Request : \E s \in Scenario : body[r] \in s.bodies \cup {NoBody}
  <2>1. PICK s \in Scenario : body \in Mixes(s)
    OBVIOUS
  <2> QED BY <2>1 DEF Mixes
<1>2. pc \in [Request -> ChartLabel]
  BY DEF ChartLabel
<1>3. ChartTyped
  BY <1>1, <1>2, TreeBodies DEF ChartTyped, ChartColumns
<1>4. \A r \in Request : ChartCheckedBy(r)
  BY DEF ChartCheckedBy
<1>5. ChartSound
  BY DEF ChartSound, PostedKeepsRow, ParentsFit, ReservedStayActive, HasAccount, Compatible
<1> QED BY <1>3, <1>4, <1>5 DEF ChartIInv

(* A request that moves leaves the others' places alone.                   *)
LEMMA ChartMoves ==
    ASSUME ChartTyped, \A q \in Request : ChartCheckedBy(q), NEW r \in Request, NEW l \in ChartLabel,
           pc' = [pc EXCEPT ![r] = l], UNCHANGED body, ChartCheckedBy(r)'
    PROVE  /\ pc' \in [Request -> ChartLabel]
           /\ \A q \in Request : ChartCheckedBy(q)'
<1>1. pc' \in [Request -> ChartLabel] /\ \A q \in Request \ {r} : pc'[q] = pc[q]
  BY DEF ChartTyped
<1> QED BY <1>1 DEF ChartCheckedBy

(* A step that only reads.                                                 *)
LEMMA ChartReads ==
    ASSUME ChartIInv, NEW r \in Request, ChartStays,
           RequireAccount(r) \/ ReadParent(r) \/ WalkUp(r) \/ CountActiveChildren(r)
             \/ LookAbove(r) \/ CountChildren(r) \/ CountEntries(r)
    PROVE  ChartIInv'
<1>1. UNCHANGED body /\ chart' = chart
  BY DEF ChartStays, RequireAccount, ReadParent, WalkUp, CountActiveChildren, LookAbove,
         CountChildren, CountEntries, Finish, Keep, Await
<1>2. \E l \in ChartLabel : pc' = [pc EXCEPT ![r] = l] /\ ChartCheckedBy(r)'
  <2> USE <1>1 DEF ChartIInv, ChartTyped, ChartCheckedBy, ChartLabel, Finish, Keep, Await, Goto
  <2>1. CASE RequireAccount(r)
    <3>1. CASE Denied(body[r]) \/ NothingToDo(body[r])
      BY <2>1, <3>1 DEF RequireAccount
    <3>2. CASE ~(Denied(body[r]) \/ NothingToDo(body[r]))
      <4>1. pc' = [pc EXCEPT ![r] = FirstStep(body[r])] /\ body[r].op \in TreeOps
        BY <2>1, <3>2 DEF RequireAccount
      <4>2. FirstStep(body[r]) \in ChartLabel \ {"start", "walk", "done", "failed"}
        BY <4>1 DEF FirstStep, TreeOps
      <4>3. FirstStep(body[r]) \in {"children", "kin", "entries", "archive-account", "delete-account"}
              => body[r].account \notin Reserved
        BY <3>2, <4>1 DEF FirstStep, TreeOps, Denied
      <4>4. FirstStep(body[r]) = "write-account" /\ body[r].op \in {"create", "reparent"}
              => body[r].parent = NoParent
        BY <4>1 DEF FirstStep, TreeOps
      <4>5. pc'[r] = FirstStep(body[r])
        BY <4>1
      <4> QED BY <4>1, <4>2, <4>3, <4>4, <4>5
    <3> QED BY <3>1, <3>2
  <2>2. CASE ReadParent(r)
    BY <2>2 DEF ReadParent, Compatible
  <2>3. CASE WalkUp(r)
    BY <2>3 DEF WalkUp
  <2>4. CASE CountActiveChildren(r)
    BY <2>4 DEF CountActiveChildren
  <2>5. CASE LookAbove(r)
    BY <2>5 DEF LookAbove
  <2>6. CASE CountChildren(r)
    BY <2>6 DEF CountChildren
  <2>7. CASE CountEntries(r)
    BY <2>7 DEF CountEntries
  <2> QED BY <2>1, <2>2, <2>3, <2>4, <2>5, <2>6, <2>7
<1>3. pc' \in [Request -> ChartLabel] /\ \A q \in Request : ChartCheckedBy(q)'
  BY <1>1, <1>2, ChartMoves DEF ChartIInv
<1>4. ChartTyped' /\ ChartSound'
  BY <1>1, <1>3
     DEF ChartIInv, ChartTyped, ChartColumns, ChartSound, PostedKeepsRow, ParentsFit, ReservedStayActive, HasAccount, Compatible
<1> QED BY <1>3, <1>4 DEF ChartIInv

(* A step that ends its request.                                           *)
LEMMA ChartEnds ==
    ASSUME ChartIInv, NEW r \in Request, Finish(r) \/ Abort(r), ChartSound', ChartColumns'
    PROVE  ChartIInv'
<1>1. \E l \in {"done", "failed"} : pc' = [pc EXCEPT ![r] = l]
  BY DEF Finish, Abort, Goto
<1>2. UNCHANGED body
  BY DEF Finish, Abort
<1>3. ChartCheckedBy(r)'
  BY <1>1 DEF ChartCheckedBy, ChartIInv, ChartTyped
<1>4. pc' \in [Request -> ChartLabel] /\ \A q \in Request : ChartCheckedBy(q)'
  BY <1>1, <1>2, <1>3, ChartMoves DEF ChartIInv, ChartLabel
<1> QED BY <1>2, <1>4 DEF ChartIInv, ChartTyped

LEMMA ChartWrites ==
    ASSUME ChartIInv, NEW r \in Request, WriteAccount(r)
    PROVE  ChartIInv'
<1> DEFINE b == body[r]
<1>1. /\ Finish(r)
      /\ pc[r] = "write-account"
      /\ ChartColumns
      /\ PostedKeepsRow /\ ParentsFit /\ ReservedStayActive
  BY DEF WriteAccount, ChartIInv, ChartTyped, ChartColumns, ChartSound
<1>2. b.op \in TreeOps
  BY <1>1 DEF ChartIInv, ChartCheckedBy
<1>3. b.account \in Account
  BY <1>2 DEF ChartIInv, ChartTyped
<1>4. CASE chart' = chart
  BY <1>1, <1>4, ChartEnds DEF ChartIInv, ChartTyped, ChartColumns, ChartSound, PostedKeepsRow, ParentsFit, ReservedStayActive,
                          HasAccount, Compatible
<1>5. CASE Writable(b) /\ (WriteCreate(b) \/ WriteMove(b))
  <2>1. b.parent \in Account \cup {NoParent}
    BY <1>2, <1>5 DEF WriteCreate, WriteMove, ChartIInv, ChartTyped
  <2>2. b.parent # NoParent => HasAccount(b.parent) /\ Kind[b.parent] = Kind[b.account]
    <3>1. b.parent # NoParent => Kind[b.parent] = Kind[b.account]
      BY <1>1, <1>5 DEF WriteCreate, WriteMove, ChartIInv, ChartCheckedBy
    <3>2. Linkable(b.parent)
      BY <1>5 DEF WriteCreate, WriteMove, Writable
    <3> QED BY <3>1, <3>2 DEF Linkable
  <2>3. CASE WriteCreate(b)
    <3>1. /\ chart.status[b.account] = "UNUSED"
          /\ chart' = [chart EXCEPT !.status[b.account] = "ACTIVE", !.parent[b.account] = b.parent]
      BY <1>5, <2>3 DEF WriteCreate, Writable
    <3>2. /\ chart'.posted = chart.posted
          /\ chart'.status[b.account] = "ACTIVE" /\ chart'.parent[b.account] = b.parent
          /\ \A a \in Account \ {b.account} :
                chart'.status[a] = chart.status[a] /\ chart'.parent[a] = chart.parent[a]
      BY <1>1, <1>3, <3>1 DEF ChartColumns
    <3>3. \A a \in Account : HasAccount(a) => HasAccount(a)'
      BY <3>2 DEF HasAccount
    <3>4. PostedKeepsRow' /\ ReservedStayActive'
      <4>1. PostedKeepsRow'
        BY <1>1, <3>2, <3>3 DEF ChartColumns, PostedKeepsRow, HasAccount
      <4>2. ReservedStayActive'
        <5>1. \A a \in Reserved : a \in Account /\ chart.status[a] = "ACTIVE"
          BY <1>1, TreeAssumption DEF ReservedStayActive
        <5>2. \A a \in Reserved : chart'.status[a] = "ACTIVE"
          BY <3>2, <5>1
        <5> QED BY <5>2 DEF ReservedStayActive
      <4> QED BY <4>1, <4>2
    <3>5. ParentsFit'
      <4>1. SUFFICES ASSUME NEW a \in Account, chart'.parent[a] # NoParent
                     PROVE  HasAccount(a)' /\ Compatible(a, chart.parent[a])'
        BY DEF ParentsFit
      <4>2. CASE a = b.account
        BY <1>3, <2>1, <2>2, <3>2, <3>3, <4>1, <4>2 DEF HasAccount, Compatible
      <4>3. CASE a # b.account
        <5>1. HasAccount(a) /\ Compatible(a, chart.parent[a]) /\ chart.parent[a] \in Account
          BY <1>1, <3>2, <4>1, <4>3 DEF ParentsFit, ChartColumns
        <5> QED BY <3>2, <3>3, <4>3, <5>1 DEF Compatible
      <4> QED BY <4>2, <4>3
    <3>6. ChartColumns'
      BY <1>1, <1>3, <2>1, <3>1 DEF ChartColumns
    <3> QED BY <1>1, <3>4, <3>5, <3>6, ChartEnds DEF ChartSound
  <2>4. CASE WriteMove(b)
    <3>1. HasAccount(b.account) /\ chart' = [chart EXCEPT !.parent[b.account] = b.parent]
      BY <1>5, <2>4 DEF WriteMove, Writable
    <3>2. /\ chart'.status = chart.status
          /\ chart'.parent = [chart.parent EXCEPT ![b.account] = b.parent]
          /\ chart'.posted = chart.posted
      BY <1>1, <3>1 DEF ChartColumns
    <3>3. PostedKeepsRow' /\ ReservedStayActive'
      BY <1>1, <3>2 DEF PostedKeepsRow, ReservedStayActive, HasAccount
    <3>4. ParentsFit'
      BY <1>1, <1>3, <2>1, <2>2, <3>1, <3>2 DEF ChartColumns, ParentsFit, HasAccount, Compatible
    <3>5. ChartColumns'
      BY <1>1, <1>3, <2>1, <3>1 DEF ChartColumns
    <3> QED BY <1>1, <3>3, <3>4, <3>5, ChartEnds DEF ChartSound
  <2> QED BY <1>5, <2>3, <2>4
<1>6. CASE Writable(b) /\ (WriteSubtype(b) \/ WritePost(b))
  <2>1. /\ chart'.status = chart.status
        /\ chart'.parent = chart.parent
        /\ chart'.posted = chart.posted \/ chart'.posted = chart.posted \cup {b.account}
    BY <1>1, <1>6 DEF WriteSubtype, WritePost, ChartColumns
  <2>2. HasAccount(b.account)
    BY <1>6 DEF Writable, WriteSubtype, WritePost
  <2>3. PostedKeepsRow' /\ ParentsFit' /\ ReservedStayActive'
    BY <1>1, <2>1, <2>2 DEF PostedKeepsRow, ParentsFit, ReservedStayActive, HasAccount, Compatible
  <2>4. CASE WriteSubtype(b)
    <3>1. ChartColumns'
      BY <1>1, <2>4 DEF ChartColumns, WriteSubtype
    <3> QED BY <1>1, <2>3, <3>1, ChartEnds DEF ChartSound
  <2>5. CASE WritePost(b)
    <3>1. ChartColumns'
      BY <1>1, <1>3, <2>5 DEF ChartColumns, WritePost
    <3> QED BY <1>1, <2>3, <3>1, ChartEnds DEF ChartSound
  <2> QED BY <1>6, <2>4, <2>5
<1> QED BY <1>4, <1>5, <1>6 DEF WriteAccount, ChartStays

(* archive() of an account that is not reserved, unarchive() of any.       *)
LEMMA ChartChangesStatus ==
    ASSUME ChartIInv, NEW r \in Request, ArchiveAccount(r) \/ Unarchive(r)
    PROVE  ChartIInv'
<1> DEFINE a == body[r].account
<1>1. Finish(r) /\ ChartColumns /\ PostedKeepsRow /\ ParentsFit /\ ReservedStayActive
  BY DEF ArchiveAccount, Unarchive, ChartIInv, ChartTyped, ChartColumns, ChartSound
<1>2. a \in Account
  BY DEF ArchiveAccount, Unarchive, ChartIInv, ChartTyped, ChartCheckedBy
<1>3. PICK s \in {"ACTIVE", "ARCHIVED"} :
        chart' = WithStatus(a, s) /\ (a \in Reserved => s = "ACTIVE")
  BY DEF ArchiveAccount, Unarchive, ChartIInv, ChartCheckedBy
<1>4. CASE ~HasAccount(a)
  BY <1>1, <1>3, <1>4, ChartEnds DEF WithStatus, ChartColumns, ChartSound, PostedKeepsRow, ParentsFit,
                                ReservedStayActive, HasAccount, Compatible
<1>5. CASE HasAccount(a)
  <2>1. /\ chart'.status = [chart.status EXCEPT ![a] = s]
        /\ chart'.parent = chart.parent
        /\ chart'.posted = chart.posted
    BY <1>1, <1>3, <1>5 DEF WithStatus, ChartColumns
  <2>2. PostedKeepsRow' /\ ReservedStayActive'
    BY <1>1, <1>2, <1>3, <2>1, TreeAssumption DEF ChartColumns, PostedKeepsRow, ReservedStayActive, HasAccount
  <2>3. ParentsFit'
    BY <1>1, <1>2, <1>5, <2>1 DEF ChartColumns, ParentsFit, HasAccount, Compatible
  <2>4. ChartColumns'
    BY <1>1, <1>2, <1>3, <1>5 DEF ChartColumns, WithStatus
  <2> QED BY <1>1, <2>2, <2>3, <2>4, ChartEnds DEF ChartSound
<1> QED BY <1>4, <1>5

(* The foreign keys: no entry loses its account, and a child that loses    *)
(* its parent is left without one.                                         *)
LEMMA ChartDeletes ==
    ASSUME ChartIInv, NEW r \in Request, DeleteAccount(r)
    PROVE  ChartIInv'
<1> DEFINE a == body[r].account
<1>1. Finish(r) /\ ChartColumns /\ PostedKeepsRow /\ ParentsFit /\ ReservedStayActive
  BY DEF DeleteAccount, ChartIInv, ChartTyped, ChartColumns, ChartSound
<1>2. a \in Account \ Reserved
  BY DEF DeleteAccount, ChartIInv, ChartTyped, ChartCheckedBy
<1>3. CASE chart' = chart
  BY <1>1, <1>3, ChartEnds DEF ChartColumns, ChartSound, PostedKeepsRow, ParentsFit, ReservedStayActive,
                          HasAccount, Compatible
<1>4. CASE /\ a \notin chart.posted
           /\ chart' = [chart EXCEPT !.status[a] = "DELETED", !.parent = Orphaned(a)]
  <2>1. Orphaned(a) \in [Account -> Account \cup {NoParent}]
    BY <1>1 DEF Orphaned, ChartColumns
  <2>2. \A c \in Account : Orphaned(a)[c] # NoParent =>
            Orphaned(a)[c] = chart.parent[c] /\ c # a /\ chart.parent[c] # a
    BY DEF Orphaned
  <2>3. /\ chart'.status = [chart.status EXCEPT ![a] = "DELETED"]
        /\ chart'.parent = Orphaned(a)
        /\ chart'.posted = chart.posted
    BY <1>1, <1>4 DEF ChartColumns
  <2>4. PostedKeepsRow' /\ ReservedStayActive'
    BY <1>1, <1>2, <1>4, <2>3, TreeAssumption DEF ChartColumns, PostedKeepsRow, ReservedStayActive, HasAccount
  <2>5. ParentsFit'
    BY <1>1, <1>2, <2>1, <2>2, <2>3 DEF ChartColumns, ParentsFit, HasAccount, Compatible
  <2>6. ChartColumns'
    BY <1>1, <1>2, <1>4, <2>1 DEF ChartColumns
  <2> QED BY <1>1, <2>4, <2>5, <2>6, ChartEnds DEF ChartSound
<1> QED BY <1>3, <1>4 DEF DeleteAccount, Deletable

LEMMA ChartNextIInv == ChartIInv /\ [ChartNext]_treeVars => ChartIInv'
<1> SUFFICES ASSUME ChartIInv, [ChartNext]_treeVars PROVE ChartIInv'
  OBVIOUS
<1>1. CASE UNCHANGED treeVars
  BY <1>1 DEF treeVars, requests, ChartIInv, ChartTyped, ChartColumns, ChartCheckedBy, ChartSound, PostedKeepsRow, ParentsFit,
              ReservedStayActive, HasAccount, Compatible
<1>2. ASSUME NEW r \in Request, TreeStep(r) PROVE ChartIInv'
  <2>1. CASE \/ RequireAccount(r) \/ ReadParent(r) \/ WalkUp(r) \/ CountActiveChildren(r)
             \/ LookAbove(r) \/ CountChildren(r) \/ CountEntries(r)
    <3>1. ChartStays
      BY <2>1 DEF RequireAccount, ReadParent, WalkUp, CountActiveChildren, LookAbove,
                  CountChildren, CountEntries
    <3> QED BY <2>1, <3>1, ChartReads
  <2> QED BY <1>2, <2>1, ChartWrites, ChartChangesStatus, ChartDeletes DEF TreeStep
<1>3. ASSUME NEW r \in Request, Abort(r), ChartStays PROVE ChartIInv'
  BY <1>3, ChartEnds DEF ChartIInv, ChartTyped, ChartColumns, ChartStays, ChartSound, PostedKeepsRow, ParentsFit,
                    ReservedStayActive, HasAccount, Compatible
<1> QED BY <1>1, <1>2, <1>3 DEF ChartNext

(* However requests interleave and wherever they are cut off, a posting    *)
(* keeps its account, every parent fits and the reserved accounts stay     *)
(* active, though every check may be out of date when its write runs.      *)
THEOREM ChartStaysSound == ChartSpec => []ChartSound
<1>1. ChartIInv => ChartSound
  BY DEF ChartIInv
<1> QED BY <1>1, ChartInitIInv, ChartNextIInv, PTL DEF ChartSpec

(***************************************************************************)
(* Assets                                                                  *)
(***************************************************************************)
AssetNext == \E r \in Request : AssetStep(r) \/ (Abort(r) /\ AssetsStay)

AssetSpec == RequestsInit /\ AssetInit /\ [][AssetNext]_<<requests, asset>>

AssetTyped ==
    /\ Framed
    /\ \A r \in Request : AssetBodyFits(body[r])
    /\ DOMAIN asset = {"row", "history", "money", "pool", "pools", "category", "posted"}
    /\ asset.row \in [AssetIds -> AssetRow \cup {Nothing}]
    /\ asset.posted \in [DOMAIN AssetStart.posted -> Int \cup {Nothing}]
    /\ asset.money \in [Moneys -> Int]
    /\ asset.pool \in Int \cup {Nothing}
    /\ asset.pools = IF asset.pool = Nothing THEN 0 ELSE 1

(* Whoever looks at an account, an asset or the pool before a posting      *)
(* holds the pool's lock, and what it has seen is so until it has posted.  *)
TradeChecked(r) ==
    /\ pc[r] \in {"lock-pool", "find-account", "find-pool", "post"} =>
          /\ body[r].op \in {"buy", "sell"}
          /\ body[r].op = "buy" => body[r].account # Nothing
    /\ pc[r] \in {"find-account", "find-pool", "post"} => PoolKey \in lock[r]
    /\ pc[r] \in {"find-pool", "post"} =>
          /\ body[r].op = "buy" => body[r].price <= asset.money[body[r].account]
          /\ body[r].op = "sell" =>
                asset.row[body[r].id] # Nothing /\ asset.row[body[r].id].sold = Nothing
    /\ pc[r] = "post" => mem[r] = asset.pool

(* A row that is revalued is there, and who is under way has left none.    *)
AssetRowsKnown(r) ==
    /\ pc[r] \in {"history", "value"} =>
          body[r].op = "revalue" /\ asset.row[body[r].id] # Nothing
    /\ ~Ended(r) => asset.row[r] = Nothing /\ asset.posted[r] = Nothing

AssetInv ==
    /\ AssetTyped /\ Apart
    /\ \A r \in Request : TradeChecked(r) /\ AssetRowsKnown(r)
    /\ AssetsBalance

LEMMA AssetStarts == RequestsInit /\ AssetInit => AssetInv
<1> SUFFICES ASSUME RequestsInit, AssetInit PROVE AssetInv
  OBVIOUS
<1>1. \A r \in Request : AssetBodyFits(body[r])
  <2>1. \A r \in Request : body[r].op # "none" => \E s \in Scenario : body[r] \in s.bodies
    BY RequestsStart DEF NoBody
  <2> QED BY <2>1, AssetBodies DEF AssetBodyFits
<1>2. AssetTyped
  BY <1>1, RequestsStart, AssetAssumption DEF AssetTyped, AssetInit, Moneys, AssetIds
<1>3. \A r \in Request : TradeChecked(r) /\ AssetRowsKnown(r)
  BY RequestsStart, AssetAssumption DEF TradeChecked, AssetRowsKnown, AssetInit
<1>4. AssetsBalance
  BY AssetAssumption DEF AssetsBalance, AssetInit
<1> QED BY <1>2, <1>3, <1>4, RequestsStart DEF AssetInv

LEMMA AssetMoves ==
    ASSUME NEW r \in Request, AssetStep(r) \/ Abort(r)
    PROVE  Moves(r) /\ ~Ended(r)
<1> USE FinishMoves, AwaitMoves, KeepMoves, TakeMoves DEF At, Ended
<1>1. CASE LockAsset(r) \/ LockPool(r) \/ Acquire(r) \/ Affordable(r)
  BY <1>1 DEF LockAsset, LockPool, Acquire, Affordable
<1>2. CASE Unsold(r) \/ FindPool(r) \/ CommitPurchase(r) \/ CommitSale(r)
  BY <1>2 DEF Unsold, FindPool, CommitPurchase, CommitSale
<1>3. CASE FindAsset(r) \/ LogValue(r) \/ SetValue(r) \/ FindCategory(r)
  BY <1>3 DEF FindAsset, LogValue, SetValue, FindCategory
<1>4. CASE WriteCategory(r) \/ ListCategories(r) \/ SeedCategories(r)
  BY <1>4 DEF WriteCategory, ListCategories, SeedCategories
<1>5. CASE Abort(r)
  BY <1>5, AbortMoves DEF Abort
<1> QED BY <1>1, <1>2, <1>3, <1>4, <1>5 DEF AssetStep

(* A step that moves no money: an asset that comes for nothing and another *)
(* value are all it leaves in the rows.                                    *)
MovesNoMoney(r) ==
    /\ DOMAIN asset' = DOMAIN asset
    /\ asset'.money = asset.money /\ asset'.pool = asset.pool /\ asset'.pools = asset.pools
    /\ asset'.posted = asset.posted
    /\ asset'.row \in [AssetIds -> AssetRow \cup {Nothing}]
    /\ \A i \in AssetIds :
          IF asset.row[i] # Nothing
          THEN /\ asset'.row[i] # Nothing
               /\ asset'.row[i].account = asset.row[i].account
               /\ asset'.row[i].sold = asset.row[i].sold
               /\ asset'.row[i].price = asset.row[i].price
          ELSE asset'.row[i] # Nothing =>
                 /\ i = r /\ pc'[r] = "done"
                 /\ asset'.row[i].account = Nothing /\ asset'.row[i].sold = Nothing

LEMMA AssetStayQuiet == ASSUME AssetTyped, NEW r \in Request, asset' = asset PROVE MovesNoMoney(r)
BY DEF MovesNoMoney, AssetTyped

LEMMA AssetChanges ==
    ASSUME AssetInv, NEW r \in Request, AssetStep(r) \/ (Abort(r) /\ AssetsStay)
    PROVE  MovesNoMoney(r) \/ CommitPurchase(r) \/ CommitSale(r)
<1> USE DEF AssetInv
<1>0. CASE asset' = asset
  BY <1>0, AssetStayQuiet
<1>1. CASE Acquire(r)
  <2>1. asset.row[r] = Nothing /\ r \in AssetIds /\ pc'[r] = "done"
    BY <1>1, AssetAssumption, FinishGoes DEF AssetRowsKnown, Acquire, At, Ended, AssetTyped
  <2> PICK new : new = [price |-> body[r].price, value |-> body[r].price,
                        account |-> Nothing, sold |-> Nothing]
    OBVIOUS
  <2>2. new \in AssetRow /\ new.account = Nothing /\ new.sold = Nothing
    BY <1>1 DEF Acquire, At, AssetRow, AssetTyped, AssetBodyFits
  <2>3. new # Nothing
    BY <2>2, AssetAssumption
  <2>4. asset' = [asset EXCEPT !.row[r] = new, !.history[r] = <<body[r].price>>]
    BY <1>1 DEF Acquire
  <2>5. asset'.row = [asset.row EXCEPT ![r] = new]
    BY <2>4 DEF AssetTyped
  <2>6. /\ DOMAIN asset' = DOMAIN asset
        /\ asset'.money = asset.money /\ asset'.pool = asset.pool /\ asset'.pools = asset.pools
        /\ asset'.posted = asset.posted
    BY <2>4 DEF AssetTyped
  <2> QED BY <2>1, <2>2, <2>3, <2>5, <2>6 DEF MovesNoMoney, AssetTyped
<1>2. CASE LogValue(r)
  BY <1>2 DEF LogValue, MovesNoMoney, AssetTyped
<1>3. CASE SetValue(r)
  <2> DEFINE i == body[r].id
  <2>1. i \in AssetIds /\ asset.row[i] # Nothing /\ body[r].value \in Nat
    BY <1>3 DEF SetValue, At, AssetRowsKnown, AssetTyped, AssetBodyFits
  <2>2. asset' = [asset EXCEPT !.row[i].value = body[r].value]
    BY <1>3 DEF SetValue
  <2> PICK new : new = [asset.row[i] EXCEPT !.value = body[r].value]
    OBVIOUS
  <2>3. asset.row[i] \in AssetRow
    BY <2>1 DEF AssetTyped
  <2>4. /\ new \in AssetRow /\ new.account = asset.row[i].account /\ new.sold = asset.row[i].sold
        /\ new.price = asset.row[i].price
    BY <2>1, <2>3 DEF AssetRow
  <2>5. new # Nothing
    BY <2>4, AssetAssumption
  <2>6. asset'.row = [asset.row EXCEPT ![i] = new]
    BY <2>1, <2>2 DEF AssetTyped
  <2>7. /\ DOMAIN asset' = DOMAIN asset
        /\ asset'.money = asset.money /\ asset'.pool = asset.pool /\ asset'.pools = asset.pools
        /\ asset'.posted = asset.posted
    BY <2>2 DEF AssetTyped
  <2> QED BY <2>1, <2>4, <2>5, <2>6, <2>7 DEF MovesNoMoney, AssetTyped
<1>4. CASE WriteCategory(r)
  BY <1>0, <1>4 DEF WriteCategory, MovesNoMoney, AssetTyped
<1>5. CASE SeedCategories(r)
  <2>1. PICK names : asset' = asset \/ asset' = [asset EXCEPT !.category = names]
    BY <1>5 DEF SeedCategories
  <2> QED BY <1>0, <2>1 DEF MovesNoMoney, AssetTyped
<1>6. CASE Abort(r) /\ AssetsStay
  BY <1>0, <1>6 DEF AssetsStay
<1> QED BY <1>0, <1>1, <1>2, <1>3, <1>4, <1>5, <1>6
       DEF AssetStep, LockAsset, LockPool, Affordable, Unsold, FindPool, FindAsset, FindCategory,
           ListCategories, AssetsStay

(* The request itself, when it goes on without moving money.               *)
LEMMA AssetOwn ==
    ASSUME AssetInv, NEW r \in Request, AssetStep(r) \/ (Abort(r) /\ AssetsStay), MovesNoMoney(r)
    PROVE  TradeChecked(r)' /\ AssetRowsKnown(r)'
<1> USE DEF AssetInv
<1>0. Framed /\ TradeChecked(r) /\ AssetRowsKnown(r) /\ AssetBodyFits(body[r])
  BY DEF AssetTyped
<1>1. CASE pc'[r] \in {"done", "failed"}
  BY <1>1 DEF TradeChecked, AssetRowsKnown, Ended
<1>2. CASE Finish(r)
  BY <1>0, <1>1, <1>2, FinishGoes
<1>3. CASE Abort(r)
  BY <1>0, <1>1, <1>3, AbortGoes
<1>4. ASSUME ~Ended(r), asset' = asset, body' = body
      PROVE  ~Ended(r)' => asset'.row[r] = Nothing /\ asset'.posted[r] = Nothing
  BY <1>0, <1>4 DEF AssetRowsKnown
<1>5. ~Ended(r) /\ body' = body
  BY <1>0, AssetMoves DEF Moves
<1>6. CASE LockAsset(r)
  <2>1. pc'[r] = "lock-pool" /\ asset' = asset /\ body[r].op \in {"buy", "sell"}
    BY <1>0, <1>6, TakeGoes DEF LockAsset, AssetsStay
  <2>2. body[r].op = "buy" => body[r].account # Nothing
    BY <1>6 DEF LockAsset
  <2> QED BY <1>4, <1>5, <2>1, <2>2 DEF TradeChecked, AssetRowsKnown
<1>7. CASE LockPool(r)
  <2>1. pc[r] = "lock-pool" /\ pc'[r] = "find-account" /\ asset' = asset /\ PoolKey \in lock'[r]
    BY <1>0, <1>7, TakeGoes DEF LockPool, AssetsStay
  <2> QED BY <1>0, <1>4, <1>5, <2>1 DEF TradeChecked, AssetRowsKnown
<1>8. CASE Affordable(r) /\ Await(r, "find-pool")
  <2>1. /\ pc[r] = "find-account" /\ body[r].op = "buy" /\ pc'[r] = "find-pool" /\ asset' = asset
        /\ lock' = lock
    BY <1>0, <1>8, AwaitGoes DEF Affordable, At, AssetsStay
  <2>2. body[r].account # Nothing /\ body[r].account \in Moneys /\ body[r].price \in Nat
    BY <1>0, <2>1 DEF TradeChecked, AssetBodyFits
  <2>3. asset.money[body[r].account] \in Int
    BY <2>2 DEF AssetTyped
  <2>4. ~Finish(r)
    BY <1>0, <2>1, FinishGoes
  <2>5. body[r].price <= asset.money[body[r].account]
    BY <1>8, <2>2, <2>3, <2>4 DEF Affordable
  <2> QED BY <1>0, <1>4, <1>5, <2>1, <2>5 DEF TradeChecked, AssetRowsKnown
<1>9. CASE Unsold(r) /\ Await(r, "find-pool")
  <2>1. /\ pc[r] = "find-account" /\ body[r].op = "sell" /\ pc'[r] = "find-pool" /\ asset' = asset
        /\ lock' = lock
    BY <1>0, <1>9, AwaitGoes DEF Unsold, At, AssetsStay
  <2>2. ~Finish(r)
    BY <1>0, <2>1, FinishGoes
  <2>3. asset.row[body[r].id] # Nothing /\ asset.row[body[r].id].sold = Nothing
    BY <1>9, <2>2 DEF Unsold
  <2> QED BY <1>0, <1>4, <1>5, <2>1, <2>3 DEF TradeChecked, AssetRowsKnown
<1>10. CASE FindPool(r)
  <2>1. /\ pc[r] = "find-pool" /\ pc'[r] = "post" /\ asset' = asset /\ lock' = lock
        /\ mem'[r] = asset.pool
    BY <1>0, <1>10, KeepGoes DEF FindPool, AssetsStay
  <2> QED BY <1>0, <1>4, <1>5, <2>1 DEF TradeChecked, AssetRowsKnown
<1>11. CASE FindAsset(r) /\ Await(r, "history")
  <2>1. body[r].op = "revalue" /\ pc'[r] = "history" /\ asset' = asset
    BY <1>0, <1>11, AwaitGoes DEF FindAsset, At, AssetsStay
  <2>2. ~Finish(r)
    BY <1>0, <2>1, FinishGoes
  <2>3. asset.row[body[r].id] # Nothing
    BY <1>11, <2>2 DEF FindAsset
  <2> QED BY <1>4, <1>5, <2>1, <2>3 DEF TradeChecked, AssetRowsKnown
<1>12. CASE LogValue(r)
  <2>1. pc[r] = "history" /\ pc'[r] = "value" /\ asset'.row = asset.row /\ asset'.posted = asset.posted
    BY <1>0, <1>12, AwaitGoes DEF LogValue, At, AssetTyped
  <2> QED BY <1>0, <1>5, <2>1 DEF TradeChecked, AssetRowsKnown
<1>13. CASE \E l \in {"write", "seed"} : Await(r, l) /\ AssetsStay
  BY <1>0, <1>4, <1>5, <1>13, AwaitGoes DEF TradeChecked, AssetRowsKnown, AssetsStay
<1>14. CASE CommitPurchase(r) \/ CommitSale(r) \/ Acquire(r) \/ SetValue(r) \/ WriteCategory(r)
            \/ SeedCategories(r)
  BY <1>2, <1>14 DEF CommitPurchase, CommitSale, Acquire, SetValue, WriteCategory, SeedCategories
<1>15. CASE FindCategory(r) \/ ListCategories(r)
  BY <1>2, <1>13, <1>15 DEF FindCategory, ListCategories
<1>16. CASE Affordable(r) \/ Unsold(r) \/ FindAsset(r)
  BY <1>2, <1>8, <1>9, <1>11, <1>16 DEF Affordable, Unsold, FindAsset
<1> QED BY <1>3, <1>6, <1>7, <1>10, <1>12, <1>14, <1>15, <1>16 DEF AssetStep

LEMMA CostsTyped ==
    ASSUME AssetTyped
    PROVE  /\ Ints(CostOf(asset.row), AssetIds) /\ Ints(BroughtBy(asset.row), AssetIds)
           /\ Ints(EnteredIn(asset.posted), DOMAIN AssetStart.posted)
           /\ DOMAIN asset.row = AssetIds /\ DOMAIN asset.posted = DOMAIN AssetStart.posted
           /\ DOMAIN asset.money = Moneys
<1>1. \A i \in AssetIds : asset.row[i] # Nothing =>
        asset.row[i].price \in Int /\ (asset.row[i].sold # Nothing => asset.row[i].sold \in Int)
  <2> TAKE i \in AssetIds
  <2>1. asset.row[i] # Nothing => asset.row[i] \in AssetRow
    BY DEF AssetTyped
  <2> QED BY <2>1 DEF AssetRow
<1> QED BY <1>1, AssetAssumption DEF AssetTyped, CostOf, BroughtBy, EnteredIn, Ints

LEMMA AssetQuietStep ==
    ASSUME AssetInv, NEW r \in Request, AssetStep(r) \/ (Abort(r) /\ AssetsStay), MovesNoMoney(r)
    PROVE  AssetInv'
<1> USE DEF AssetInv
<1>1. Framed' /\ Apart' /\ body' = body /\ ~Ended(r)
      /\ \A q \in Request \ {r} : pc'[q] = pc[q] /\ mem'[q] = mem[q] /\ lock'[q] = lock[q]
  BY AssetMoves, OthersStay DEF AssetTyped
<1>2. AssetTyped'
  BY <1>1 DEF AssetTyped, MovesNoMoney
<1>3. ASSUME NEW q \in Request PROVE TradeChecked(q)' /\ AssetRowsKnown(q)'
  <2>1. CASE q = r
    BY <2>1, AssetOwn
  <2>2. CASE q # r
    <3>1. pc'[q] = pc[q] /\ mem'[q] = mem[q] /\ lock'[q] = lock[q] /\ body'[q] = body[q]
      BY <1>1, <2>2
    <3>2. TradeChecked(q) /\ AssetRowsKnown(q) /\ AssetBodyFits(body[q]) /\ q \in AssetIds
      BY AssetAssumption DEF AssetTyped
    <3>3. body[q].op \in {"sell", "revalue"} => body[q].id \in AssetIds
      BY <3>2 DEF AssetBodyFits
    <3>4. asset'.money = asset.money /\ asset'.pool = asset.pool /\ asset'.posted = asset.posted
      BY DEF MovesNoMoney
    <3>5. asset.row[q] = Nothing => asset'.row[q] = Nothing
      BY <2>2, <3>2 DEF MovesNoMoney
    <3>6. \A i \in AssetIds : asset.row[i] # Nothing =>
            asset'.row[i] # Nothing /\ asset'.row[i].sold = asset.row[i].sold
      BY DEF MovesNoMoney
    <3>7. TradeChecked(q)'
      BY <3>1, <3>2, <3>3, <3>4, <3>6 DEF TradeChecked
    <3>8. AssetRowsKnown(q)'
      BY <3>1, <3>2, <3>3, <3>4, <3>5, <3>6 DEF AssetRowsKnown, Ended
    <3> QED BY <3>7, <3>8
  <2> QED BY <2>1, <2>2
<1>4. AssetsBalance'
  <2>1. DOMAIN asset.row = AssetIds /\ DOMAIN asset'.row = AssetIds
    BY DEF AssetTyped, MovesNoMoney
  <2>2. CostOf(asset'.row) = CostOf(asset.row) /\ BroughtBy(asset'.row) = BroughtBy(asset.row)
    BY <2>1 DEF MovesNoMoney, CostOf, BroughtBy
  <2>3. /\ asset'.money = asset.money /\ asset'.pool = asset.pool /\ asset'.pools = asset.pools
        /\ asset'.posted = asset.posted
    BY DEF MovesNoMoney
  <2> QED BY <2>1, <2>2, <2>3 DEF AssetsBalance, InBalance
<1> QED BY <1>1, <1>2, <1>3, <1>4

(* What a posting leaves: the pool and the account moved by one amount,    *)
(* which is the asset's cost, or what it has brought.                      *)
Posts(r, n, i) ==
    /\ DOMAIN asset' = DOMAIN asset
    /\ asset'.pool = (IF asset.pool = Nothing THEN 0 ELSE asset.pool) + n /\ asset'.pools = 1
    /\ asset'.money = [asset.money EXCEPT ![body[r].account] = @ - n]
    /\ asset'.posted = [asset.posted EXCEPT ![r] = n]
    /\ i \in AssetIds
    /\ \A j \in AssetIds \ {i} : asset'.row[j] = asset.row[j]
    /\ asset'.row \in [AssetIds -> AssetRow \cup {Nothing}]
    /\ asset'.row[i] # Nothing

LEMMA PostStep ==
    ASSUME AssetInv, NEW r \in Request, AssetStep(r), Finish(r), pc[r] = "post", NEW n \in Int, NEW i,
           Posts(r, n, i), n <= asset.money[body[r].account],
           i = r \/ asset.row[i] # Nothing,
           \/ /\ Written(CostOf(asset.row), CostOf(asset'.row), AssetIds, i, n)
              /\ BroughtBy(asset'.row) = BroughtBy(asset.row)
           \/ /\ Written(BroughtBy(asset.row), BroughtBy(asset'.row), AssetIds, i, -n)
              /\ CostOf(asset'.row) = CostOf(asset.row)
    PROVE  AssetInv'
<1> USE DEF AssetInv
<1>1. /\ Framed' /\ Apart' /\ body' = body /\ ~Ended(r)
      /\ \A q \in Request \ {r} : pc'[q] = pc[q] /\ mem'[q] = mem[q] /\ lock'[q] = lock[q]
  BY AssetMoves, OthersStay DEF AssetTyped
<1>2. /\ body[r].account \in Moneys /\ r \in AssetIds \cap DOMAIN AssetStart.posted
      /\ AssetBodyFits(body[r]) /\ TradeChecked(r) /\ AssetRowsKnown(r)
  BY AssetAssumption DEF AssetTyped, TradeChecked, AssetBodyFits
<1>3. asset'.pool \in Int /\ asset'.pool # Nothing
  BY AssetAssumption DEF Posts, AssetTyped
<1>4. /\ asset'.money \in [Moneys -> Int]
      /\ asset'.posted \in [DOMAIN AssetStart.posted -> Int \cup {Nothing}]
  BY <1>2 DEF Posts, AssetTyped
<1>5. AssetTyped'
  BY <1>1, <1>3, <1>4 DEF AssetTyped, Posts
<1>6. ASSUME NEW q \in Request PROVE TradeChecked(q)' /\ AssetRowsKnown(q)'
  <2>1. CASE q = r
    BY <2>1, FinishGoes DEF TradeChecked, AssetRowsKnown, Ended, AssetTyped
  <2>2. CASE q # r
    <3>1. /\ pc'[q] = pc[q] /\ mem'[q] = mem[q] /\ lock'[q] = lock[q] /\ body'[q] = body[q]
          /\ PoolKey \in lock[r]
      BY <1>1, <1>2, <2>2 DEF TradeChecked
    <3>2. pc[q] \notin {"find-account", "find-pool", "post"}
      BY <2>2, <3>1 DEF TradeChecked, Apart
    <3>3. TradeChecked(q) /\ AssetRowsKnown(q) /\ AssetBodyFits(body[q]) /\ q \in AssetIds
      BY AssetAssumption DEF AssetTyped
    <3>4. body[q].op = "revalue" => body[q].id \in AssetIds
      BY <3>3 DEF AssetBodyFits
    <3>5. \A j \in AssetIds : asset.row[j] # Nothing => asset'.row[j] # Nothing
      BY DEF Posts
    <3>6. ~Ended(q) => asset'.row[q] = Nothing /\ asset'.posted[q] = Nothing
      BY <2>2, <3>3 DEF AssetRowsKnown, Posts, AssetTyped
    <3>7. TradeChecked(q)'
      BY <3>1, <3>2, <3>3 DEF TradeChecked
    <3>8. AssetRowsKnown(q)'
      BY <3>1, <3>3, <3>4, <3>5, <3>6 DEF AssetRowsKnown, Ended
    <3> QED BY <3>7, <3>8
  <2> QED BY <2>1, <2>2
<1>7. AssetsBalance'
  <2> DEFINE A == SumOver(CostOf(asset.row), AssetIds)
             B == SumOver(BroughtBy(asset.row), AssetIds)
             C == SumOver(EnteredIn(asset.posted), DOMAIN AssetStart.posted)
  <2>1. /\ Ints(CostOf(asset.row), AssetIds) /\ Ints(BroughtBy(asset.row), AssetIds)
        /\ Ints(EnteredIn(asset.posted), DOMAIN AssetStart.posted)
        /\ DOMAIN asset.row = AssetIds /\ DOMAIN asset.posted = DOMAIN AssetStart.posted
        /\ DOMAIN asset.money = Moneys
    BY CostsTyped
  <2>2. /\ DOMAIN asset'.row = AssetIds /\ DOMAIN asset'.posted = DOMAIN AssetStart.posted
        /\ DOMAIN asset'.money = Moneys
    BY <1>5 DEF AssetTyped
  <2>3. A \in Int /\ B \in Int /\ C \in Int
    BY <2>1, SumInt
  <2>4. (IF asset.pool = Nothing THEN 0 ELSE asset.pool) = A - B /\ C = A - B
        /\ \A a \in Moneys : asset.money[a] >= 0
    BY <2>1 DEF AssetsBalance, InBalance
  <2>5. Written(EnteredIn(asset.posted), EnteredIn(asset'.posted), DOMAIN AssetStart.posted, r, n)
    <3>1. asset.posted[r] = Nothing
      BY <1>1, <1>2 DEF AssetRowsKnown
    <3>2. n # Nothing
      BY AssetAssumption
    <3> QED BY <1>2, <2>1, <2>2, <3>1, <3>2 DEF Posts, Written, EnteredIn, AssetTyped
  <2>6. SumOver(EnteredIn(asset'.posted), DOMAIN AssetStart.posted) = C + n
    BY <2>1, <2>5, SumWritten
  <2>7. SumOver(CostOf(asset'.row), AssetIds) - SumOver(BroughtBy(asset'.row), AssetIds) = A - B + n
    <3>1. CASE /\ Written(CostOf(asset.row), CostOf(asset'.row), AssetIds, i, n)
               /\ BroughtBy(asset'.row) = BroughtBy(asset.row)
      <4>1. SumOver(CostOf(asset'.row), AssetIds) = A + n
        BY <2>1, <3>1, SumWritten
      <4> HIDE DEF A
      <4> QED BY <2>3, <3>1, <4>1
    <3>2. CASE /\ Written(BroughtBy(asset.row), BroughtBy(asset'.row), AssetIds, i, -n)
               /\ CostOf(asset'.row) = CostOf(asset.row)
      <4>1. SumOver(BroughtBy(asset'.row), AssetIds) = B + -n
        BY <2>1, <3>2, SumWritten
      <4> HIDE DEF B
      <4> QED BY <2>3, <3>2, <4>1
    <3> QED BY <3>1, <3>2
  <2> HIDE DEF A, B, C
  <2>8. asset'.pool = A - B + n /\ asset'.pools = 1
    BY <2>3, <2>4 DEF Posts
  <2>9. ASSUME NEW a \in Moneys PROVE asset'.money[a] >= 0
    BY <1>2, <2>1, <2>4 DEF Posts, AssetTyped
  <2> QED BY <1>3, <2>2, <2>3, <2>4, <2>6, <2>7, <2>8, <2>9 DEF AssetsBalance, InBalance
<1> QED BY <1>1, <1>5, <1>6, <1>7

LEMMA PurchaseStep ==
    ASSUME AssetInv, NEW r \in Request, CommitPurchase(r)
    PROVE  AssetInv'
<1> USE DEF AssetInv
<1> DEFINE n == body[r].price
           a == body[r].account
<1> PICK new : new = [price |-> n, value |-> n, account |-> a, sold |-> Nothing]
  OBVIOUS
<1>1. /\ pc[r] = "post" /\ Finish(r) /\ AssetStep(r) /\ body[r].op = "buy"
      /\ TradeChecked(r) /\ AssetRowsKnown(r) /\ AssetBodyFits(body[r])
  BY DEF CommitPurchase, At, AssetTyped, AssetStep
<1>2. /\ n \in Nat /\ a \in Moneys /\ a # Nothing /\ r \in AssetIds
      /\ n <= asset.money[a] /\ mem[r] = asset.pool /\ asset.row[r] = Nothing
  BY <1>1, AssetAssumption DEF TradeChecked, AssetRowsKnown, AssetBodyFits, Ended
<1>3. new \in AssetRow /\ new.price = n /\ new.account = a /\ new.sold = Nothing
  BY <1>2 DEF AssetRow
<1>4. new # Nothing
  BY <1>3, AssetAssumption
<1>5. asset' = [Pooled(r, n) EXCEPT !.money[a] = @ - n, !.row[r] = new, !.history[r] = <<n>>,
                                    !.posted[r] = n]
  BY DEF CommitPurchase
<1> HIDE DEF n, a
<1>6. /\ DOMAIN asset' = DOMAIN asset
      /\ asset'.money = [asset.money EXCEPT ![a] = @ - n]
      /\ asset'.row = [asset.row EXCEPT ![r] = new]
      /\ asset'.posted = [asset.posted EXCEPT ![r] = n]
      /\ asset'.pool = (IF asset.pool = Nothing THEN n ELSE asset.pool + n)
      /\ asset'.pools = (IF asset.pool = Nothing THEN asset.pools + 1 ELSE asset.pools)
  <2>1. CASE mem[r] = Nothing
    BY <1>2, <1>5, <2>1 DEF Pooled, AssetTyped
  <2>2. CASE mem[r] # Nothing
    BY <1>2, <1>5, <2>2 DEF Pooled, AssetTyped
  <2> QED BY <2>1, <2>2
<1>7. Posts(r, n, r)
  <2>1. asset'.pool = (IF asset.pool = Nothing THEN 0 ELSE asset.pool) + n /\ asset'.pools = 1
    BY <1>2, <1>6 DEF AssetTyped
  <2> QED BY <1>2, <1>3, <1>4, <1>6, <2>1 DEF Posts, AssetTyped, a
<1>8. DOMAIN asset.row = AssetIds /\ DOMAIN asset'.row = AssetIds
  BY <1>6 DEF AssetTyped
<1>9. Ints(CostOf(asset.row), AssetIds)
  BY CostsTyped
<1>10. Written(CostOf(asset.row), CostOf(asset'.row), AssetIds, r, n)
  BY <1>2, <1>3, <1>4, <1>6, <1>8 DEF Written, CostOf
<1>11. BroughtBy(asset'.row) = BroughtBy(asset.row)
  BY <1>2, <1>3, <1>4, <1>6, <1>8 DEF BroughtBy
<1>12. n \in Int
  BY <1>2
<1> QED BY <1>1, <1>2, <1>7, <1>10, <1>11, <1>12, PostStep DEF a

LEMMA SaleStep ==
    ASSUME AssetInv, NEW r \in Request, CommitSale(r)
    PROVE  AssetInv'
<1> USE DEF AssetInv
<1> DEFINE n == body[r].price
           a == body[r].account
           i == body[r].id
<1> PICK new : new = [asset.row[i] EXCEPT !.sold = n]
  OBVIOUS
<1>1. /\ pc[r] = "post" /\ Finish(r) /\ AssetStep(r) /\ body[r].op = "sell"
      /\ TradeChecked(r) /\ AssetRowsKnown(r) /\ AssetBodyFits(body[r])
  BY DEF CommitSale, At, AssetTyped, AssetStep
<1>2. /\ n \in Nat /\ a \in Moneys /\ i \in AssetIds
      /\ mem[r] = asset.pool /\ asset.row[i] # Nothing /\ asset.row[i].sold = Nothing
  BY <1>1 DEF TradeChecked, AssetBodyFits
<1>3. asset.row[i] \in AssetRow
  BY <1>2 DEF AssetTyped
<1>4. /\ new \in AssetRow /\ new.price = asset.row[i].price /\ new.account = asset.row[i].account
      /\ new.sold = n
  BY <1>2, <1>3 DEF AssetRow
<1>5. new # Nothing /\ n # Nothing
  BY <1>2, <1>4, AssetAssumption
<1>6. asset' = [Pooled(r, -n) EXCEPT !.money[a] = @ + n, !.row[i].sold = n, !.posted[r] = -n]
  BY DEF CommitSale
<1> HIDE DEF n, a, i
<1>7. /\ DOMAIN asset' = DOMAIN asset
      /\ asset'.money = [asset.money EXCEPT ![a] = @ + n]
      /\ asset'.row = [asset.row EXCEPT ![i] = new]
      /\ asset'.posted = [asset.posted EXCEPT ![r] = -n]
      /\ asset'.pool = (IF asset.pool = Nothing THEN -n ELSE asset.pool + -n)
      /\ asset'.pools = (IF asset.pool = Nothing THEN asset.pools + 1 ELSE asset.pools)
  <2>1. CASE mem[r] = Nothing
    BY <1>2, <1>6, <2>1 DEF Pooled, AssetTyped
  <2>2. CASE mem[r] # Nothing
    BY <1>2, <1>6, <2>2 DEF Pooled, AssetTyped
  <2> QED BY <2>1, <2>2
<1>8. Posts(r, -n, i)
  <2>1. asset'.pool = (IF asset.pool = Nothing THEN 0 ELSE asset.pool) + -n /\ asset'.pools = 1
    BY <1>2, <1>7 DEF AssetTyped
  <2>2. asset'.money = [asset.money EXCEPT ![a] = @ - -n]
    BY <1>2, <1>7 DEF AssetTyped
  <2> QED BY <1>2, <1>4, <1>5, <1>7, <2>1, <2>2 DEF Posts, AssetTyped, a
<1>9. DOMAIN asset.row = AssetIds /\ DOMAIN asset'.row = AssetIds
  BY <1>7 DEF AssetTyped
<1>10. Written(BroughtBy(asset.row), BroughtBy(asset'.row), AssetIds, i, - -n)
  BY <1>2, <1>4, <1>5, <1>7, <1>9 DEF Written, BroughtBy
<1>11. CostOf(asset'.row) = CostOf(asset.row)
  BY <1>2, <1>4, <1>5, <1>7, <1>9 DEF CostOf
<1>12. -n \in Int /\ -n <= asset.money[a]
  BY <1>2, <1>9, CostsTyped DEF AssetsBalance, InBalance, AssetTyped
<1> QED BY <1>1, <1>2, <1>8, <1>10, <1>11, <1>12, PostStep DEF a

(* One hidden account is created, it holds what the assets that were paid  *)
(* for have cost less what those sold have brought, and no account is      *)
(* overspent, whatever is bought, sold and revalued at once.               *)
THEOREM AssetsStayInBalance == AssetSpec => []AssetsBalance
<1>1. AssetInv /\ [AssetNext]_<<requests, asset>> => AssetInv'
  <2> SUFFICES ASSUME AssetInv, [AssetNext]_<<requests, asset>> PROVE AssetInv'
    OBVIOUS
  <2>1. CASE UNCHANGED <<requests, asset>>
    <3>1. body' = body /\ pc' = pc /\ mem' = mem /\ lock' = lock /\ asset' = asset
      BY <2>1 DEF requests
    <3>2. AssetTyped' /\ Apart' /\ \A r \in Request : TradeChecked(r)' /\ AssetRowsKnown(r)'
      BY <3>1 DEF AssetInv, AssetTyped, Framed, Apart, TradeChecked, AssetRowsKnown, Ended
    <3>3. AssetsBalance'
      BY <3>1 DEF AssetInv, AssetsBalance
    <3> QED BY <3>2, <3>3 DEF AssetInv
  <2>2. ASSUME NEW r \in Request, AssetStep(r) \/ (Abort(r) /\ AssetsStay) PROVE AssetInv'
    BY <2>2, AssetChanges, AssetQuietStep, PurchaseStep, SaleStep
  <2> QED BY <2>1, <2>2 DEF AssetNext
<1>2. AssetInv => AssetsBalance
  BY DEF AssetInv
<1> QED BY <1>1, <1>2, AssetStarts, PTL DEF AssetSpec

(***************************************************************************)
(* Group expenses                                                          *)
(***************************************************************************)
GroupStays == UNCHANGED group

GroupNext == \E r \in Request : GroupStep(r) \/ (Abort(r) /\ GroupStays)

GroupSpec == RequestsInit /\ GroupInit /\ [][GroupNext]_<<requests, group>>

GroupTyped ==
    /\ Framed
    /\ \A r \in Request : GroupBodyFits(body[r])
    /\ DOMAIN group = {"member", "contribution", "expense", "category", "budget", "closed"}
    /\ DOMAIN group.expense = GroupIds /\ \A i \in GroupIds : Amounted(group.expense[i])
    /\ DOMAIN group.closed = DOMAIN GroupStart.closed
    /\ \A i \in GroupRows("closed") : group.closed[i].from \in Int /\ group.closed[i].to \in Int

(* Whoever closes a period holds the lock, and the period it has found     *)
(* open stays so.                                                          *)
CloseChecked(r) ==
    /\ pc[r] \in {"members", "expenses", "contributions", "insert"} =>
          body[r].op = "close" /\ "settlement" \in lock[r]
    /\ pc[r] \in {"expenses", "contributions", "insert"} => Overlapping(body[r]) = {}
    /\ pc[r] \in {"contributions", "insert"} => mem[r].total \in Int

GroupInv ==
    GroupTyped /\ Apart /\ (\A r \in Request : CloseChecked(r)) /\ SettlementsExact

LEMMA GroupStarts == RequestsInit /\ GroupInit => GroupInv
<1> SUFFICES ASSUME RequestsInit, GroupInit PROVE GroupInv
  OBVIOUS
<1>1. \A r \in Request : GroupBodyFits(body[r])
  <2>1. \A r \in Request : body[r].op # "none" => \E s \in Scenario : body[r] \in s.bodies
    BY RequestsStart DEF NoBody
  <2> QED BY <2>1, GroupBodies DEF GroupBodyFits
<1>2. GroupRows("closed") = {i \in DOMAIN GroupStart.closed : GroupStart.closed[i] # Nothing}
  BY DEF GroupInit, GroupRows, HasRow
<1>3. GroupTyped
  BY <1>1, <1>2, RequestsStart, GroupAssumption DEF GroupTyped, GroupInit, GroupIds
<1>4. \A r \in Request : CloseChecked(r)
  BY RequestsStart DEF CloseChecked
<1>5. SettlementsExact
  BY <1>2, GroupAssumption DEF SettlementsExact, SettlementsApart, SharesExact, GroupInit
<1> QED BY <1>3, <1>4, <1>5, RequestsStart DEF GroupInv

LEMMA GroupMoves ==
    ASSUME NEW r \in Request, GroupStep(r) \/ Abort(r)
    PROVE  Moves(r)
<1> USE FinishMoves, AwaitMoves, KeepMoves, TakeMoves
<1>1. CASE Join(r) \/ FindMember(r) \/ UpdateMember(r) \/ CountMember(r)
  BY <1>1 DEF Join, FindMember, UpdateMember, CountMember
<1>2. CASE DeleteMember(r) \/ ArchiveMember(r) \/ FindRow(r) \/ WriteRow(r)
  BY <1>2 DEF DeleteMember, ArchiveMember, FindRow, WriteRow
<1>3. CASE FindLabel(r) \/ WriteLabel(r) \/ SeedLook(r) \/ Seed(r)
  BY <1>3 DEF FindLabel, WriteLabel, SeedLook, Seed
<1>4. CASE CloseLock(r) \/ CloseMembers(r) \/ CloseExpenses(r)
  BY <1>4 DEF CloseLock, CloseMembers, CloseExpenses
<1>5. CASE CloseContributions(r) \/ CloseInsert(r)
  BY <1>5 DEF CloseContributions, CloseInsert
<1>6. CASE Abort(r)
  BY <1>6, AbortMoves DEF Abort
<1> QED BY <1>1, <1>2, <1>3, <1>4, <1>5, <1>6 DEF GroupStep

(* A step that closes nothing: what expenses it leaves have an amount.     *)
ClosesNothing ==
    /\ DOMAIN group' = DOMAIN group
    /\ group'.closed = group.closed
    /\ DOMAIN group'.expense = GroupIds /\ \A i \in GroupIds : Amounted(group'.expense[i])

LEMMA GroupStayQuiet == ASSUME GroupTyped, group' = group PROVE ClosesNothing
BY DEF ClosesNothing, GroupTyped

LEMMA RowQuiet ==
    ASSUME GroupTyped, NEW r \in Request, WriteRow(r)
    PROVE  ClosesNothing
<1> USE DEF GroupTyped
<1> DEFINE b == body[r]
           id == IF b.id = Nothing THEN r ELSE b.id
           row == CASE b.row = Nothing -> Nothing
                    [] b.row # Nothing /\ b.id = Nothing -> b.row
                    [] OTHER -> Merged(group[b.table][b.id], b.row)
<1>1. group' = group \/ (RowFits(b) /\ group' = [group EXCEPT ![b.table][id] = row])
  BY DEF WriteRow
<1>2. b.op = "row" /\ GroupBodyFits(b)
  BY DEF WriteRow, At
<1>3. b.table \in {"contribution", "expense"}
  BY <1>2 DEF GroupBodyFits
<1>4. ASSUME RowFits(b), b.table = "expense", id \in GroupIds PROVE Amounted(row)
  <2>1. CASE b.row = Nothing
    BY <2>1 DEF Amounted
  <2>2. CASE b.row # Nothing /\ b.id = Nothing
    BY <1>2, <2>2 DEF Amounted, GroupBodyFits
  <2>3. CASE b.row # Nothing /\ b.id # Nothing
    <3> PICK old : old = group["expense"][b.id]
      OBVIOUS
    <3>1. old # Nothing /\ Amounted(old)
      BY <1>4, <2>3 DEF RowFits, HasRow
    <3>2. "amount" \in DOMAIN old /\ old.amount \in Int
      BY <3>1 DEF Amounted
    <3>3. "amount" \in DOMAIN b.row => b.row.amount \in Int
      BY <1>2, <2>3 DEF GroupBodyFits
    <3>4. "amount" \in DOMAIN Merged(old, b.row) /\ Merged(old, b.row).amount \in Int
      BY <3>2, <3>3 DEF Merged
    <3>5. row = Merged(old, b.row)
      BY <1>4, <2>3
    <3> QED BY <3>4, <3>5 DEF Amounted
  <2> QED BY <2>1, <2>2, <2>3
<1> HIDE DEF row, id
<1>5. CASE RowFits(b) /\ group' = [group EXCEPT ![b.table][id] = row]
  <2>1. CASE b.table = "expense"
    <3>1. /\ DOMAIN group' = DOMAIN group /\ group'.closed = group.closed
          /\ group'.expense = [group.expense EXCEPT ![id] = row]
      BY <1>5, <2>1
    <3> QED BY <1>4, <1>5, <2>1, <3>1 DEF ClosesNothing
  <2>2. CASE b.table = "contribution"
    BY <1>5, <2>2 DEF ClosesNothing
  <2> QED BY <1>3, <2>1, <2>2
<1> QED BY <1>1, <1>5, GroupStayQuiet

LEMMA GroupChanges ==
    ASSUME GroupTyped, NEW r \in Request, GroupStep(r) \/ (Abort(r) /\ GroupStays)
    PROVE  ClosesNothing \/ CloseInsert(r)
<1> USE DEF GroupTyped
<1>0. CASE group' = group
  BY <1>0, GroupStayQuiet
<1>1. ASSUME NEW f, NEW v, f \in {"member", "category"}, group' = [group EXCEPT ![f] = v]
      PROVE  ClosesNothing
  BY <1>1 DEF ClosesNothing
<1>2. CASE Join(r)
  <2>1. PICK v : group' = [group EXCEPT !.member = v]
    BY <1>2 DEF Join
  <2> QED BY <1>1, <2>1
<1>3. CASE UpdateMember(r)
  <2>1. PICK v : group' = group \/ group' = [group EXCEPT !.member = v]
    BY <1>3 DEF UpdateMember
  <2> QED BY <1>0, <1>1, <2>1
<1>4. CASE ArchiveMember(r)
  <2>1. PICK v : group' = group \/ group' = [group EXCEPT !.member = v]
    BY <1>4 DEF ArchiveMember
  <2> QED BY <1>0, <1>1, <2>1
<1>5. CASE Seed(r)
  <2>1. PICK v : group' = group \/ group' = [group EXCEPT !.category = v]
    BY <1>5 DEF Seed
  <2> QED BY <1>0, <1>1, <2>1
<1>6. CASE WriteLabel(r)
  <2>1. body[r].table \in {"category", "budget"}
    BY <1>6 DEF WriteLabel, At, GroupBodyFits
  <2>2. PICK id, v : group' = group \/ group' = [group EXCEPT ![body[r].table][id] = v]
    BY <1>6 DEF WriteLabel
  <2> QED BY <1>0, <2>1, <2>2 DEF ClosesNothing
<1>7. CASE DeleteMember(r)
  <2> DEFINE m == body[r].member
             left == [i \in GroupIds |-> IF i \in MembersRows("expense", m)
                                         THEN [group.expense[i] EXCEPT !.member = Nothing]
                                         ELSE group.expense[i]]
  <2>1. CASE group' = [group EXCEPT !.member[m] = "DELETED",
                                    !.expense = [i \in DOMAIN @ |->
                                        IF i \in MembersRows("expense", m)
                                        THEN [@[i] EXCEPT !.member = Nothing] ELSE @[i]]]
    <3>1. DOMAIN group' = DOMAIN group /\ group'.closed = group.closed /\ group'.expense = left
      BY <2>1
    <3>2. ASSUME NEW i \in GroupIds PROVE Amounted(left[i])
      <4>1. Amounted(group.expense[i])
        OBVIOUS
      <4>2. CASE i \in MembersRows("expense", m)
        <5>1. group.expense[i] # Nothing
          BY <4>2 DEF MembersRows, GroupRows, HasRow
        <5>2. left[i] = [group.expense[i] EXCEPT !.member = Nothing]
          BY <4>2
        <5> QED BY <4>1, <5>1, <5>2 DEF Amounted
      <4>3. CASE i \notin MembersRows("expense", m)
        BY <4>1, <4>3
      <4> QED BY <4>2, <4>3
    <3> QED BY <3>1, <3>2 DEF ClosesNothing
  <2> QED BY <1>0, <1>7, <2>1 DEF DeleteMember
<1>8. CASE WriteRow(r)
  BY <1>8, RowQuiet
<1>9. CASE Abort(r) /\ GroupStays
  BY <1>0, <1>9 DEF GroupStays
<1> QED BY <1>0, <1>2, <1>3, <1>4, <1>5, <1>6, <1>7, <1>8, <1>9
       DEF GroupStep, FindMember, CountMember, FindRow, FindLabel, SeedLook, CloseLock,
           CloseMembers, CloseExpenses, CloseContributions

(* What is spent is an amount.                                             *)
LEMMA SpentTyped ==
    ASSUME GroupTyped, NEW S \in SUBSET GroupRows("expense")
    PROVE  SumOver([i \in S |-> group.expense[i].amount], S) \in Int
<1> DEFINE f == [i \in S |-> group.expense[i].amount]
<1>1. S \subseteq GroupIds /\ \A i \in S : group.expense[i] # Nothing
  BY DEF GroupRows, HasRow, GroupTyped
<1>2. \A i \in S : f[i] \in Int
  BY <1>1 DEF GroupTyped, Amounted
<1>3. IsFiniteSet(S)
  BY <1>1, GroupAssumption, FS_Subset
<1> HIDE DEF f
<1>4. SumOver(f, S) \in Int
  BY <1>2, <1>3, SumInt DEF Ints
<1> QED BY <1>4 DEF f

(* The request itself, when it goes on.                                    *)
LEMMA CloseOwn ==
    ASSUME GroupInv, NEW r \in Request, GroupStep(r) \/ (Abort(r) /\ GroupStays)
    PROVE  CloseChecked(r)'
<1> USE DEF GroupInv
<1>0. Framed /\ CloseChecked(r) /\ Moves(r)
  BY GroupMoves DEF GroupTyped
<1>1. CASE pc'[r] \notin {"members", "expenses", "contributions", "insert"}
  BY <1>1 DEF CloseChecked
<1>2. CASE Finish(r)
  BY <1>0, <1>1, <1>2, FinishGoes
<1>3. CASE Abort(r)
  BY <1>0, <1>1, <1>3, AbortGoes
<1>4. ASSUME NEW l, l \notin {"members", "expenses", "contributions", "insert"}, Await(r, l)
      PROVE  CloseChecked(r)'
  BY <1>0, <1>1, <1>4, AwaitGoes
<1>5. CASE CloseLock(r) /\ Take(r, "settlement", "members")
  <2>1. pc'[r] = "members" /\ body' = body /\ "settlement" \in lock'[r] /\ body[r].op = "close"
    BY <1>0, <1>5, TakeGoes DEF CloseLock, At
  <2> QED BY <2>1 DEF CloseChecked
<1>6. CASE CloseMembers(r)
  <2>1. CASE Overlapping(body[r]) = {} /\ Keep(r, "expenses", [members |-> group.member])
    <3>1. /\ pc[r] = "members" /\ pc'[r] = "expenses" /\ body' = body /\ lock' = lock
          /\ group' = group
      BY <1>0, <1>6, <2>1, KeepGoes DEF CloseMembers, At
    <3>2. Overlapping(body[r])' = Overlapping(body[r])
      BY <3>1 DEF Overlapping, GroupRows, HasRow
    <3> QED BY <1>0, <2>1, <3>1, <3>2 DEF CloseChecked
  <2> QED BY <1>2, <1>6, <2>1 DEF CloseMembers
<1>7. CASE CloseExpenses(r)
  <2> DEFINE spent == {i \in GroupRows("expense") : Within(group.expense[i], body[r])}
  <2> PICK seen : seen = [members |-> mem[r].members,
                          total |-> SumOver([i \in spent |-> group.expense[i].amount], spent)]
    OBVIOUS
  <2>1. seen.total \in Int
    BY SpentTyped
  <2>2. Keep(r, "contributions", seen)
    BY <1>7 DEF CloseExpenses
  <2>3. /\ pc[r] = "expenses" /\ pc'[r] = "contributions" /\ body' = body /\ lock' = lock
        /\ group' = group /\ mem'[r] = seen
    BY <1>0, <1>7, <2>2, KeepGoes DEF CloseExpenses, At
  <2>4. Overlapping(body[r])' = Overlapping(body[r])
    BY <2>3 DEF Overlapping, GroupRows, HasRow
  <2> QED BY <1>0, <2>1, <2>3, <2>4 DEF CloseChecked
<1>8. CASE CloseContributions(r)
  <2>1. PICK given : Keep(r, "insert", [members |-> mem[r].members, total |-> mem[r].total,
                                        given |-> given])
    BY <1>8 DEF CloseContributions
  <2> PICK seen : seen = [members |-> mem[r].members, total |-> mem[r].total, given |-> given]
    OBVIOUS
  <2>2. /\ pc[r] = "contributions" /\ pc'[r] = "insert" /\ body' = body /\ lock' = lock
        /\ group' = group /\ mem'[r] = seen
    BY <1>0, <1>8, <2>1, KeepGoes DEF CloseContributions, At
  <2>3. Overlapping(body[r])' = Overlapping(body[r])
    BY <2>2 DEF Overlapping, GroupRows, HasRow
  <2>4. seen.total = mem[r].total
    OBVIOUS
  <2> QED BY <1>0, <2>2, <2>3, <2>4 DEF CloseChecked
<1>9. CASE Join(r) \/ UpdateMember(r) \/ DeleteMember(r) \/ ArchiveMember(r) \/ WriteRow(r)
           \/ WriteLabel(r) \/ Seed(r) \/ CloseInsert(r)
  BY <1>2, <1>9 DEF Join, UpdateMember, DeleteMember, ArchiveMember, WriteRow, WriteLabel, Seed,
                    CloseInsert
<1>10. CASE FindMember(r) \/ CountMember(r) \/ FindRow(r) \/ FindLabel(r) \/ SeedLook(r)
  BY <1>2, <1>4, <1>10 DEF FindMember, CountMember, FindRow, FindLabel, SeedLook
<1>11. CASE CloseLock(r)
  BY <1>2, <1>5, <1>11 DEF CloseLock
<1> QED BY <1>3, <1>6, <1>7, <1>8, <1>9, <1>10, <1>11 DEF GroupStep

LEMMA GroupQuietStep ==
    ASSUME GroupInv, NEW r \in Request, GroupStep(r) \/ (Abort(r) /\ GroupStays), ClosesNothing
    PROVE  GroupInv'
<1> USE DEF GroupInv
<1>1. Framed' /\ Apart' /\ body' = body
      /\ \A q \in Request \ {r} : pc'[q] = pc[q] /\ mem'[q] = mem[q] /\ lock'[q] = lock[q]
  BY GroupMoves, OthersStay DEF GroupTyped
<1>2. group'.closed = group.closed /\ GroupRows("closed")' = GroupRows("closed")
  BY DEF ClosesNothing, GroupRows, HasRow
<1>3. GroupTyped'
  BY <1>1, <1>2 DEF GroupTyped, ClosesNothing
<1>4. ASSUME NEW q \in Request PROVE CloseChecked(q)'
  <2>1. CASE q = r
    BY <2>1, CloseOwn
  <2>2. CASE q # r
    <3>1. Overlapping(body[q])' = Overlapping(body[q])
      BY <1>1, <1>2 DEF Overlapping
    <3> QED BY <1>1, <2>2, <3>1 DEF CloseChecked
  <2> QED BY <2>1, <2>2
<1>5. SettlementsExact'
  BY <1>2 DEF SettlementsExact, SettlementsApart, SharesExact
<1> QED BY <1>1, <1>3, <1>4, <1>5

(* The shares of a settlement add up to what was spent: everyone's share   *)
(* is the same but for the last one's, which takes the rest.               *)
LEMMA SharesAddUp ==
    ASSUME NEW members, NEW total \in Int, NEW given,
           \E f \in Flatmate : members[f] = "ACTIVE"
    PROVE  Settles(ComputeSettlement(members, total, given))
<1> DEFINE active == {m \in Flatmate : members[m] = "ACTIVE"}
           former == {m \in Flatmate : members[m] = "ARCHIVED" /\ \E c \in given : c[2].member = m}
           n == Cardinality(active)
           base == total \div n
           s == ComputeSettlement(members, total, given)
           share == SharesOf(s.rows)
           last == Max(active)
           same == [m \in active |-> base]
           row(m) == [contributed |-> Deposited(given, m) - Returned(given, m),
                      share |-> IF m \in active THEN Share(total, active, m) ELSE 0]
<1>1. IsFiniteSet(active) /\ IsFiniteSet(former) /\ active # {} /\ active \subseteq Int
      /\ active \cap former = {} /\ IsFiniteSet(active \cup former)
  <2>1. IsFiniteSet(active) /\ IsFiniteSet(former) /\ IsFiniteSet(active \cup former)
    BY GroupAssumption, FS_Subset
  <2>2. Flatmate \subseteq Int
    BY GroupAssumption
  <2>3. active # {} /\ active \cap former = {}
    OBVIOUS
  <2> QED BY <2>1, <2>2, <2>3
<1>2. s.total = total /\ s.rows = [m \in active \cup former |-> row(m)]
  BY DEF ComputeSettlement
<1>3. DOMAIN s.rows = active \cup former
  BY <1>2
<1>4. \A m \in active \cup former :
        share[m] = IF m \in active THEN Share(total, active, m) ELSE 0
  BY <1>2 DEF SharesOf
<1>5. n \in Nat /\ n > 0
  <2> HIDE DEF active
  <2>1. n \in Nat /\ n # 0
    BY <1>1, FS_CardinalityType, FS_EmptySet
  <2> QED BY <2>1
<1>6. base \in Int
  <2> HIDE DEF n
  <2> QED BY <1>5
<1>7. last \in active
  <2> HIDE DEF active
  <2> QED BY <1>1, MaxOf
<1>8. /\ \A m \in active \ {last} : share[m] = base
      /\ share[last] = base + (total - base * n)
  BY <1>4, <1>7 DEF Share
<1>9. \A m \in former : share[m] = 0
  BY <1>1, <1>4
<1> HIDE DEF row, s, share, active, former, last, base, n
<1>10. base * n \in Int
  BY <1>5, <1>6
<1>11. SumOver(same, active) = base * Cardinality(active) /\ Ints(same, active)
  <2>1. \A m \in active : same[m] = base
    OBVIOUS
  <2> HIDE DEF same
  <2> QED BY <1>1, <1>6, <2>1, SumOfSame DEF Ints
<1>12. Written(same, share, active, last, total - base * n)
  BY <1>6, <1>7, <1>8, <1>10 DEF Written
<1> HIDE DEF same
<1>13. SumOver(share, active) = SumOver(same, active) + (total - base * n) /\ Ints(share, active)
  BY <1>11, <1>12, SumWritten
<1>14. SumOver(share, active) = total
  BY <1>10, <1>11, <1>13 DEF n
<1>15. SumOver(share, former) = 0
  BY <1>1, <1>9, SumOfNothing
<1>16. Ints(share, active \cup former)
  BY <1>1, <1>9, <1>13 DEF Ints
<1>17. SumOver(share, active \cup former) = SumOver(share, active) + SumOver(share, former)
  BY <1>1, <1>16, SumOfUnion
<1>18. SumOver(share, active \cup former) = total
  BY <1>14, <1>15, <1>17
<1> QED BY <1>2, <1>3, <1>18 DEF Settles, s, share

LEMMA InsertStep ==
    ASSUME GroupInv, NEW r \in Request, CloseInsert(r)
    PROVE  GroupInv'
<1> USE DEF GroupInv
<1> DEFINE m == mem[r]
           result == ComputeSettlement(m.members, m.total, m.given)
           new == [from |-> body[r].from, to |-> body[r].to,
                   total |-> result.total, rows |-> result.rows]
<1>0. GroupStep(r) /\ Finish(r) /\ pc[r] = "insert" /\ CloseChecked(r) /\ r \in DOMAIN group.closed
      /\ GroupBodyFits(body[r]) /\ body[r].op = "close"
  BY GroupAssumption DEF CloseInsert, GroupStep, At, GroupTyped
<1>1. Framed' /\ Apart' /\ body' = body
      /\ \A q \in Request \ {r} : pc'[q] = pc[q] /\ mem'[q] = mem[q] /\ lock'[q] = lock[q]
  BY <1>0, GroupMoves, OthersStay DEF GroupTyped
<1>2. CASE group' = group
  BY <1>0, <1>2, GroupStayQuiet, GroupQuietStep
<1>3. CASE group' = [group EXCEPT !.closed[r] = new] /\ \E f \in Flatmate : m.members[f] = "ACTIVE"
  <2>1. Settles(result)
    BY <1>0, <1>3, SharesAddUp DEF CloseChecked
  <2>2. new.from = body[r].from /\ new.to = body[r].to /\ Settles(new)
    BY <2>1 DEF Settles
  <2> HIDE DEF new, result
  <2>3. group'.closed = [group.closed EXCEPT ![r] = new] /\ group'.expense = group.expense
        /\ DOMAIN group' = DOMAIN group
    BY <1>3 DEF GroupTyped
  <2>4. \A i \in GroupRows("closed")' :
          i # r => i \in GroupRows("closed") /\ group'.closed[i] = group.closed[i]
    BY <2>3 DEF GroupRows, HasRow
  <2>5. group'.closed[r] = new
    BY <1>0, <2>3
  <2>6. body[r].from \in Int /\ body[r].to \in Int
    BY <1>0 DEF GroupBodyFits
  <2>7. GroupTyped'
    <3>1. \A i \in GroupRows("closed")' : group'.closed[i].from \in Int /\ group'.closed[i].to \in Int
      BY <2>2, <2>4, <2>5, <2>6 DEF GroupTyped
    <3> QED BY <1>1, <2>3, <3>1 DEF GroupTyped
  <2>8. ASSUME NEW q \in Request PROVE CloseChecked(q)'
    <3>1. CASE q = r
      BY <1>0, <3>1, CloseOwn
    <3>2. CASE q # r
      <4>1. pc[q] \notin {"members", "expenses", "contributions", "insert"}
        BY <1>0, <3>2 DEF CloseChecked, Apart
      <4> QED BY <1>1, <3>2, <4>1 DEF CloseChecked
    <3> QED BY <3>1, <3>2
  <2>9. ASSUME NEW i \in GroupRows("closed")', i # r
        PROVE  PeriodsApart(group'.closed[i], new) /\ PeriodsApart(new, group'.closed[i])
    <3>1. i \in GroupRows("closed") /\ group'.closed[i] = group.closed[i]
      BY <2>4, <2>9
    <3>2. i \notin Overlapping(body[r])
      BY <1>0 DEF CloseChecked
    <3>3. ~(group.closed[i].from <= body[r].to /\ group.closed[i].to >= body[r].from)
      BY <3>1, <3>2 DEF Overlapping
    <3>4. group.closed[i].from \in Int /\ group.closed[i].to \in Int
      BY <3>1 DEF GroupTyped
    <3> QED BY <2>2, <2>6, <3>1, <3>3, <3>4 DEF PeriodsApart
  <2>10. SettlementsApart'
    <3> SUFFICES ASSUME NEW i \in GroupRows("closed")', NEW j \in GroupRows("closed")', i # j
                 PROVE  PeriodsApart(group'.closed[i], group'.closed[j])
      BY DEF SettlementsApart
    <3>1. CASE i = r
      BY <2>5, <2>9, <3>1
    <3>2. CASE j = r
      BY <2>5, <2>9, <3>2
    <3>3. CASE i # r /\ j # r
      BY <2>4, <3>3 DEF SettlementsExact, SettlementsApart
    <3> QED BY <3>1, <3>2, <3>3
  <2>11. SharesExact'
    BY <2>2, <2>4, <2>5 DEF SettlementsExact, SharesExact
  <2> QED BY <1>1, <2>7, <2>8, <2>10, <2>11 DEF SettlementsExact
<1> QED BY <1>2, <1>3 DEF CloseInsert

(* "A period can be closed once", and "shares always sum EXACTLY to        *)
(* totalExpense", whoever joins, leaves, spends and closes at once.        *)
THEOREM SettlementsStayExact == GroupSpec => []SettlementsExact
<1>1. GroupInv /\ [GroupNext]_<<requests, group>> => GroupInv'
  <2> SUFFICES ASSUME GroupInv, [GroupNext]_<<requests, group>> PROVE GroupInv'
    OBVIOUS
  <2>1. CASE UNCHANGED <<requests, group>>
    <3>1. body' = body /\ pc' = pc /\ mem' = mem /\ lock' = lock /\ group' = group
      BY <2>1 DEF requests
    <3>2. GroupTyped' /\ Apart' /\ \A r \in Request : CloseChecked(r)'
      BY <3>1 DEF GroupInv, GroupTyped, Framed, Apart, CloseChecked, Overlapping, GroupRows, HasRow
    <3>3. SettlementsExact'
      BY <3>1 DEF GroupInv, SettlementsExact, SettlementsApart, SharesExact, GroupRows, HasRow
    <3> QED BY <3>2, <3>3 DEF GroupInv
  <2>2. ASSUME NEW r \in Request, GroupStep(r) \/ (Abort(r) /\ GroupStays) PROVE GroupInv'
    BY <2>2, GroupChanges, GroupQuietStep, InsertStep DEF GroupInv
  <2> QED BY <2>1, <2>2 DEF GroupNext
<1>2. GroupInv => SettlementsExact
  BY DEF GroupInv
<1> QED BY <1>1, <1>2, GroupStarts, PTL DEF GroupSpec

(***************************************************************************)
(* Habits and their sheets                                                 *)
(***************************************************************************)
HabitNext == \E r \in Request : HabitStep(r) \/ (Abort(r) /\ HabitStays)

HabitSpec == RequestsInit /\ HabitInit /\ [][HabitNext]_<<requests, habit>>

HabitTyped ==
    /\ Framed
    /\ \A r \in Request : HabitBodyFits(body[r])
    /\ DOMAIN habit = {"sheet", "tick", "added", "since", "cleared", "lost", "row", "log"}
    /\ habit.sheet \in [DOMAIN HabitStart.sheet -> SheetRow \cup {Nothing}]
    /\ habit.added \in SUBSET ((DOMAIN HabitStart.sheet) \X HabitName)
    /\ IsFiniteSet(DOMAIN habit.log) /\ \A e \in DOMAIN habit.log : e[2] \in Int

(* A sheet that is not there yet has neither ticks nor columns.            *)
Unborn(r) ==
    ~Ended(r) =>
        /\ habit.sheet[r] = Nothing
        /\ \A t \in habit.tick : t[1] # r
        /\ \A e \in habit.added : e[1] # r

OnADay(d, sheet) ==
    d <= SheetDays(sheet) /\ (sheet.kind = "Namaz" => d <= LastTickableDay(sheet.month))

(* The cell a request is about to tick is of a day that has come, and the  *)
(* sheet, as long as it is there, is the one it has read.                  *)
ToTick(r) ==
    At(r, "tick", "sheet") =>
        /\ body[r].id \in Request => Ended(body[r].id)
        /\ body[r].checked /\ habit.sheet[body[r].id] # Nothing =>
              OnADay(body[r].day, habit.sheet[body[r].id])

(* A request is about to write columns it has found fit to.                *)
ToSwap(r) ==
    pc[r] = "sheet" /\ body[r].op \in {"add-column", "drop-column"} => Planned(body[r], mem[r].items)

Columned ==
    /\ \A s \in Sheets :
         IsInjective(habit.sheet[s].items) /\ Len(habit.sheet[s].items) <= MaxItems
    /\ \A e \in habit.added : e[1] \in Sheets => e[2] \in Columns(e[1])
    /\ habit.cleared \cup habit.lost \subseteq habit.since

(* What a removal is about to take in sight has landed since it read the   *)
(* sheet: of a column that was added since, or after it had found no tick. *)
Overlooks(r) ==
    body[r].op = "drop-sheet" =>
        \A t \in habit.tick : t[1] = body[r].id =>
            /\ pc[r] = "sheet" /\ t[3] \in Columns(t[1]) /\ t[3] \notin Range(mem[r].items)
                  => <<r, t>> \in habit.since
            /\ pc[r] = "delete" => <<r, t>> \in habit.since

(* A tick that a step adds, or brings in sight, lands on its removals.     *)
Noticed ==
    /\ habit.since \subseteq habit'.since
    /\ \A t \in habit'.tick :
         \/ t \in habit.tick /\ (t[3] \in Columns(t[1])' => t[3] \in Columns(t[1]))
         \/ \A q \in Removals(t[1]) : <<q, t>> \in habit'.since

Ticked == \A t \in habit.tick : t[1] \in Sheets /\ OnADay(t[2], habit.sheet[t[1]])

HabitInv ==
    /\ HabitTyped /\ Columned /\ Ticked
    /\ \A r \in Request : Unborn(r) /\ ToTick(r) /\ ToSwap(r) /\ Overlooks(r)

LEMMA HabitStarts == RequestsInit /\ HabitInit => HabitInv
<1> SUFFICES ASSUME RequestsInit, HabitInit PROVE HabitInv
  OBVIOUS
<1>1. habit = HabitStart /\ Sheets = {s \in DOMAIN HabitStart.sheet : HabitStart.sheet[s] # Nothing}
  BY DEF HabitInit, Sheets
<1>2. \A r \in Request : HabitBodyFits(body[r])
  BY RequestsStart, HabitBodies DEF HabitBodyFits, NoBody, SheetOps
<1>3. HabitTyped
  BY <1>1, <1>2, RequestsStart, HabitAssumption DEF HabitTyped
<1>4. Columned
  <2>1. habit.cleared = {} /\ habit.lost = {} /\ habit.added = {}
    BY <1>1, HabitAssumption
  <2>2. \A s \in Sheets :
           IsInjective(habit.sheet[s].items) /\ Len(habit.sheet[s].items) <= MaxItems
    BY <1>1, HabitAssumption
  <2> QED BY <2>1, <2>2 DEF Columned
<1>5. ASSUME NEW t \in habit.tick PROVE t[1] \in Sheets /\ OnADay(t[2], habit.sheet[t[1]])
  <2> DEFINE sheet == HabitStart.sheet[t[1]]
  <2>1. /\ t[1] \in DOMAIN HabitStart.sheet /\ sheet # Nothing
        /\ t[2] <= (IF sheet.days # Nothing THEN sheet.days ELSE MonthDays)
        /\ sheet.kind = "Namaz" =>
              \/ sheet.month < HabitMonth /\ t[2] <= MonthDays
              \/ sheet.month = HabitMonth /\ t[2] <= HabitToday
    BY <1>1, <1>5, HabitAssumption
  <2> HIDE DEF sheet
  <2>2. OnADay(t[2], sheet)
    BY <2>1, HabitAssumption DEF OnADay, SheetDays, LastTickableDay, ElapsedDays
  <2> QED BY <1>1, <2>1, <2>2 DEF sheet
<1>6. Ticked
  BY <1>5 DEF Ticked
<1>7. \A r \in Request : Unborn(r) /\ ToTick(r) /\ ToSwap(r) /\ Overlooks(r)
  <2>1. ASSUME NEW r \in Request PROVE Unborn(r)
    <3>1. habit.sheet[r] = Nothing /\ habit.added = {}
      BY <1>1, HabitAssumption
    <3>2. \A t \in habit.tick : t[1] # r
      BY <1>5, <3>1 DEF Sheets
    <3> QED BY <3>1, <3>2 DEF Unborn
  <2>2. \A r \in Request : ToTick(r) /\ ToSwap(r) /\ Overlooks(r)
    BY RequestsStart DEF ToTick, ToSwap, Overlooks, At
  <2> QED BY <2>1, <2>2
<1> QED BY <1>3, <1>4, <1>6, <1>7 DEF HabitInv

LEMMA HabitMoves ==
    ASSUME NEW r \in Request, HabitStep(r) \/ Abort(r)
    PROVE  Moves(r) /\ ~Ended(r)
<1> USE FinishMoves, AwaitMoves, KeepMoves, TakeMoves DEF At, Ended, HabitOps, SheetOps
<1>1. CASE FindSheetLike(r) \/ LockChallenges(r) \/ CountChallenges(r) \/ InsertTracker(r)
  BY <1>1 DEF FindSheetLike, LockChallenges, CountChallenges, InsertTracker
<1>2. CASE RequireTracker(r) \/ SetCheck(r)
  BY <1>2 DEF RequireTracker, SetCheck
<1>3. CASE SwapItems(r)
  BY <1>3 DEF SwapItems
<1>4. CASE ReadAgain(r) \/ ClearOrphans(r) \/ FindUnticked(r) \/ DeleteSheet(r)
  BY <1>4 DEF ReadAgain, ClearOrphans, FindUnticked, DeleteSheet
<1>5. CASE CreateHabit(r) \/ RequireHabit(r) \/ UpdateHabit(r) \/ CountLogs(r)
  BY <1>5 DEF CreateHabit, RequireHabit, UpdateHabit, CountLogs
<1>6. CASE DeleteHabit(r) \/ ArchiveHabit(r) \/ CheckIn(r) \/ RemoveCheckIn(r)
  BY <1>6 DEF DeleteHabit, ArchiveHabit, CheckIn, RemoveCheckIn
<1>7. CASE Abort(r)
  BY <1>7, AbortMoves DEF Abort
<1> QED BY <1>1, <1>2, <1>3, <1>4, <1>5, <1>6, <1>7 DEF HabitStep

LEMMA HabitFrame ==
    ASSUME HabitTyped, NEW r \in Request, HabitStep(r) \/ (Abort(r) /\ HabitStays)
    PROVE  /\ Framed' /\ body' = body /\ ~Ended(r)
           /\ \A q \in Request \ {r} : pc'[q] = pc[q] /\ mem'[q] = mem[q]
           /\ \A q \in Request : ~Ended(q)' => ~Ended(q)
<1>1. Framed' /\ body' = body /\ ~Ended(r)
      /\ \A q \in Request \ {r} : pc'[q] = pc[q] /\ mem'[q] = mem[q]
  BY HabitMoves, OthersStay DEF HabitTyped
<1> QED BY <1>1 DEF Ended

(* A request goes on to write once it has read its sheet.                  *)
LEMMA SheetComesFrom ==
    ASSUME HabitTyped, NEW r \in Request, HabitStep(r) \/ (Abort(r) /\ HabitStays),
           pc'[r] = "sheet"
    PROVE  LET sheet == habit.sheet[body[r].id]
           IN  habit' = habit /\ sheet # Nothing /\ MayGoOn(body[r], sheet) /\ mem'[r].items = sheet.items
<1> USE DEF HabitTyped
<1>1. ~Finish(r) /\ ~Abort(r)
  BY FinishGoes, AbortGoes
<1>2. CASE RequireTracker(r) \/ ReadAgain(r)
  <2> DEFINE sheet == habit.sheet[body[r].id]
  <2>1. /\ sheet # Nothing /\ MayGoOn(body[r], sheet) /\ habit' = habit
        /\ \E n : Keep(r, "sheet", [items |-> sheet.items, tries |-> n])
    BY <1>1, <1>2 DEF RequireTracker, ReadAgain, HabitStays
  <2> HIDE DEF sheet
  <2>2. mem'[r].items = sheet.items
    BY <2>1, KeepGoes
  <2> QED BY <2>1, <2>2 DEF sheet
<1>3. CASE FindSheetLike(r) \/ LockChallenges(r) \/ CountChallenges(r) \/ InsertTracker(r)
  BY <1>1, <1>3, AwaitGoes, TakeGoes DEF FindSheetLike, LockChallenges, CountChallenges, InsertTracker
<1>4. CASE SetCheck(r) \/ SwapItems(r) \/ ClearOrphans(r) \/ FindUnticked(r) \/ DeleteSheet(r)
  BY <1>1, <1>4, AwaitGoes DEF SetCheck, SwapItems, ClearOrphans, FindUnticked, DeleteSheet
<1>5. CASE CreateHabit(r) \/ RequireHabit(r) \/ UpdateHabit(r) \/ CountLogs(r)
  BY <1>1, <1>5, AwaitGoes DEF CreateHabit, RequireHabit, UpdateHabit, CountLogs
<1>6. CASE DeleteHabit(r) \/ ArchiveHabit(r) \/ CheckIn(r) \/ RemoveCheckIn(r)
  BY <1>1, <1>6 DEF DeleteHabit, ArchiveHabit, CheckIn, RemoveCheckIn
<1> QED BY <1>1, <1>2, <1>3, <1>4, <1>5, <1>6 DEF HabitStep

(* And on to delete it once it has found no tick.                          *)
LEMMA DeleteComesFrom ==
    ASSUME HabitTyped, NEW r \in Request, HabitStep(r) \/ (Abort(r) /\ HabitStays),
           pc'[r] = "delete", body[r].op = "drop-sheet"
    PROVE  habit' = habit /\ TicksOf(body[r].id) = {}
<1> USE DEF HabitTyped
<1>1. ~Finish(r) /\ ~Abort(r)
  BY FinishGoes, AbortGoes
<1>2. CASE FindUnticked(r)
  BY <1>1, <1>2 DEF FindUnticked, HabitStays
<1>3. CASE FindSheetLike(r) \/ LockChallenges(r) \/ CountChallenges(r) \/ InsertTracker(r)
  BY <1>3 DEF FindSheetLike, LockChallenges, CountChallenges, InsertTracker, At
<1>4. CASE RequireTracker(r) \/ ReadAgain(r)
  BY <1>1, <1>4, KeepGoes DEF RequireTracker, ReadAgain
<1>5. CASE SetCheck(r) \/ SwapItems(r) \/ ClearOrphans(r) \/ DeleteSheet(r)
  BY <1>1, <1>5, AwaitGoes DEF SetCheck, SwapItems, ClearOrphans, DeleteSheet
<1>6. CASE CreateHabit(r) \/ RequireHabit(r) \/ UpdateHabit(r) \/ CountLogs(r)
  BY <1>6 DEF CreateHabit, RequireHabit, UpdateHabit, CountLogs, HabitOps, At
<1>7. CASE DeleteHabit(r) \/ ArchiveHabit(r) \/ CheckIn(r) \/ RemoveCheckIn(r)
  BY <1>1, <1>7 DEF DeleteHabit, ArchiveHabit, CheckIn, RemoveCheckIn
<1> QED BY <1>1, <1>2, <1>3, <1>4, <1>5, <1>6, <1>7 DEF HabitStep

LEMMA OthersOverlook ==
    ASSUME HabitInv, NEW r \in Request, HabitStep(r) \/ (Abort(r) /\ HabitStays), Noticed
    PROVE  \A q \in Request : Overlooks(q)'
<1> USE DEF HabitInv
<1>0. /\ body' = body /\ HabitTyped
      /\ \A q \in Request \ {r} : pc'[q] = pc[q] /\ mem'[q] = mem[q]
  BY HabitFrame
<1>1. ASSUME NEW q \in Request, q # r PROVE Overlooks(q)'
  <2>1. ASSUME NEW t \in habit'.tick, body[q].op = "drop-sheet", t[1] = body[q].id
        PROVE  /\ pc[q] = "sheet" /\ t[3] \in Columns(t[1])' /\ t[3] \notin Range(mem[q].items)
                     => <<q, t>> \in habit'.since
               /\ pc[q] = "delete" => <<q, t>> \in habit'.since
    <3>1. CASE t \in habit.tick /\ (t[3] \in Columns(t[1])' => t[3] \in Columns(t[1]))
      BY <2>1, <3>1 DEF Overlooks, Noticed
    <3>2. CASE \A p \in Removals(t[1]) : <<p, t>> \in habit'.since
      BY <2>1, <3>2 DEF Removals
    <3> QED BY <2>1, <3>1, <3>2 DEF Noticed
  <2>2. pc'[q] = pc[q] /\ mem'[q] = mem[q]
    BY <1>0, <1>1
  <2> QED BY <1>0, <2>1, <2>2 DEF Overlooks
<1>2. Overlooks(r)'
  <2>1. ASSUME body[r].op = "drop-sheet", pc'[r] = "sheet", NEW t \in habit'.tick, t[1] = body[r].id,
               t[3] \in Columns(t[1])'
        PROVE  t[3] \in Range(mem'[r].items)
    <3>1. habit' = habit /\ mem'[r].items = habit.sheet[body[r].id].items
      BY <1>0, <2>1, SheetComesFrom
    <3> QED BY <2>1, <3>1 DEF Columns
  <2>2. ASSUME body[r].op = "drop-sheet", pc'[r] = "delete", NEW t \in habit'.tick, t[1] = body[r].id
        PROVE  FALSE
    <3>1. habit' = habit /\ TicksOf(body[r].id) = {}
      BY <1>0, <2>2, DeleteComesFrom
    <3> QED BY <2>2, <3>1 DEF TicksOf
  <2> QED BY <1>0, <2>1, <2>2 DEF Overlooks
<1> QED BY <1>1, <1>2

(* What a step of r leaves of the requests' side of the invariant, when no *)
(* other request's sheet appears and the days of a sheet stay.             *)
LEMMA OthersRead ==
    ASSUME HabitInv, NEW r \in Request, HabitStep(r) \/ (Abort(r) /\ HabitStays),
           \A s \in DOMAIN HabitStart.sheet \ {r} : habit'.sheet[s] # Nothing =>
              /\ habit.sheet[s] # Nothing
              /\ \A d : OnADay(d, habit.sheet[s]) => OnADay(d, habit'.sheet[s])
    PROVE  \A q \in Request : ToTick(q)' /\ ToSwap(q)'
<1> USE DEF HabitInv
<1>0. /\ body' = body /\ ~Ended(r) /\ HabitTyped
      /\ \A q \in Request \ {r} : pc'[q] = pc[q] /\ mem'[q] = mem[q]
  BY HabitFrame
<1>1. \A q \in Request : Ended(q) => Ended(q)'
  BY <1>0 DEF Ended
<1>2. ASSUME NEW q \in Request, q # r PROVE ToTick(q)'
  <2>1. ASSUME At(q, "tick", "sheet")'
        PROVE  /\ body[q].id \in Request => Ended(body[q].id)'
               /\ body[q].checked /\ habit'.sheet[body[q].id] # Nothing =>
                     OnADay(body[q].day, habit'.sheet[body[q].id])
    <3>1. At(q, "tick", "sheet") /\ ToTick(q)
      BY <1>0, <1>2, <2>1 DEF At
    <3>2. body[q].id \in DOMAIN HabitStart.sheet
      BY <1>0, <3>1 DEF At, HabitTyped, HabitBodyFits, SheetOps
    <3>3. body[q].id # r
      BY <1>0, <3>1 DEF ToTick
    <3> QED BY <1>0, <1>1, <3>1, <3>2, <3>3 DEF ToTick
  <2> QED BY <1>0, <2>1 DEF ToTick, OnADay, SheetDays, LastTickableDay, ElapsedDays
<1>3. ToTick(r)'
  <2>1. ASSUME At(r, "tick", "sheet")'
        PROVE  /\ body[r].id \in Request => Ended(body[r].id)'
               /\ body[r].checked => OnADay(body[r].day, habit'.sheet[body[r].id])
    <3>1. /\ habit' = habit /\ habit.sheet[body[r].id] # Nothing
          /\ Tickable(body[r], habit.sheet[body[r].id])
      <4>1. pc'[r] = "sheet" /\ body[r].op = "tick"
        BY <1>0, <2>1 DEF At
      <4> QED BY <1>0, <4>1, SheetComesFrom DEF MayGoOn
    <3>2. body[r].id \in Request => Ended(body[r].id)
      BY <3>1 DEF Unborn
    <3> QED BY <1>0, <1>1, <3>1, <3>2 DEF Tickable, OnADay
  <2> QED BY <1>0, <2>1 DEF ToTick, OnADay, SheetDays, LastTickableDay, ElapsedDays
<1>4. ASSUME NEW q \in Request PROVE ToSwap(q)'
  <2>1. CASE q # r
    BY <1>0, <2>1 DEF ToSwap
  <2>2. CASE q = r
    <3>1. ASSUME pc'[r] = "sheet", body[r].op \in {"add-column", "drop-column"}
          PROVE  Planned(body[r], mem'[r].items)
      BY <1>0, <3>1, SheetComesFrom DEF MayGoOn
    <3> QED BY <1>0, <2>2, <3>1 DEF ToSwap, Planned
  <2> QED BY <2>1, <2>2
<1> QED BY <1>2, <1>3, <1>4

(* A step that leaves the sheets alone, and ticks at most a cell less.     *)
LEMMA SheetsRest ==
    ASSUME HabitInv, HabitTyped', NEW r \in Request, HabitStep(r) \/ (Abort(r) /\ HabitStays),
           habit'.sheet = habit.sheet, habit'.tick \subseteq habit.tick,
           habit'.added = habit.added, habit.since \subseteq habit'.since,
           habit'.cleared \cup habit'.lost \subseteq habit'.since
    PROVE  HabitInv'
<1> USE DEF HabitInv
<1>0. HabitTyped /\ \A q \in Request : ~Ended(q)' => ~Ended(q)
  BY HabitFrame
<1>1. Sheets' = Sheets /\ \A s : Columns(s)' = Columns(s)
  BY DEF Sheets, Columns
<1>2. Columned'
  BY <1>1 DEF Columned
<1>3. Ticked'
  <2>1. \A t \in habit'.tick : t[1] \in Sheets /\ OnADay(t[2], habit'.sheet[t[1]])
    BY DEF Ticked
  <2> QED BY <1>1, <2>1 DEF Ticked, OnADay, SheetDays, LastTickableDay, ElapsedDays
<1>4. \A q \in Request : Unborn(q)'
  BY <1>0 DEF Unborn
<1>5. \A q \in Request : ToTick(q)' /\ ToSwap(q)'
  BY OthersRead
<1>6. Noticed
  BY <1>1 DEF Noticed
<1> QED BY <1>2, <1>3, <1>4, <1>5, <1>6, OthersOverlook

LEMMA ShortRows ==
    ASSUME NEW S, NEW a \in S, NEW b \in S
    PROVE  <<a>> \in Seq(S) /\ <<a, b>> \in Seq(S)
OBVIOUS

LEMMA InsertTrackerStep == ASSUME HabitInv, NEW r \in Request, InsertTracker(r) PROVE HabitInv'
<1> USE DEF HabitInv
<1> DEFINE b == body[r]
           row == [kind |-> b.kind, month |-> b.month, days |-> b.days, items |-> StartItems(b.kind)]
<1>0. /\ Framed' /\ body' = body /\ ~Ended(r) /\ HabitStep(r) /\ Finish(r)
      /\ \A q \in Request : ~Ended(q)' => ~Ended(q)
  BY HabitFrame DEF HabitStep, InsertTracker
<1>1. CASE habit' = habit
  <2>1. HabitTyped'
    BY <1>0, <1>1 DEF HabitTyped
  <2> QED BY <1>0, <1>1, <2>1, SheetsRest DEF Columned
<1>2. CASE habit' = [habit EXCEPT !.sheet[r] = row]
  <2>1. b.kind \in {"Namaz", "Ramadan", "Others"} /\ row \in SheetRow
    <3>1. /\ b.kind \in {"Namaz", "Ramadan", "Others"}
          /\ b.month \in Int \cup {Nothing} /\ b.days \in Nat \cup {Nothing}
      BY DEF InsertTracker, At, HabitTyped, HabitBodyFits
    <3>2. StartItems(b.kind) \in Seq(HabitName)
      <4>0. \A one, other \in HabitName : <<one>> \in Seq(HabitName) /\ <<one, other>> \in Seq(HabitName)
        BY ShortRows
      <4>1. CASE b.kind = "Namaz"
        <5>1. StartItems(b.kind) = <<"Fajr", "Isha">>
          BY <4>1 DEF StartItems
        <5> QED BY <4>0, <5>1, HabitAssumption
      <4>2. CASE b.kind = "Ramadan"
        <5>1. StartItems(b.kind) = <<"Roza">>
          BY <4>2 DEF StartItems
        <5> QED BY <4>0, <5>1, HabitAssumption
      <4>3. CASE b.kind = "Others"
        BY <4>3 DEF StartItems
      <4> QED BY <3>1, <4>1, <4>2, <4>3
    <3> QED BY <3>1, <3>2 DEF SheetRow
  <2>2. IsInjective(row.items) /\ Len(row.items) <= MaxItems
    <3>1. CASE b.kind = "Namaz"
      BY <3>1, HabitAssumption DEF StartItems, IsInjective
    <3>2. CASE b.kind = "Ramadan"
      BY <3>2, HabitAssumption DEF StartItems, IsInjective
    <3>3. CASE b.kind = "Others"
      BY <3>3, HabitAssumption DEF StartItems, IsInjective
    <3> QED BY <2>1, <3>1, <3>2, <3>3
  <2> HIDE DEF row
  <2>3. /\ DOMAIN habit' = DOMAIN habit /\ habit'.sheet = [habit.sheet EXCEPT ![r] = row]
        /\ habit'.tick = habit.tick /\ habit'.added = habit.added /\ habit'.since = habit.since
        /\ habit'.cleared = habit.cleared /\ habit'.lost = habit.lost /\ habit'.log = habit.log
    BY <1>2 DEF HabitTyped
  <2>4. HabitTyped'
    BY <1>0, <2>1, <2>3 DEF HabitTyped
  <2>5. r \in DOMAIN HabitStart.sheet /\ DOMAIN habit.sheet = DOMAIN HabitStart.sheet
        /\ (\A t \in habit.tick : t[1] # r) /\ (\A e \in habit.added : e[1] # r)
    BY <1>0, HabitAssumption DEF HabitTyped, Unborn
  <2>6. \A s \in DOMAIN HabitStart.sheet \ {r} : habit'.sheet[s] = habit.sheet[s]
    BY <2>3, <2>5
  <2>7. Columned'
    <3>1. \A s \in Sheets' :
             IsInjective(habit'.sheet[s].items) /\ Len(habit'.sheet[s].items) <= MaxItems
      BY <2>2, <2>3, <2>5, <2>6 DEF Columned, Sheets
    <3>2. ASSUME NEW e \in habit.added, e[1] \in Sheets' PROVE e[2] \in Columns(e[1])'
      BY <2>3, <2>5, <2>6, <3>2 DEF Columned, Columns, Sheets
    <3> QED BY <2>3, <3>1, <3>2 DEF Columned
  <2>8. Ticked'
    <3>1. ASSUME NEW t \in habit.tick PROVE t[1] \in Sheets' /\ OnADay(t[2], habit'.sheet[t[1]])
      BY <2>3, <2>5, <2>6 DEF Ticked, Sheets
    <3> QED BY <2>3, <3>1 DEF Ticked, OnADay, SheetDays, LastTickableDay, ElapsedDays
  <2>9. \A q \in Request : Unborn(q)'
    <3>1. Ended(r)'
      BY <1>0, FinishGoes DEF Ended, HabitTyped
    <3>2. \A q \in Request \ {r} : habit'.sheet[q] = habit.sheet[q]
      BY <2>3, <2>5
    <3> QED BY <1>0, <2>3, <3>1, <3>2 DEF Unborn
  <2>10. \A q \in Request : ToTick(q)' /\ ToSwap(q)'
    BY <1>0, <2>6, OthersRead
  <2>11. Noticed
    <3>1. ASSUME NEW t \in habit.tick PROVE Columns(t[1])' = Columns(t[1])
      <4>1. t[1] \in DOMAIN HabitStart.sheet \ {r}
        BY <2>5, <3>1 DEF Ticked, Sheets
      <4> QED BY <2>6, <4>1 DEF Columns
    <3> QED BY <2>3, <3>1 DEF Noticed
  <2>12. \A q \in Request : Overlooks(q)'
    BY <1>0, <2>11, OthersOverlook
  <2> QED BY <2>4, <2>7, <2>8, <2>9, <2>10, <2>12
<1> QED BY <1>1, <1>2 DEF InsertTracker

LEMMA SetCheckStep == ASSUME HabitInv, NEW r \in Request, SetCheck(r) PROVE HabitInv'
<1> USE DEF HabitInv
<1> DEFINE b == body[r]
           cell == <<b.id, b.day, b.item>>
<1>0. /\ Framed' /\ body' = body /\ ~Ended(r) /\ HabitStep(r)
      /\ \A q \in Request : ~Ended(q)' => ~Ended(q)
  BY HabitFrame DEF HabitStep
<1>1. At(r, "tick", "sheet") /\ b.checked \in BOOLEAN /\ b.id \in DOMAIN HabitStart.sheet
  BY DEF SetCheck, At, HabitTyped, HabitBodyFits, SheetOps
<1>2. /\ DOMAIN habit' = DOMAIN habit /\ habit'.log = habit.log
      /\ habit'.sheet = habit.sheet /\ habit'.added = habit.added
      /\ habit'.cleared = habit.cleared /\ habit'.lost = habit.lost
      /\ habit.since \subseteq habit'.since
      /\ \/ habit'.tick \subseteq habit.tick
         \/ /\ b.checked /\ habit.sheet[b.id] # Nothing /\ habit'.tick = habit.tick \cup {cell}
            /\ Removals(b.id) \X ({cell} \ habit.tick) \subseteq habit'.since
  <2>1. CASE habit' = habit
    BY <2>1
  <2>2. CASE /\ b.checked /\ habit.sheet[b.id] # Nothing
             /\ habit' = [habit EXCEPT !.tick = @ \cup {cell},
                                       !.since = @ \cup (Removals(b.id) \X ({cell} \ habit.tick))]
    <3> HIDE DEF cell
    <3> QED BY <2>2 DEF HabitTyped
  <2>3. CASE habit' = [habit EXCEPT !.tick = @ \ {cell}]
    BY <2>3 DEF HabitTyped
  <2> QED BY <1>1, <2>1, <2>2, <2>3 DEF SetCheck
<1>5. HabitTyped'
  BY <1>0, <1>2 DEF HabitTyped
<1>3. CASE habit'.tick \subseteq habit.tick
  BY <1>0, <1>2, <1>3, <1>5, SheetsRest DEF Columned
<1>4. CASE /\ b.checked /\ habit.sheet[b.id] # Nothing /\ habit'.tick = habit.tick \cup {cell}
           /\ Removals(b.id) \X ({cell} \ habit.tick) \subseteq habit'.since
  <2>1. OnADay(b.day, habit.sheet[b.id]) /\ (b.id \in Request => Ended(b.id))
    BY <1>1, <1>4 DEF ToTick
  <2>2. Sheets' = Sheets /\ \A s : Columns(s)' = Columns(s)
    BY <1>2 DEF Sheets, Columns
  <2>3. Columned'
    BY <1>2, <2>2 DEF Columned
  <2>4. \A t \in habit'.tick : t[1] \in Sheets /\ OnADay(t[2], habit.sheet[t[1]])
    <3>1. b.id \in Sheets
      BY <1>1, <1>4 DEF Sheets, HabitTyped
    <3>2. cell[1] = b.id /\ cell[2] = b.day
      OBVIOUS
    <3>3. \A t \in habit.tick : t[1] \in Sheets /\ OnADay(t[2], habit.sheet[t[1]])
      BY DEF Ticked
    <3> HIDE DEF cell
    <3> QED BY <1>4, <2>1, <3>1, <3>2, <3>3
  <2>5. Ticked'
    BY <1>2, <2>2, <2>4 DEF Ticked, OnADay, SheetDays, LastTickableDay, ElapsedDays
  <2>6. ASSUME NEW q \in Request PROVE Unborn(q)'
    <3>1. ~Ended(q) => cell[1] # q
      BY <2>1
    <3> HIDE DEF cell
    <3> QED BY <1>0, <1>2, <1>4, <3>1 DEF Unborn
  <2>7. \A q \in Request : ToTick(q)' /\ ToSwap(q)'
    BY <1>0, <1>2, OthersRead
  <2>8. Noticed
    <3>1. cell \notin habit.tick => \A q \in Removals(cell[1]) : <<q, cell>> \in habit'.since
      BY <1>4
    <3> HIDE DEF cell
    <3> QED BY <1>2, <1>4, <2>2, <3>1 DEF Noticed
  <2>9. \A q \in Request : Overlooks(q)'
    BY <1>0, <2>8, OthersOverlook
  <2> QED BY <1>5, <2>3, <2>5, <2>6, <2>7, <2>9
<1> QED BY <1>2, <1>3, <1>4

(* What is left of a row of names without one of them.                     *)
LEMMA WithoutOne ==
    ASSUME NEW S, NEW items \in Seq(S), IsInjective(items), NEW name \in Range(items)
    PROVE  /\ Without(items, name) \in Seq(S) /\ IsInjective(Without(items, name))
           /\ Range(items) \ {name} \subseteq Range(Without(items, name))
           /\ Range(Without(items, name)) \subseteq Range(items)
           /\ Len(Without(items, name)) <= Len(items)
<1> DEFINE k == CHOOSE i \in DOMAIN items : items[i] = name
           n == Len(items)
           rest == [i \in 1 .. n - 1 |-> items[IF i < k THEN i ELSE i + 1]]
<1>1. n \in Nat /\ DOMAIN items = 1 .. n /\ \A i \in 1 .. n : items[i] \in S
  OBVIOUS
<1>2. k \in 1 .. n /\ items[k] = name
  <2>1. \E i \in DOMAIN items : items[i] = name
    BY DEF Range
  <2> HIDE DEF n
  <2> QED BY <1>1, <2>1
<1>3. Without(items, name) = rest
  BY DEF Without
<1> HIDE DEF k, n
<1>4. n - 1 \in Nat /\ rest \in [1 .. n - 1 -> S]
  BY <1>1, <1>2
<1>5. rest \in Seq(S)
  BY <1>4
<1>6. IsInjective(rest)
  <2>1. ASSUME NEW i \in 1 .. n - 1, NEW j \in 1 .. n - 1, rest[i] = rest[j] PROVE i = j
    <3> DEFINE up(x) == IF x < k THEN x ELSE x + 1
    <3>1. up(i) \in 1 .. n /\ up(j) \in 1 .. n /\ items[up(i)] = items[up(j)]
      BY <1>1, <1>2, <2>1
    <3>2. up(i) = up(j)
      BY <1>1, <3>1 DEF IsInjective
    <3> QED BY <1>1, <1>2, <3>2
  <2> QED BY <2>1 DEF IsInjective
<1>7. Range(items) \ {name} \subseteq Range(rest)
  <2>1. ASSUME NEW x \in Range(items), x # name PROVE x \in Range(rest)
    <3>1. PICK i \in 1 .. n : items[i] = x
      BY <1>1 DEF Range
    <3>2. CASE i < k
      <4>1. i \in 1 .. n - 1 /\ rest[i] = x
        BY <1>1, <1>2, <3>1, <3>2
      <4> QED BY <4>1 DEF Range
    <3>3. CASE i > k
      <4>1. i - 1 \in 1 .. n - 1 /\ rest[i - 1] = x
        BY <1>1, <1>2, <3>1, <3>3
      <4> QED BY <4>1 DEF Range
    <3> QED BY <1>1, <1>2, <2>1, <3>1, <3>2, <3>3
  <2> QED BY <2>1
<1>8. Range(rest) \subseteq Range(items)
  <2>1. ASSUME NEW i \in 1 .. n - 1 PROVE rest[i] \in Range(items)
    <3>1. rest[i] = items[IF i < k THEN i ELSE i + 1] /\ (IF i < k THEN i ELSE i + 1) \in 1 .. n
      BY <1>1, <1>2
    <3> QED BY <1>1, <3>1 DEF Range
  <2> QED BY <2>1 DEF Range
<1>9. Len(rest) <= Len(items)
  <2>1. Len(rest) = n - 1
    BY <1>4
  <2>2. n \in Nat /\ n = Len(items)
    BY <1>1 DEF n
  <2> HIDE DEF rest
  <2> QED BY <2>1, <2>2
<1> QED BY <1>3, <1>5, <1>6, <1>7, <1>8, <1>9

(* And with one more.                                                      *)
LEMMA WithOneMore ==
    ASSUME NEW S, NEW items \in Seq(S), IsInjective(items), NEW name \in S, name \notin Range(items)
    PROVE  /\ Append(items, name) \in Seq(S) /\ IsInjective(Append(items, name))
           /\ Range(Append(items, name)) = Range(items) \cup {name}
           /\ Len(Append(items, name)) = Len(items) + 1
<1> DEFINE n == Len(items)
           more == Append(items, name)
<1>1. n \in Nat /\ DOMAIN items = 1 .. n
  OBVIOUS
<1>2. /\ more \in Seq(S) /\ DOMAIN more = 1 .. n + 1 /\ more[n + 1] = name
      /\ \A i \in 1 .. n : more[i] = items[i]
  OBVIOUS
<1> HIDE DEF n, more
<1>3. \A i \in 1 .. n : items[i] # name
  BY <1>1 DEF Range
<1>4. IsInjective(more)
  <2>1. ASSUME NEW i \in 1 .. n + 1, NEW j \in 1 .. n + 1, more[i] = more[j] PROVE i = j
    <3>1. CASE i \in 1 .. n /\ j \in 1 .. n
      BY <1>1, <1>2, <2>1, <3>1 DEF IsInjective
    <3>2. CASE i = n + 1 \/ j = n + 1
      BY <1>1, <1>2, <1>3, <2>1, <3>2
    <3> QED BY <1>1, <3>1, <3>2
  <2> QED BY <1>2, <2>1 DEF IsInjective
<1>5. \A i \in 1 .. n + 1 : i \in 1 .. n \/ i = n + 1
  BY <1>1
<1>6. \A i \in 1 .. n : i \in 1 .. n + 1
  BY <1>1
<1>7. n + 1 \in 1 .. n + 1
  BY <1>1
<1>8. Range(more) = Range(items) \cup {name}
  BY <1>1, <1>2, <1>5, <1>6, <1>7 DEF Range
<1>9. Len(Append(items, name)) = Len(items) + 1
  OBVIOUS
<1> QED BY <1>2, <1>4, <1>8, <1>9 DEF more

(* The columns change as planned, and the ticks of the name go.            *)
LEMMA SwapItemsStep == ASSUME HabitInv, NEW r \in Request, SwapItems(r) PROVE HabitInv'
<1> USE DEF HabitInv
<1> DEFINE b == body[r]
           i == b.id
           sheet == habit.sheet[i]
           new == [sheet EXCEPT !.items = Changed(b, mem[r].items)]
<1>0. /\ Framed' /\ body' = body /\ ~Ended(r) /\ HabitStep(r)
      /\ \A q \in Request : ~Ended(q)' => ~Ended(q)
  BY HabitFrame DEF HabitStep
<1>1. /\ b.op \in {"add-column", "drop-column"} /\ Planned(b, mem[r].items)
      /\ i \in DOMAIN HabitStart.sheet /\ b.item \in HabitName
  BY DEF SwapItems, ToSwap, HabitTyped, HabitBodyFits, SheetOps
<1>2. CASE HabitStays
  <2>1. habit' = habit
    BY <1>2 DEF HabitStays
  <2>2. HabitTyped'
    BY <1>0, <2>1 DEF HabitTyped
  <2> QED BY <1>0, <2>1, <2>2, SheetsRest DEF Columned
<1>3. CASE sheet # Nothing /\ sheet.items = mem[r].items /\ habit' = Swapped(b, mem[r].items)
  <2> DEFINE items == sheet.items
             next == Changed(b, items)
  <2>1. sheet \in SheetRow /\ items \in Seq(HabitName) /\ IsInjective(items) /\ i \in Sheets
        /\ Len(items) <= MaxItems
    BY <1>1, <1>3 DEF HabitTyped, SheetRow, Columned, Sheets
  <2>2. /\ next \in Seq(HabitName) /\ IsInjective(next) /\ Range(items) \ {b.item} \subseteq Range(next)
        /\ b.op = "add-column" => b.item \in Range(next)
        /\ Range(next) \subseteq Range(items) \cup {b.item} /\ Len(next) <= MaxItems
    <3> HIDE DEF items, sheet
    <3>1. CASE b.op = "add-column"
      <4>1. next = Append(items, b.item) /\ b.item \notin Range(items) /\ Len(items) < MaxItems
        BY <1>1, <1>3, <3>1 DEF Changed, Planned, items
      <4>2. Len(items) \in Nat /\ MaxItems \in Nat
        BY <2>1, HabitAssumption
      <4>3. Len(next) = Len(items) + 1
        BY <1>1, <2>1, <4>1, WithOneMore
      <4>4. Len(next) <= MaxItems
        BY <4>1, <4>2, <4>3
      <4> QED BY <1>1, <2>1, <4>1, <4>4, WithOneMore
    <3>2. CASE b.op = "drop-column"
      <4>1. next = Without(items, b.item) /\ b.item \in Range(items)
        BY <1>1, <1>3, <3>2 DEF Changed, Planned, items
      <4>2. /\ Without(items, b.item) \in Seq(HabitName) /\ IsInjective(Without(items, b.item))
            /\ Range(items) \ {b.item} \subseteq Range(Without(items, b.item))
            /\ Range(Without(items, b.item)) \subseteq Range(items)
            /\ Len(Without(items, b.item)) <= Len(items)
        BY <2>1, <4>1, WithoutOne
      <4>3. Len(items) \in Nat /\ MaxItems \in Nat /\ Len(Without(items, b.item)) \in Nat
        BY <2>1, <4>2, HabitAssumption
      <4>4. Len(next) <= MaxItems
        BY <2>1, <4>1, <4>2, <4>3
      <4> QED BY <3>2, <4>1, <4>2, <4>4
    <3> QED BY <1>1, <3>1, <3>2
  <2>3. /\ DOMAIN habit' = DOMAIN habit /\ habit'.sheet = [habit.sheet EXCEPT ![i] = new]
        /\ habit'.tick = {t \in habit.tick : t[1] # i \/ t[3] # b.item}
        /\ habit'.added = IF b.op = "add-column" THEN habit.added \cup {<<i, b.item>>}
                          ELSE habit.added \ {<<i, b.item>>}
        /\ habit'.since = habit.since /\ habit'.cleared = habit.cleared
        /\ habit'.lost = habit.lost /\ habit'.log = habit.log
    BY <1>3 DEF Swapped, HabitTyped
  <2>4. /\ new \in SheetRow /\ new.items = next /\ new.kind = sheet.kind
        /\ new.month = sheet.month /\ new.days = sheet.days
    <3>1. new = [sheet EXCEPT !.items = next]
      BY <1>3
    <3> HIDE DEF new, next, sheet
    <3> QED BY <2>1, <2>2, <3>1 DEF SheetRow
  <2>5. \A d : OnADay(d, new) <=> OnADay(d, sheet)
    BY <2>4 DEF OnADay, SheetDays
  <2>6. new # Nothing
    BY <2>4, HabitAssumption
  <2> HIDE DEF new, next
  <2>7. /\ DOMAIN habit.sheet = DOMAIN HabitStart.sheet /\ habit'.sheet[i] = new
        /\ \A s \in DOMAIN HabitStart.sheet \ {i} : habit'.sheet[s] = habit.sheet[s]
    BY <1>1, <2>3 DEF HabitTyped
  <2>8. HabitTyped'
    <3>1. habit'.sheet \in [DOMAIN HabitStart.sheet -> SheetRow \cup {Nothing}]
      BY <2>3, <2>4 DEF HabitTyped
    <3>2. habit'.added \in SUBSET ((DOMAIN HabitStart.sheet) \X HabitName)
      BY <1>1, <2>3 DEF HabitTyped
    <3> QED BY <1>0, <2>3, <3>1, <3>2 DEF HabitTyped
  <2>9. Sheets' = Sheets
    BY <1>3, <2>1, <2>3, <2>6, <2>7 DEF Sheets
  <2>10. Columned'
    <3>1. \A s \in Sheets :
             IsInjective(habit'.sheet[s].items) /\ Len(habit'.sheet[s].items) <= MaxItems
      BY <2>2, <2>4, <2>7 DEF Columned, Sheets
    <3>2. ASSUME NEW e \in habit'.added, e[1] \in Sheets PROVE e[2] \in Columns(e[1])'
      <4>1. CASE e[1] # i
        <5>1. e \in habit.added
          BY <2>3, <3>2, <4>1
        <5>2. habit'.sheet[e[1]] = habit.sheet[e[1]]
          BY <2>7, <3>2, <4>1 DEF Sheets
        <5> QED BY <3>2, <5>1, <5>2 DEF Columned, Columns
      <4>2. CASE e[1] = i
        <5>1. Columns(e[1])' = Range(next) /\ Columns(i) = Range(items)
          BY <2>4, <2>7, <4>2 DEF Columns
        <5>2. CASE e = <<i, b.item>>
          <6>1. b.op = "add-column" /\ e[2] = b.item
            BY <2>3, <3>2, <5>2
          <6> QED BY <2>2, <5>1, <6>1
        <5>3. CASE e # <<i, b.item>>
          <6>1. e \in habit.added
            BY <2>3, <3>2, <5>3
          <6>2. e[2] # b.item
            BY <4>2, <5>3, <6>1 DEF HabitTyped
          <6>3. e[2] \in Columns(i)
            BY <3>2, <4>2, <6>1 DEF Columned
          <6> HIDE DEF items
          <6> QED BY <2>2, <5>1, <6>2, <6>3
        <5> QED BY <5>2, <5>3
      <4> QED BY <4>1, <4>2
    <3> QED BY <2>3, <2>9, <3>1, <3>2 DEF Columned
  <2>11. Ticked'
    <3>1. ASSUME NEW t \in habit'.tick PROVE t[1] \in Sheets /\ OnADay(t[2], habit'.sheet[t[1]])
      <4>1. t \in habit.tick /\ t[1] \in Sheets /\ OnADay(t[2], habit.sheet[t[1]])
        BY <2>3, <3>1 DEF Ticked
      <4> QED BY <2>5, <2>7, <4>1 DEF Sheets
    <3> QED BY <2>9, <3>1 DEF Ticked, OnADay, SheetDays, LastTickableDay, ElapsedDays
  <2>12. ASSUME NEW q \in Request PROVE Unborn(q)'
    <3>1. ASSUME ~Ended(q)
          PROVE  /\ habit'.sheet[q] = Nothing
                 /\ (\A t \in habit'.tick : t[1] # q) /\ (\A e \in habit'.added : e[1] # q)
      <4>1. /\ habit.sheet[q] = Nothing
            /\ (\A t \in habit.tick : t[1] # q) /\ (\A e \in habit.added : e[1] # q)
        BY <3>1 DEF Unborn
      <4>2. q # i /\ q \in DOMAIN HabitStart.sheet
        BY <1>3, <4>1, HabitAssumption
      <4>3. <<i, b.item>>[1] = i
        OBVIOUS
      <4> QED BY <2>3, <2>7, <4>1, <4>2, <4>3
    <3> QED BY <1>0, <3>1 DEF Unborn
  <2>13. \A q \in Request : ToTick(q)' /\ ToSwap(q)'
    <3>1. \A s \in DOMAIN HabitStart.sheet \ {r} : habit'.sheet[s] # Nothing =>
              /\ habit.sheet[s] # Nothing
              /\ \A d : OnADay(d, habit.sheet[s]) => OnADay(d, habit'.sheet[s])
      BY <1>3, <2>5, <2>7
    <3> QED BY <1>0, <3>1, OthersRead
  <2>14. Noticed
    <3>1. ASSUME NEW t \in habit'.tick, t[3] \in Columns(t[1])'
          PROVE  t \in habit.tick /\ t[3] \in Columns(t[1])
      <4>1. t \in habit.tick /\ (t[1] # i \/ t[3] # b.item) /\ t[1] \in DOMAIN HabitStart.sheet
        BY <2>3, <3>1 DEF Ticked, Sheets, HabitTyped
      <4>2. CASE t[1] = i
        <5>1. Columns(t[1])' = Range(next) /\ Columns(t[1]) = Range(items)
          BY <2>4, <2>7, <4>2 DEF Columns
        <5> HIDE DEF items
        <5> QED BY <2>2, <3>1, <4>1, <4>2, <5>1
      <4>3. CASE t[1] # i
        BY <2>7, <3>1, <4>1, <4>3 DEF Columns
      <4> QED BY <4>1, <4>2, <4>3
    <3> QED BY <2>3, <3>1 DEF Noticed
  <2>15. \A q \in Request : Overlooks(q)'
    BY <1>0, <2>14, OthersOverlook
  <2> QED BY <2>8, <2>10, <2>11, <2>12, <2>13, <2>15
<1> QED BY <1>2, <1>3 DEF SwapItems

(* A removal first takes the ticks of no column it has read: those of them *)
(* in sight are of a column that was added since.                          *)
LEMMA ClearOrphansStep == ASSUME HabitInv, NEW r \in Request, ClearOrphans(r) PROVE HabitInv'
<1> USE DEF HabitInv
<1> DEFINE s == body[r].id
           gone == {t \in TicksOf(s) : t[3] \notin Range(mem[r].items)}
           seen == {r} \X (gone \cap InSight(s))
<1>0. Framed' /\ body' = body /\ HabitStep(r) /\ HabitTyped
  BY HabitFrame DEF HabitStep
<1>1. seen \subseteq habit.since
  <2>1. ASSUME NEW t \in gone, t \in InSight(s) PROVE <<r, t>> \in habit.since
    <3>1. t \in habit.tick /\ t[1] = s /\ t[3] \in Columns(t[1]) /\ t[3] \notin Range(mem[r].items)
      BY <2>1 DEF InSight, TicksOf
    <3>2. pc[r] = "sheet" /\ body[r].op = "drop-sheet"
      BY DEF ClearOrphans, At
    <3> QED BY <3>1, <3>2 DEF Overlooks
  <2> QED BY <2>1
<1>2. habit' = [habit EXCEPT !.tick = @ \ gone, !.cleared = @ \cup seen]
  BY DEF ClearOrphans
<1> HIDE DEF gone, seen
<1>3. /\ DOMAIN habit' = DOMAIN habit /\ habit'.tick \subseteq habit.tick /\ habit'.sheet = habit.sheet
      /\ habit'.added = habit.added /\ habit'.since = habit.since
      /\ habit'.cleared = habit.cleared \cup seen /\ habit'.lost = habit.lost /\ habit'.log = habit.log
  BY <1>0, <1>2 DEF HabitTyped
<1>4. HabitTyped'
  BY <1>0, <1>3 DEF HabitTyped
<1>5. habit'.cleared \cup habit'.lost \subseteq habit'.since
  BY <1>1, <1>3 DEF Columned
<1> QED BY <1>0, <1>3, <1>4, <1>5, SheetsRest

(* Then it takes the sheet, with the ticks that landed since it found none.*)
LEMMA DeleteSheetStep == ASSUME HabitInv, NEW r \in Request, DeleteSheet(r) PROVE HabitInv'
<1> USE DEF HabitInv
<1> DEFINE s == body[r].id
           seen == {r} \X InSight(s)
<1>0. /\ Framed' /\ body' = body /\ HabitStep(r) /\ HabitTyped
      /\ \A q \in Request : ~Ended(q)' => ~Ended(q)
  BY HabitFrame DEF HabitStep
<1>1. CASE habit' = habit
  <2>1. HabitTyped'
    BY <1>0, <1>1 DEF HabitTyped
  <2> QED BY <1>0, <1>1, <2>1, SheetsRest DEF Columned
<1>2. CASE habit.sheet[s] # Nothing /\ habit' = Removed(r, s)
  <2>1. s \in DOMAIN HabitStart.sheet /\ DOMAIN habit.sheet = DOMAIN HabitStart.sheet
    BY DEF DeleteSheet, At, HabitTyped, HabitBodyFits, SheetOps
  <2>2. seen \subseteq habit.since
    <3>1. pc[r] = "delete" /\ body[r].op = "drop-sheet"
      BY DEF DeleteSheet, At
    <3>2. \A t \in InSight(s) : <<r, t>> \in habit.since
      BY <3>1 DEF Overlooks, InSight, TicksOf
    <3> QED BY <3>2
  <2>3. habit' = [habit EXCEPT !.sheet[s] = Nothing, !.tick = @ \ TicksOf(s), !.lost = @ \cup seen]
    BY <1>2 DEF Removed
  <2> HIDE DEF seen
  <2>4. /\ DOMAIN habit' = DOMAIN habit /\ habit'.sheet = [habit.sheet EXCEPT ![s] = Nothing]
        /\ habit'.tick = habit.tick \ TicksOf(s) /\ habit'.added = habit.added
        /\ habit'.since = habit.since /\ habit'.cleared = habit.cleared
        /\ habit'.lost = habit.lost \cup seen /\ habit'.log = habit.log
    BY <2>3 DEF HabitTyped
  <2>5. habit'.sheet[s] = Nothing /\ \A q \in DOMAIN HabitStart.sheet \ {s} : habit'.sheet[q] = habit.sheet[q]
    BY <2>1, <2>4
  <2>6. HabitTyped'
    <3>1. habit'.sheet \in [DOMAIN HabitStart.sheet -> SheetRow \cup {Nothing}]
      BY <2>4 DEF HabitTyped
    <3> QED BY <1>0, <2>4, <3>1 DEF HabitTyped
  <2>7. Sheets' \subseteq Sheets \ {s} /\ Sheets \ {s} \subseteq Sheets'
    BY <2>1, <2>4, <2>5 DEF Sheets
  <2>8. \A q \in Sheets \ {s} : habit'.sheet[q] = habit.sheet[q] /\ Columns(q)' = Columns(q)
    BY <2>1, <2>5 DEF Sheets, Columns
  <2>9. Columned'
    <3>1. habit'.cleared \cup habit'.lost \subseteq habit'.since
      BY <2>2, <2>4 DEF Columned
    <3> QED BY <2>4, <2>7, <2>8, <3>1 DEF Columned
  <2>10. \A t \in habit'.tick : t \in habit.tick /\ t[1] \in Sheets \ {s}
    BY <2>4 DEF Ticked, TicksOf
  <2>11. Ticked'
    <3>1. ASSUME NEW t \in habit'.tick PROVE t[1] \in Sheets' /\ OnADay(t[2], habit'.sheet[t[1]])
      <4>1. t[1] \in Sheets \ {s} /\ OnADay(t[2], habit.sheet[t[1]])
        BY <2>10 DEF Ticked
      <4> QED BY <2>7, <2>8, <4>1
    <3> QED BY <3>1 DEF Ticked, OnADay, SheetDays, LastTickableDay, ElapsedDays
  <2>12. ASSUME NEW q \in Request PROVE Unborn(q)'
    <3>1. q \in DOMAIN HabitStart.sheet
      BY HabitAssumption
    <3> QED BY <1>0, <2>4, <2>5, <3>1 DEF Unborn
  <2>13. \A q \in Request : ToTick(q)' /\ ToSwap(q)'
    BY <1>0, <2>5, OthersRead
  <2>14. Noticed
    BY <2>4, <2>8, <2>10 DEF Noticed
  <2>15. \A q \in Request : Overlooks(q)'
    BY <1>0, <2>14, OthersOverlook
  <2> QED BY <2>6, <2>9, <2>11, <2>12, <2>13, <2>15
<1> QED BY <1>1, <1>2 DEF DeleteSheet

(* The habits and their days are tables of their own.                      *)
LEMMA HabitRows ==
    ASSUME HabitInv, NEW r \in Request, HabitStep(r), NEW rows, NEW log,
           habit' = [habit EXCEPT !.row = rows, !.log = log],
           IsFiniteSet(DOMAIN log), \A e \in DOMAIN log : e[2] \in Int
    PROVE  HabitInv'
<1> USE DEF HabitInv
<1>1. Framed' /\ body' = body
  BY HabitFrame
<1>2. /\ DOMAIN habit' = DOMAIN habit /\ habit'.tick = habit.tick /\ habit'.sheet = habit.sheet
      /\ habit'.added = habit.added /\ habit'.since = habit.since
      /\ habit'.cleared = habit.cleared /\ habit'.lost = habit.lost /\ habit'.log = log
  BY DEF HabitTyped
<1>3. HabitTyped'
  BY <1>1, <1>2 DEF HabitTyped
<1> QED BY <1>2, <1>3, SheetsRest DEF Columned

LEMMA HabitRowSteps ==
    ASSUME HabitInv, NEW r \in Request,
           \/ CreateHabit(r) \/ UpdateHabit(r) \/ DeleteHabit(r) \/ ArchiveHabit(r)
           \/ CheckIn(r) \/ RemoveCheckIn(r)
    PROVE  HabitInv'
<1> USE DEF HabitInv
<1>0. /\ HabitStep(r) /\ DOMAIN habit = {"sheet", "tick", "added", "since", "cleared", "lost", "row", "log"}
      /\ IsFiniteSet(DOMAIN habit.log) /\ \A e \in DOMAIN habit.log : e[2] \in Int
  BY DEF HabitStep, HabitTyped
<1>1. ASSUME NEW rows, habit' = [habit EXCEPT !.row = rows] PROVE HabitInv'
  <2>1. habit' = [habit EXCEPT !.row = rows, !.log = habit.log]
    BY <1>0, <1>1
  <2> QED BY <1>0, <2>1, HabitRows
<1>2. CASE habit' = habit
  <2>1. HabitTyped'
    BY <1>0, <1>2, HabitFrame DEF HabitTyped
  <2> QED BY <1>0, <1>2, <2>1, SheetsRest DEF Columned
<1>3. CASE CreateHabit(r)
  <2>1. habit' = [habit EXCEPT !.row = [habit.row EXCEPT ![r] = [archived |-> FALSE]]]
    BY <1>3 DEF CreateHabit
  <2> QED BY <1>1, <2>1
<1>4. CASE UpdateHabit(r)
  <2>1. \/ habit' = habit
        \/ habit' = [habit EXCEPT !.row = [habit.row EXCEPT ![body[r].id].archived = body[r].archived]]
    BY <1>4 DEF UpdateHabit
  <2> QED BY <1>1, <1>2, <2>1
<1>5. CASE ArchiveHabit(r)
  <2>1. \/ habit' = habit
        \/ habit' = [habit EXCEPT !.row = [habit.row EXCEPT ![body[r].id].archived = TRUE]]
    BY <1>5 DEF ArchiveHabit
  <2> QED BY <1>1, <1>2, <2>1
<1>6. CASE DeleteHabit(r)
  <2> DEFINE h == body[r].id
             log == [e \in DOMAIN habit.log \ LogsOf(h) |-> habit.log[e]]
  <2>1. habit' = [habit EXCEPT !.row = [habit.row EXCEPT ![h] = Nothing], !.log = log]
    BY <1>6 DEF DeleteHabit
  <2>2. DOMAIN log \subseteq DOMAIN habit.log
    OBVIOUS
  <2> HIDE DEF log
  <2>3. IsFiniteSet(DOMAIN log)
    BY <1>0, <2>2, FS_Subset
  <2> QED BY <1>0, <2>1, <2>2, <2>3, HabitRows
<1>7. CASE RemoveCheckIn(r)
  <2> DEFINE log == [e \in DOMAIN habit.log \ {<<body[r].id, body[r].day>>} |-> habit.log[e]]
  <2>1. habit' = [habit EXCEPT !.row = habit.row, !.log = log]
    BY <1>0, <1>7 DEF RemoveCheckIn
  <2>2. DOMAIN log \subseteq DOMAIN habit.log
    OBVIOUS
  <2> HIDE DEF log
  <2>3. IsFiniteSet(DOMAIN log)
    BY <1>0, <2>2, FS_Subset
  <2> QED BY <1>0, <2>1, <2>2, <2>3, HabitRows
<1>8. CASE CheckIn(r)
  <2> DEFINE day == <<body[r].id, body[r].day>>
             log == [e \in DOMAIN habit.log \cup {day} |->
                        IF e = day THEN body[r].completed ELSE habit.log[e]]
  <2>1. CASE habit' = [habit EXCEPT !.log = log]
    <3>1. habit' = [habit EXCEPT !.row = habit.row, !.log = log]
      BY <1>0, <2>1
    <3>2. day[2] \in Int
      BY <1>8 DEF CheckIn, At, HabitTyped, HabitBodyFits
    <3> HIDE DEF day
    <3>3. DOMAIN log = DOMAIN habit.log \cup {day}
      OBVIOUS
    <3> HIDE DEF log
    <3>4. IsFiniteSet(DOMAIN log)
      BY <1>0, <3>3, FS_AddElement
    <3>5. \A e \in DOMAIN log : e[2] \in Int
      BY <1>0, <3>2, <3>3
    <3> QED BY <1>0, <3>1, <3>4, <3>5, HabitRows
  <2> QED BY <1>2, <1>8, <2>1 DEF CheckIn
<1> QED BY <1>3, <1>4, <1>5, <1>6, <1>7, <1>8

LEMMA HabitInvStays ==
    ASSUME HabitInv, NEW r \in Request, HabitStep(r) \/ (Abort(r) /\ HabitStays)
    PROVE  HabitInv'
<1>1. CASE HabitStays
  <2>1. habit' = habit /\ Framed' /\ body' = body
    BY <1>1, HabitFrame DEF HabitInv, HabitStays
  <2>2. HabitTyped'
    BY <2>1 DEF HabitInv, HabitTyped
  <2> QED BY <2>1, <2>2, SheetsRest DEF HabitInv, Columned
<1>2. CASE FindSheetLike(r) \/ LockChallenges(r) \/ CountChallenges(r)
  BY <1>1, <1>2 DEF FindSheetLike, LockChallenges, CountChallenges
<1>3. CASE RequireTracker(r) \/ ReadAgain(r) \/ FindUnticked(r) \/ RequireHabit(r) \/ CountLogs(r)
  BY <1>1, <1>3 DEF RequireTracker, ReadAgain, FindUnticked, RequireHabit, CountLogs
<1> QED BY <1>1, <1>2, <1>3, InsertTrackerStep, SetCheckStep, SwapItemsStep, ClearOrphansStep,
        DeleteSheetStep, HabitRowSteps
        DEF HabitStep

(* The days of a streak, up to 29 of them, are among the last thirty days. *)
LEMMA StreaksFit ==
    ASSUME HabitTyped, NEW h \in DOMAIN HabitStats
    PROVE  Min({HabitStats[h].streak, 29}) <= HabitStats[h].done
<1> DEFINE logs == {e \in LogsOf(h) : habit.log[e]}
           days == CompletedDays(h)
           last == IF HabitToday \in days THEN HabitToday ELSE HabitToday - 1
           runs == {n \in 0 .. Cardinality(days) : \A d \in (last - n + 1) .. last : d \in days}
           recent == {d \in days : d >= HabitToday - 29}
           streak == Max(runs)
           m == IF streak <= 29 THEN streak ELSE 29
           some == (last - m + 1) .. last
<1>1. logs \subseteq DOMAIN habit.log /\ IsFiniteSet(DOMAIN habit.log)
  BY DEF LogsOf, HabitTyped
<1>2. days = {e[2] : e \in logs} /\ \A d \in days : d \in Int
  BY <1>1 DEF CompletedDays, HabitTyped
<1>3. IsFiniteSet(days)
  <2> DEFINE day == [e \in logs |-> e[2]]
  <2>1. day \in Surjection(logs, days)
    BY <1>2 DEF Surjection
  <2>2. IsFiniteSet(logs)
    BY <1>1, FS_Subset
  <2> HIDE DEF logs, day, days
  <2> QED BY <2>1, <2>2, FS_Surjection
<1>4. HabitStats[h].streak = streak /\ HabitStats[h].done = Cardinality(recent)
  BY DEF HabitStats, Streak
<1> HIDE DEF days
<1>5. HabitToday \in Int /\ last \in Int /\ last >= HabitToday - 1 /\ Cardinality(days) \in Nat
  BY <1>3, HabitAssumption, FS_CardinalityType
<1> HIDE DEF last
<1>6. streak \in runs
  <2>1. 0 \in runs
    BY <1>5
  <2>2. runs \subseteq 0 .. Cardinality(days)
    OBVIOUS
  <2>3. IsFiniteSet(0 .. Cardinality(days)) /\ \A n \in 0 .. Cardinality(days) : n \in Int
    BY <1>5, FS_Interval
  <2> HIDE DEF runs
  <2>4. IsFiniteSet(runs) /\ runs \in SUBSET Int
    BY <2>2, <2>3, FS_Subset
  <2> QED BY <2>1, <2>4, MaxOf
<1>7. streak \in Nat /\ \A d \in (last - streak + 1) .. last : d \in days
  <2>1. \A n \in runs : n \in Nat /\ \A d \in (last - n + 1) .. last : d \in days
    BY <1>5
  <2> HIDE DEF runs, streak
  <2> QED BY <1>6, <2>1
<1> HIDE DEF runs, streak
<1>8. m \in Nat /\ m <= 29 /\ m <= streak
  BY <1>7
<1>9. Min({streak, 29}) = m
  BY <1>7, MinOfTwo
<1> HIDE DEF m
<1>10. some \subseteq recent
  <2>1. ASSUME NEW d \in some PROVE d \in days /\ d >= HabitToday - 29
    <3>1. d \in Int /\ d >= last - m + 1 /\ d <= last
      BY <1>5, <1>8, <2>1
    <3>2. d \in (last - streak + 1) .. last
      BY <1>5, <1>7, <1>8, <3>1
    <3>3. d >= HabitToday - 29
      BY <1>5, <1>8, <3>1
    <3> QED BY <1>7, <3>2, <3>3
  <2> QED BY <2>1
<1>11. Cardinality(some) = m
  <2>1. Cardinality(some) = IF last - m + 1 > last THEN 0 ELSE last - (last - m + 1) + 1
    BY <1>5, <1>8, FS_Interval
  <2> QED BY <1>5, <1>8, <2>1
<1> HIDE DEF some
<1>12. IsFiniteSet(recent)
  BY <1>3, FS_Subset
<1> HIDE DEF recent
<1>13. Cardinality(some) <= Cardinality(recent)
  BY <1>10, <1>12, FS_Subset
<1> QED BY <1>4, <1>9, <1>11, <1>13

(* Columns that were added stay, and are never more than a sheet may have; *)
(* a removal takes no tick in sight but those that landed after it had     *)
(* read the sheet; no cell is ticked before its day, and no streak is      *)
(* longer than the days behind it, however the sheets are created,         *)
(* changed, ticked and removed at once.                                    *)
THEOREM SheetsStayKept == HabitSpec => []SheetsKeep
<1>1. HabitInv /\ [HabitNext]_<<requests, habit>> => HabitInv'
  <2> SUFFICES ASSUME HabitInv, [HabitNext]_<<requests, habit>> PROVE HabitInv'
    OBVIOUS
  <2>1. CASE UNCHANGED <<requests, habit>>
    <3>1. body' = body /\ pc' = pc /\ mem' = mem /\ lock' = lock /\ habit' = habit
      BY <2>1 DEF requests
    <3>2. HabitTyped' /\ Columned'
      <4>1. HabitTyped /\ Columned
        BY DEF HabitInv
      <4>2. HabitTyped'
        BY <3>1, <4>1 DEF HabitTyped, Framed
      <4> QED BY <3>1, <4>1, <4>2 DEF Columned, Sheets, Columns
    <3>4. Ticked'
      BY <3>1 DEF HabitInv, Ticked, Sheets, OnADay, SheetDays, LastTickableDay, ElapsedDays
    <3>3. \A r \in Request : Unborn(r)' /\ ToTick(r)' /\ ToSwap(r)' /\ Overlooks(r)'
      BY <3>1 DEF HabitInv, Unborn, ToTick, ToSwap, Overlooks, Columns, Planned, Ended, At, OnADay,
                  SheetDays, LastTickableDay, ElapsedDays
    <3> QED BY <3>2, <3>3, <3>4 DEF HabitInv
  <2>2. ASSUME NEW r \in Request, HabitStep(r) \/ (Abort(r) /\ HabitStays) PROVE HabitInv'
    BY <2>2, HabitInvStays
  <2> QED BY <2>1, <2>2 DEF HabitNext
<1>2. HabitInv => SheetsKeep
  <2> SUFFICES ASSUME HabitInv PROVE SheetsKeep
    OBVIOUS
  <2>1. \A s \in Sheets : \A t \in InSight(s) :
           /\ t[2] <= SheetDays(habit.sheet[s])
           /\ habit.sheet[s].kind = "Namaz" => t[2] <= LastTickableDay(habit.sheet[s].month)
    BY DEF HabitInv, Ticked, InSight, TicksOf, OnADay
  <2>2. \A h \in DOMAIN HabitStats : Min({HabitStats[h].streak, 29}) <= HabitStats[h].done
    BY StreaksFit DEF HabitInv
  <2> QED BY <2>1, <2>2 DEF HabitInv, Columned, SheetsKeep
<1> QED BY <1>1, <1>2, HabitStarts, PTL DEF HabitSpec
=============================================================================
