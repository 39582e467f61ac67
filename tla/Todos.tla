-------------------------------- MODULE Todos --------------------------------
(***************************************************************************)
(* TodosService: one user's to-do lists, one for a date, and their tasks.  *)
(* A task's owner never changes; dates are numbers.                        *)
(***************************************************************************)
EXTENDS Requests

CONSTANTS
    MaxLists,       \* MAX_LISTS_PER_USER
    MaxTasks,       \* MAX_ITEMS_PER_LIST
    TodoStart

VARIABLE todo  \* list: its date by id; task: [list, completed] by id
               \* pushed: <<the date it was on, the one it is on>> of each
               \*   answered push

(* A list and a task are named after the request that makes them; at the   *)
(* start there is one list to a date, and every task is on a list.         *)
TodoIds == DOMAIN TodoStart.list

TodoTask == [list : TodoIds, completed : BOOLEAN]

ASSUME TodoAssumption ==
    LET list == TodoStart.list
        there == {l \in TodoIds : list[l] # Nothing}
    IN  /\ DOMAIN TodoStart = {"list", "task", "pushed"}
        /\ Request \subseteq TodoIds /\ IsFiniteSet(TodoIds)
        /\ Nothing \notin Int /\ Nothing \notin TodoTask
        /\ list \in [TodoIds -> Int \cup {Nothing}]
        /\ TodoStart.task \in [TodoIds -> TodoTask \cup {Nothing}]
        /\ TodoStart.pushed = [r \in Request |-> Nothing]
        /\ MaxLists \in Nat /\ Cardinality(there) <= MaxLists
        /\ \A r \in Request : list[r] = Nothing
        /\ \A l, m \in there : list[l] = list[m] => l = m
        /\ \A t \in TodoIds : TodoStart.task[t] # Nothing => TodoStart.task[t].list \in there

ASSUME TodoBodies ==
    \A b \in UNION {s.bodies : s \in Scenario} :
        /\ b.op = "todo-list" => b.date \in Int
        /\ b.op = "task" => b.list \in TodoIds
        /\ b.op = "check-task" => b.completed \in BOOLEAN

TodoInit == todo = TodoStart

TodoLists == {l \in DOMAIN todo.list : todo.list[l] # Nothing}

TasksOn(l) == {t \in DOMAIN todo.task : todo.task[t] # Nothing /\ todo.task[t].list = l}

Dated(d) == {l \in TodoLists : todo.list[l] = d}

TodoStays == UNCHANGED todo

(***************************************************************************)
(* Lists.  createWithinCap() is the same for create() and for the list a   *)
(* push creates.                                                           *)
(***************************************************************************)
FindDate(r) ==
    /\ At(r, "todo-list", "start")
    /\ IF Dated(body[r].date) # {} THEN Finish(r) ELSE Keep(r, "lock", [date |-> body[r].date])
    /\ TodoStays

(* Bug: the count does not wait.                                           *)
LockListsNot(r) ==
    /\ body[r].op \in {"todo-list", "push-task"} /\ pc[r] = "lock"
    /\ Await(r, "count")
    /\ TodoStays

LockLists(r) ==
    /\ body[r].op \in {"todo-list", "push-task"} /\ pc[r] = "lock"
    /\ Take(r, <<"todo-list", 1>>, "count")
    /\ TodoStays

CountLists(r) ==
    /\ body[r].op \in {"todo-list", "push-task"} /\ pc[r] = "count"
    /\ IF Cardinality(TodoLists) >= MaxLists THEN Finish(r) ELSE Await(r, "insert")
    /\ TodoStays

InsertList(r) ==
    /\ At(r, "todo-list", "insert")
    /\ todo' = IF Dated(mem[r].date) # {} THEN todo ELSE [todo EXCEPT !.list[r] = mem[r].date]
    /\ Finish(r)

DropList(r) ==
    LET l == body[r].id
    IN  /\ At(r, "drop-list", "start")
        /\ todo' = [todo EXCEPT !.list[l] = Nothing,
                                !.task = [t \in DOMAIN @ |-> IF t \in TasksOn(l) THEN Nothing ELSE @[t]]]
        /\ Finish(r)

(***************************************************************************)
(* Tasks                                                                   *)
(***************************************************************************)
FindList(r) ==
    LET l == body[r].list
    IN  /\ At(r, "task", "start")
        /\ IF todo.list[l] = Nothing \/ Cardinality(TasksOn(l)) >= MaxTasks
           THEN Finish(r) ELSE Await(r, "insert")
        /\ TodoStays

InsertTask(r) ==
    LET l == body[r].list
    IN  /\ At(r, "task", "insert")
        /\ todo' = IF todo.list[l] = Nothing THEN todo
                   ELSE [todo EXCEPT !.task[r] = [list |-> l, completed |-> FALSE]]
        /\ Finish(r)

(* requireItem(): the list, then the task, which must be on it.            *)
RequireList(r) ==
    /\ body[r].op \in {"check-task", "drop-task"} /\ pc[r] = "start"
    /\ IF todo.list[body[r].list] = Nothing THEN Finish(r) ELSE Await(r, "task")
    /\ TodoStays

RequireTask(r) ==
    LET b == body[r]
    IN  /\ b.op \in {"check-task", "drop-task"} /\ pc[r] = "task"
        /\ IF b.id \in TasksOn(b.list) THEN Await(r, "write") ELSE Finish(r)
        /\ TodoStays

UpdateTask(r) ==
    LET b == body[r]
    IN  /\ At(r, "check-task", "write")
        /\ todo' = IF todo.task[b.id] = Nothing THEN todo
                   ELSE [todo EXCEPT !.task[b.id].completed = b.completed]
        /\ Finish(r)

RemoveTask(r) ==
    /\ At(r, "drop-task", "write")
    /\ todo' = [todo EXCEPT !.task[body[r].id] = Nothing]
    /\ Finish(r)

(***************************************************************************)
(* moveItemToNextDay()                                                     *)
(***************************************************************************)
FindTask(r) ==
    LET b == body[r]
    IN  /\ At(r, "push-task", "start")
        /\ IF todo.list[b.list] # Nothing /\ b.id \in TasksOn(b.list)
           THEN Keep(r, "target", [date |-> todo.list[b.list] + 1]) ELSE Finish(r)
        /\ TodoStays

WithTarget(r, l) == Keep(r, "room", [date |-> mem[r].date, target |-> l])

FindTarget(r) ==
    LET there == Dated(mem[r].date)
    IN  /\ At(r, "push-task", "target")
        /\ IF there = {} THEN Await(r, "lock") ELSE \E l \in there : WithTarget(r, l)
        /\ TodoStays

(* The target's row is taken as it was read.  The transaction's lock ends  *)
(* with the insert; who loses the race reads the winner's list.            *)
InsertTarget(r) ==
    LET there == Dated(mem[r].date)
    IN  /\ At(r, "push-task", "insert")
        /\ IF there # {} THEN pc' = [pc EXCEPT ![r] = "lost"] /\ UNCHANGED <<mem, todo>>
           ELSE /\ todo' = [todo EXCEPT !.list[r] = mem[r].date]
                /\ pc' = [pc EXCEPT ![r] = "room"]
                /\ mem' = [mem EXCEPT ![r] = [date |-> @.date, target |-> r]]
        /\ lock' = [lock EXCEPT ![r] = {}]
        /\ UNCHANGED body

FindWinner(r) ==
    LET there == Dated(mem[r].date)
    IN  /\ At(r, "push-task", "lost")
        /\ IF there = {} THEN Finish(r) ELSE \E l \in there : WithTarget(r, l)
        /\ TodoStays

CountTasks(r) ==
    /\ At(r, "push-task", "room")
    /\ IF Cardinality(TasksOn(mem[r].target)) >= MaxTasks THEN Finish(r) ELSE Await(r, "move")
    /\ TodoStays

(* Wherever the task is by now.                                            *)
MoveTask(r) ==
    LET t == body[r].id
    IN  /\ At(r, "push-task", "move")
        /\ todo' = IF todo.task[t] = Nothing \/ todo.list[mem[r].target] = Nothing THEN todo
                   ELSE [todo EXCEPT !.task[t].list = mem[r].target,
                                     !.pushed[r] = <<mem[r].date - 1, todo.list[mem[r].target]>>]
        /\ Finish(r)

TodoStep(r) ==
    \/ FindDate(r) \/ LockLists(r) \/ CountLists(r) \/ InsertList(r) \/ DropList(r)
    \/ FindList(r) \/ InsertTask(r) \/ RequireList(r) \/ RequireTask(r) \/ UpdateTask(r)
    \/ RemoveTask(r) \/ FindTask(r) \/ FindTarget(r) \/ InsertTarget(r) \/ FindWinner(r)
    \/ CountTasks(r) \/ MoveTask(r)

(***************************************************************************)
(* Properties                                                              *)
(***************************************************************************)

(* There are no more lists than the cap, one to a date, though creates and *)
(* pushes race for the last place and for the next day; a task is on a     *)
(* list that exists, and a push has moved it by one day.                   *)
ListsSound ==
    /\ Cardinality(TodoLists) <= MaxLists
    /\ \A l \in TodoLists : Dated(todo.list[l]) = {l}
    /\ \A t \in DOMAIN todo.task : todo.task[t] # Nothing => todo.task[t].list \in TodoLists
    /\ \A r \in Request : todo.pushed[r] # Nothing => todo.pushed[r][2] = todo.pushed[r][1] + 1
=============================================================================
