------------------------------- MODULE Shelves -------------------------------
(***************************************************************************)
(* BooksService and SkillsService over common/shelf.ts: what one user      *)
(* wants to read or learn, is at, or has done, with the log of a day's     *)
(* learning.  Books are as skills without a log.                           *)
(*                                                                         *)
(* updatedAt is a count of the writes to the row.  All of it happens on    *)
(* one day, and dates are kept only as set or not.                         *)
(***************************************************************************)
EXTENDS Requests, FiniteSetsExt

CONSTANTS
    MaxOnShelf,  \* MAX_BOOKS or MAX_SKILLS, by kind
    ShelfStart

(* An item is named after the request that creates it.                     *)
ShelfIds == DOMAIN ShelfStart.item
Kinds == {"book", "skill"}

ItemRow ==
    [kind : Kinds, status : {"todo", "doing", "done"}, progress : Nat, total : Nat \ {0},
     logged : Nat, started : BOOLEAN, updatedAt : Nat]

(* A shelf tells the progress of what is on it.                            *)
Settled(item) ==
    /\ item.status = "done" <=> item.progress = item.total
    /\ item.status = "todo" => item.progress = 0
    /\ item.progress \in 0 .. item.total /\ item.logged \in 0 .. item.progress

ASSUME ShelfAssumption ==
    LET there(kind) == {i \in ShelfIds : ShelfStart.item[i] # Nothing /\ ShelfStart.item[i].kind = kind}
    IN  /\ DOMAIN ShelfStart = {"item", "log", "goal"}
        /\ Request \subseteq ShelfIds /\ IsFiniteSet(ShelfIds)
        /\ Nothing \notin ItemRow
        /\ MaxOnShelf \in [Kinds -> Nat]
        /\ ShelfStart.item \in [ShelfIds -> ItemRow \cup {Nothing}]
        /\ ShelfStart.log \in [ShelfIds -> Nat]
        /\ \A r \in Request : ShelfStart.item[r] = Nothing
        /\ \A kind \in Kinds : Cardinality(there(kind)) <= MaxOnShelf[kind]
        /\ \A i \in ShelfIds : /\ ShelfStart.item[i] # Nothing => Settled(ShelfStart.item[i])
                               /\ ShelfStart.log[i] # 0 => i \in there("skill")

Sent(change, f) == f \in DOMAIN change

ChangeFits(change) ==
    /\ Sent(change, "total") => change.total \in Nat \ {0}
    /\ Sent(change, "progress") => change.progress \in Nat
    /\ Sent(change, "status") => change.status \in {"todo", "doing", "done"}

ShelfBodyFits(b) ==
    /\ b.op = "shelve" => b.kind \in Kinds /\ ChangeFits(b.change) /\ Sent(b.change, "total")
    /\ b.op = "progress" => b.id \in ShelfIds /\ ChangeFits(b.change)
    /\ b.op = "unshelve" => b.id \in ShelfIds

ASSUME ShelfBodies == \A s \in Scenario : \A b \in s.bodies : ShelfBodyFits(b)

VARIABLE shelf  \* item: [kind, status, progress, total, logged, started,
                \*   updatedAt] by id; log: today's amount of each skill
                \* goal: the year's target, by kind

ShelfInit == shelf = ShelfStart

OnShelf(kind) == {i \in ShelfIds : shelf.item[i] # Nothing /\ shelf.item[i].kind = kind}

ShelfStays == UNCHANGED shelf

Refused == [refused |-> TRUE]

NewItem(b) ==
    [kind |-> b.kind, status |-> "todo", progress |-> 0, total |-> b.change.total, logged |-> 0,
     started |-> FALSE, updatedAt |-> 0]

(***************************************************************************)
(* settleShelf(): change has the fields that were sent.                    *)
(***************************************************************************)
Progress(from, change, total) ==
    CASE Sent(change, "status") /\ change.status = "done" -> total
      [] Sent(change, "status") /\ change.status = "todo" -> 0
      [] OTHER -> IF Sent(change, "progress") THEN change.progress
                  ELSE IF from.status # "done" THEN from.progress
                  ELSE IF Sent(change, "status") THEN 0 ELSE total

StatusOf(from, change, progress, total) ==
    IF Sent(change, "status") /\ change.status = "todo" THEN "todo"
    ELSE IF progress >= total THEN "done"
    ELSE IF Sent(change, "status") \/ progress > 0 \/ from.status = "done" THEN "doing"
    ELSE from.status

(* A progress sent with a move to done or to todo is not what the user     *)
(* reports.                                                                *)
Reported(change) ==
    Sent(change, "progress") /\ (Sent(change, "status") => change.status = "doing")

(* Over the total, or a progress on what has not been started.             *)
ShelfRefuses(change, progress, total) ==
    \/ progress > total
    \/ Sent(change, "progress") /\ change.progress > total
    \/ Sent(change, "status") /\ change.status = "todo" /\ Sent(change, "progress") /\ change.progress > 0

SettleShelf(from, change) ==
    LET total == IF Sent(change, "total") THEN change.total ELSE from.total
        progress == Progress(from, change, total)
        status == StatusOf(from, change, progress, total)
    IN  IF ShelfRefuses(change, progress, total) THEN Refused
        ELSE [from EXCEPT !.total = total, !.progress = progress, !.status = status,
                          !.started = status # "todo"]

(* buildUpdate(): the log is measured against what it has accounted for.   *)
LogDelta(from, change, settled) == IF Reported(change) THEN settled.progress - from.logged ELSE 0

Edited(from, change) ==
    LET settled == SettleShelf(from, change)
    IN  IF settled = Refused THEN Refused
        ELSE [settled EXCEPT
                !.logged = IF Reported(change) THEN settled.progress ELSE Min({@, settled.progress}),
                !.updatedAt = @ + 1]

(* An initial progress is ground covered before.                           *)
Created(b) ==
    LET settled == SettleShelf(NewItem(b), b.change)
    IN  IF settled = Refused THEN Refused ELSE [settled EXCEPT !.logged = settled.progress]

(* adjustLog(): a decrease takes away down to zero.                        *)
Adjusted(kind, amount, delta) == IF kind = "book" THEN 0 ELSE Max({0, amount + delta})

(***************************************************************************)
(* Operations                                                              *)
(***************************************************************************)
LockShelf(r) ==
    LET b == body[r]
    IN  /\ At(r, "shelve", "start")
        /\ IF Created(b) = Refused THEN Finish(r) ELSE Take(r, <<b.kind, 1>>, "count")
        /\ ShelfStays

CountShelf(r) ==
    /\ At(r, "shelve", "count")
    /\ IF Cardinality(OnShelf(body[r].kind)) >= MaxOnShelf[body[r].kind] THEN Finish(r) ELSE Await(r, "insert")
    /\ ShelfStays

InsertItem(r) ==
    /\ At(r, "shelve", "insert")
    /\ shelf' = [shelf EXCEPT !.item[r] = Created(body[r])]
    /\ Finish(r)

(* requireBook() or requireSkill(), on each of the three attempts.         *)
ReadItem(r) ==
    LET b == body[r]
        from == shelf.item[b.id]
        tries == IF mem[r] = Nothing THEN 1 ELSE mem[r].tries + 1
    IN  /\ At(r, "progress", "start")
        /\ IF from = Nothing \/ tries > 3 THEN Finish(r)
           ELSE IF Edited(from, b.change) = Refused THEN Finish(r)
           ELSE Keep(r, "swap", [from |-> from, tries |-> tries])
        /\ ShelfStays

WithEdit(r) ==
    LET b == body[r]
        from == mem[r].from
        to == Edited(from, b.change)
    IN  [shelf EXCEPT
            !.item[b.id] = to,
            !.log[b.id] = Adjusted(from.kind, @, LogDelta(from, b.change, to))]

(* Bug: the row is written whatever it has become.                         *)
WriteItem(r) ==
    /\ At(r, "progress", "swap")
    /\ shelf' = IF shelf.item[body[r].id] = Nothing THEN shelf ELSE WithEdit(r)
    /\ Finish(r)

(* compareAndSwap(), the log in the same commit.                           *)
SwapItem(r) ==
    LET now == shelf.item[body[r].id]
    IN  /\ At(r, "progress", "swap")
        /\ IF now # Nothing /\ now.updatedAt = mem[r].from.updatedAt
           THEN shelf' = WithEdit(r) /\ Finish(r)
           ELSE Await(r, "start") /\ ShelfStays

RemoveItem(r) ==
    LET i == body[r].id
    IN  /\ At(r, "unshelve", "start")
        /\ shelf' = IF shelf.item[i] = Nothing THEN shelf
                    ELSE [shelf EXCEPT !.item[i] = Nothing, !.log[i] = 0]
        /\ Finish(r)

(* setYearlyGoal() and clearYearlyGoal()                                   *)
SetGoal(r) ==
    /\ At(r, "year-goal", "start")
    /\ shelf' = [shelf EXCEPT !.goal[body[r].kind] = body[r].target]
    /\ Finish(r)

ShelfStep(r) ==
    \/ LockShelf(r) \/ CountShelf(r) \/ InsertItem(r) \/ ReadItem(r) \/ SwapItem(r)
    \/ RemoveItem(r) \/ SetGoal(r)

(* SkillsService.overview(): bySkill, today.                               *)
LearnedToday == [i \in {j \in ShelfIds : shelf.log[j] # 0} |-> shelf.log[i]]

(***************************************************************************)
(* Properties                                                              *)
(***************************************************************************)
Shown == [item |-> shelf.item, log |-> shelf.log]

(* What is shown when r is answered by itself, on what was shown before.   *)
After(s, r) ==
    LET b == body[r]
        from == s.item[b.id]
        to == Edited(from, b.change)
    IN  CASE b.op = "shelve" -> [item |-> [s.item EXCEPT ![r] = Created(b)], log |-> s.log]
          [] b.op = "unshelve" -> [item |-> [s.item EXCEPT ![b.id] = Nothing], log |-> [s.log EXCEPT ![b.id] = 0]]
          [] b.op = "progress" ->
               [item |-> [s.item EXCEPT ![b.id] = to],
                log |-> [s.log EXCEPT ![b.id] = Adjusted(from.kind, @, LogDelta(from, b.change, to))]]

(* "a concurrent change is re-derived from, not overwritten" and "a lost   *)
(* race can't double-count it": whatever changes the shelves and the day's *)
(* log is one request, answered by that step, that changes them as it      *)
(* would if it came now and ran by itself.                                 *)
OneByOne ==
    Shown' # Shown =>
        \E r \in Request : /\ body[r].op \in {"shelve", "unshelve", "progress"}
                           /\ pc[r] # "done" /\ pc'[r] = "done" /\ Shown' = After(Shown, r)

(* The caps hold, "logs are deleted with their skill, so every row's skill *)
(* is in it", and each shelf tells the progress of what is on it.          *)
ShelvesKept ==
    /\ \A kind \in Kinds : Cardinality(OnShelf(kind)) <= MaxOnShelf[kind]
    /\ DOMAIN LearnedToday \subseteq OnShelf("skill")
    /\ \A i \in ShelfIds : shelf.item[i] # Nothing => Settled(shelf.item[i])

(* Requests on the shelves come to what they would one after the other.    *)
ShelvesSerial == []ShelvesKept /\ [][OneByOne]_<<pc, shelf>>
=============================================================================
