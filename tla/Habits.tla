-------------------------------- MODULE Habits -------------------------------
(***************************************************************************)
(* HabitsService, habits and their daily check-ins, and                    *)
(* HabitTrackersService, the sheets of a month, of a Ramadan or of a       *)
(* challenge, whose cells are ticked.  One user; today is HabitToday, in   *)
(* the month HabitMonth.  A column's name stands for all its spellings.    *)
(***************************************************************************)
EXTENDS Requests, Sequences, FiniteSetsExt

CONSTANTS
    HabitToday,
    HabitMonth,
    HabitName,     \* the names a column may have
    MonthDays,     \* the days of a month
    MaxChallenges,
    MaxItems,      \* the columns a sheet may have
    HabitStart

SheetOps == {"tick", "add-column", "drop-column", "drop-sheet"}

SheetRow ==
    [kind : {"Namaz", "Ramadan", "Others"}, month : Int \cup {Nothing}, days : Nat \cup {Nothing},
     items : Seq(HabitName)]

(* The sheets are in order at the start: a cell that is ticked is of a     *)
(* sheet there is, and of a day of it that has come.                       *)
ASSUME HabitAssumption ==
    /\ DOMAIN HabitStart = {"sheet", "tick", "added", "since", "cleared", "lost", "row", "log"}
    /\ Request \subseteq DOMAIN HabitStart.sheet /\ Nothing \notin SheetRow
    /\ HabitStart.sheet \in [DOMAIN HabitStart.sheet -> SheetRow \cup {Nothing}]
    /\ \A r \in Request : HabitStart.sheet[r] = Nothing
    /\ \A s \in DOMAIN HabitStart.sheet :
          HabitStart.sheet[s] # Nothing =>
             IsInjective(HabitStart.sheet[s].items) /\ Len(HabitStart.sheet[s].items) <= MaxItems
    /\ \A t \in HabitStart.tick :
          LET sheet == HabitStart.sheet[t[1]]
          IN  /\ t[1] \in DOMAIN HabitStart.sheet /\ sheet # Nothing
              /\ t[2] <= (IF sheet.days # Nothing THEN sheet.days ELSE MonthDays)
              /\ sheet.kind = "Namaz" =>
                    \/ sheet.month < HabitMonth /\ t[2] <= MonthDays
                    \/ sheet.month = HabitMonth /\ t[2] <= HabitToday
    /\ HabitStart.added = {} /\ HabitStart.since = {}
    /\ HabitStart.cleared = {} /\ HabitStart.lost = {}
    /\ IsFiniteSet(DOMAIN HabitStart.log) /\ \A e \in DOMAIN HabitStart.log : e[2] \in Int
    /\ MaxItems \in Nat /\ MaxItems >= 2 /\ HabitToday \in Nat /\ HabitMonth \in Int /\ {"Fajr", "Isha", "Roza"} \subseteq HabitName

(* What a request says fits the sheets.                                    *)
HabitBodyFits(b) ==
    /\ b.op = "sheet" =>
          /\ b.kind \in {"Namaz", "Ramadan", "Others"}
          /\ b.month \in Int \cup {Nothing} /\ b.days \in Nat \cup {Nothing}
    /\ b.op \in SheetOps => b.id \in DOMAIN HabitStart.sheet
    /\ b.op = "tick" => b.checked \in BOOLEAN
    /\ b.op \in {"add-column", "drop-column"} => b.item \in HabitName
    /\ b.op = "check-in" => b.day \in Int

ASSUME HabitBodies == \A s \in Scenario : \A b \in s.bodies : HabitBodyFits(b)

VARIABLE habit  \* sheet: [kind, month, days, items] by id, where only the
                \*   sheet of a month has no days and a challenge no month
                \* tick: the <<sheet, day, item>> that are ticked
                \* added: the <<sheet, item>> an answered request has added
                \*   and none has removed since
                \* since: the <<removal, tick>> of the ticks that landed on a
                \*   sheet after the removal had read it
                \* cleared: the <<removal, tick>> of the ticks in sight that
                \*   were taken for ticks of no column
                \* lost: those of the ticks in sight that went with the sheet
                \* row: the habits, [archived]; log: completed by <<habit, day>>

HabitInit == habit = HabitStart

Sheets == {i \in DOMAIN habit.sheet : habit.sheet[i] # Nothing}

HabitStays == UNCHANGED habit

StartItems(kind) ==
    CASE kind = "Namaz" -> <<"Fajr", "Isha">>
      [] kind = "Ramadan" -> <<"Roza">>
      [] kind = "Others" -> <<>>

EditableItems(kind) == kind # "Namaz"

Columns(s) == Range(habit.sheet[s].items)

TicksOf(s) == {t \in habit.tick : t[1] = s}

(* toView() leaves out a tick whose column is gone.                        *)
InSight(s) == {t \in TicksOf(s) : t[3] \in Columns(s)}

(***************************************************************************)
(* Days: a month that is over counts in full, this month up to now.        *)
(***************************************************************************)
SheetDays(sheet) == IF sheet.days # Nothing THEN sheet.days ELSE MonthDays

ElapsedDays(month) ==
    IF month < HabitMonth THEN MonthDays ELSE IF month = HabitMonth THEN HabitToday - 1 ELSE 0

LastTickableDay(month) == IF month = HabitMonth THEN HabitToday ELSE ElapsedDays(month)

(***************************************************************************)
(* Creating a sheet: b.kind, b.month, b.days                               *)
(***************************************************************************)
SheetTaken(b) ==
    \E s \in Sheets : habit.sheet[s].kind = b.kind /\ habit.sheet[s].month = b.month

FindSheetLike(r) ==
    LET b == body[r]
    IN  /\ At(r, "sheet", "start")
        /\ b.kind # "Others"
        /\ IF SheetTaken(b) THEN Finish(r) ELSE Await(r, "insert")
        /\ HabitStays

LockChallenges(r) ==
    /\ At(r, "sheet", "start")
    /\ body[r].kind = "Others"
    /\ Take(r, <<"challenges", 1>>, "count")
    /\ HabitStays

CountChallenges(r) ==
    /\ At(r, "sheet", "count")
    /\ IF Cardinality({s \in Sheets : habit.sheet[s].kind = "Others"}) >= MaxChallenges
       THEN Finish(r) ELSE Await(r, "insert")
    /\ HabitStays

(* The unique index refuses a second sheet of the month; to it, challenges *)
(* are all different.                                                      *)
InsertTracker(r) ==
    LET b == body[r]
    IN  /\ At(r, "sheet", "insert")
        /\ habit' = IF b.kind # "Others" /\ SheetTaken(b) THEN habit
                    ELSE [habit EXCEPT !.sheet[r] =
                            [kind |-> b.kind, month |-> b.month, days |-> b.days, items |-> StartItems(b.kind)]]
        /\ Finish(r)

(***************************************************************************)
(* requireTracker(), and what each operation asks of the sheet it has read *)
(***************************************************************************)
Tickable(b, sheet) ==
    /\ b.item \in Range(sheet.items)
    /\ b.day <= SheetDays(sheet)
    /\ b.checked /\ sheet.kind = "Namaz" => b.day <= LastTickableDay(sheet.month)

(* The plan of addItem() and of removeItem().                              *)
Planned(b, items) ==
    IF b.op = "add-column" THEN b.item \notin Range(items) /\ Len(items) < MaxItems
    ELSE b.item \in Range(items)

(* filter(): the name is there once.                                       *)
Without(items, name) ==
    LET k == CHOOSE i \in DOMAIN items : items[i] = name
    IN  [i \in 1 .. Len(items) - 1 |-> items[IF i < k THEN i ELSE i + 1]]

Changed(b, items) ==
    IF b.op = "add-column" THEN Append(items, b.item) ELSE Without(items, b.item)

MayGoOn(b, sheet) ==
    CASE b.op = "tick" -> Tickable(b, sheet)
      [] b.op \in {"add-column", "drop-column"} -> EditableItems(sheet.kind) /\ Planned(b, sheet.items)
      [] b.op = "drop-sheet" -> TRUE

RequireTracker(r) ==
    LET b == body[r]
    IN  /\ b.op \in SheetOps /\ pc[r] = "start"
        /\ IF habit.sheet[b.id] # Nothing /\ MayGoOn(b, habit.sheet[b.id])
           THEN Keep(r, "sheet", [items |-> habit.sheet[b.id].items, tries |-> 1]) ELSE Finish(r)
        /\ HabitStays

(* The removals of a sheet that have read it.                              *)
Removals(s) ==
    {q \in Request :
        body[q].op = "drop-sheet" /\ body[q].id = s /\ pc[q] \in {"sheet", "unticked", "delete"}}

(* An insert that skips what is there, or a delete; the foreign key wants  *)
(* the sheet to be there.                                                  *)
SetCheck(r) ==
    LET b == body[r]
        cell == {<<b.id, b.day, b.item>>}
    IN  /\ At(r, "tick", "sheet")
        /\ habit' = IF habit.sheet[b.id] = Nothing THEN habit
                    ELSE IF b.checked
                    THEN [habit EXCEPT !.tick = @ \cup cell,
                                       !.since = @ \cup (Removals(b.id) \X (cell \ habit.tick))]
                    ELSE [habit EXCEPT !.tick = @ \ cell]
        /\ Finish(r)

Swapped(b, items) ==
    [habit EXCEPT
        !.sheet[b.id].items = Changed(b, items),
        !.tick = {t \in @ : t[1] # b.id \/ t[3] # b.item},
        !.added = IF b.op = "add-column" THEN @ \cup {<<b.id, b.item>>} ELSE @ \ {<<b.id, b.item>>}]

(* editItems(): written only if the columns are still those read; if not,  *)
(* everything again, three times in all.                                   *)
SwapItems(r) ==
    LET b == body[r]
        sheet == habit.sheet[b.id]
    IN  /\ b.op \in {"add-column", "drop-column"} /\ pc[r] = "sheet"
        /\ IF sheet # Nothing /\ sheet.items = mem[r].items
           THEN habit' = Swapped(b, mem[r].items) /\ Finish(r)
           ELSE /\ IF mem[r].tries = 3 THEN Finish(r) ELSE Await(r, "again")
                /\ HabitStays

ReadAgain(r) ==
    LET b == body[r]
    IN  /\ pc[r] = "again"
        /\ IF habit.sheet[b.id] # Nothing /\ MayGoOn(b, habit.sheet[b.id])
           THEN Keep(r, "sheet", [items |-> habit.sheet[b.id].items, tries |-> mem[r].tries + 1])
           ELSE Finish(r)
        /\ HabitStays

(* remove(): first the ticks under no column of those it has read.  A      *)
(* column may have been added since.                                       *)
ClearOrphans(r) ==
    LET s == body[r].id
        gone == {t \in TicksOf(s) : t[3] \notin Range(mem[r].items)}
    IN  /\ At(r, "drop-sheet", "sheet")
        /\ habit' = [habit EXCEPT !.tick = @ \ gone,
                                  !.cleared = @ \cup ({r} \X (gone \cap InSight(s)))]
        /\ Await(r, "unticked")

(* Bug: the delete does not ask for a sheet without ticks.                 *)
FindAnySheet(r) ==
    LET s == body[r].id
    IN  /\ At(r, "drop-sheet", "unticked")
        /\ IF habit.sheet[s] # Nothing THEN Await(r, "delete") ELSE Finish(r)
        /\ HabitStays

(* Then the sheet, in one statement, which is yet two steps: what it looks *)
(* for, a sheet without ticks, it looks for in the snapshot it starts with,*)
FindUnticked(r) ==
    LET s == body[r].id
    IN  /\ At(r, "drop-sheet", "unticked")
        /\ IF habit.sheet[s] # Nothing /\ TicksOf(s) = {} THEN Await(r, "delete") ELSE Finish(r)
        /\ HabitStays

(* and the ticks that were committed since go with the row it deletes.     *)
Removed(r, s) ==
    [habit EXCEPT !.sheet[s] = Nothing, !.tick = @ \ TicksOf(s), !.lost = @ \cup ({r} \X InSight(s))]

DeleteSheet(r) ==
    LET s == body[r].id
    IN  /\ At(r, "drop-sheet", "delete")
        /\ habit' = IF habit.sheet[s] # Nothing THEN Removed(r, s) ELSE habit
        /\ Finish(r)

(***************************************************************************)
(* Habits                                                                  *)
(***************************************************************************)
HabitOps == {"edit-habit", "drop-habit", "check-in", "check-out"}

CreateHabit(r) ==
    /\ At(r, "habit", "start")
    /\ habit' = [habit EXCEPT !.row[r] = [archived |-> FALSE]]
    /\ Finish(r)

RequireHabit(r) ==
    /\ body[r].op \in HabitOps /\ pc[r] = "start"
    /\ IF habit.row[body[r].id] = Nothing THEN Finish(r) ELSE Await(r, "habit")
    /\ HabitStays

UpdateHabit(r) ==
    LET b == body[r]
    IN  /\ At(r, "edit-habit", "habit")
        /\ habit' = IF habit.row[b.id] = Nothing THEN habit
                    ELSE [habit EXCEPT !.row[b.id].archived = b.archived]
        /\ Finish(r)

LogsOf(h) == {e \in DOMAIN habit.log : e[1] = h}

CountLogs(r) ==
    /\ At(r, "drop-habit", "habit")
    /\ Await(r, IF LogsOf(body[r].id) = {} THEN "delete-habit" ELSE "archive-habit")
    /\ HabitStays

(* The logs go with the habit.                                             *)
DeleteHabit(r) ==
    LET h == body[r].id
    IN  /\ pc[r] = "delete-habit"
        /\ habit' = [habit EXCEPT !.row[h] = Nothing, !.log = [e \in DOMAIN @ \ LogsOf(h) |-> @[e]]]
        /\ Finish(r)

ArchiveHabit(r) ==
    LET h == body[r].id
    IN  /\ pc[r] = "archive-habit"
        /\ habit' = IF habit.row[h] = Nothing THEN habit ELSE [habit EXCEPT !.row[h].archived = TRUE]
        /\ Finish(r)

CheckIn(r) ==
    LET b == body[r]
    IN  /\ At(r, "check-in", "habit")
        /\ habit' = IF habit.row[b.id] = Nothing THEN habit
                    ELSE [habit EXCEPT !.log = [e \in DOMAIN @ \cup {<<b.id, b.day>>} |->
                                              IF e = <<b.id, b.day>> THEN b.completed ELSE @[e]]]
        /\ Finish(r)

RemoveCheckIn(r) ==
    LET b == body[r]
    IN  /\ At(r, "check-out", "habit")
        /\ habit' = [habit EXCEPT !.log = [e \in DOMAIN @ \ {<<b.id, b.day>>} |-> @[e]]]
        /\ Finish(r)

HabitStep(r) ==
    \/ FindSheetLike(r) \/ LockChallenges(r) \/ CountChallenges(r) \/ InsertTracker(r)
    \/ RequireTracker(r) \/ SetCheck(r) \/ SwapItems(r) \/ ReadAgain(r)
    \/ ClearOrphans(r) \/ FindUnticked(r) \/ DeleteSheet(r)
    \/ CreateHabit(r) \/ RequireHabit(r) \/ UpdateHabit(r) \/ CountLogs(r) \/ DeleteHabit(r)
    \/ ArchiveHabit(r) \/ CheckIn(r) \/ RemoveCheckIn(r)

(***************************************************************************)
(* What the pages show                                                     *)
(***************************************************************************)
CompletedDays(h) == {e[2] : e \in {f \in LogsOf(h) : habit.log[f]}}

(* computeStreaks(): the days in a row up to today, or up to yesterday as  *)
(* long as today is not logged.                                            *)
Streak(h) ==
    LET days == CompletedDays(h)
        last == IF HabitToday \in days THEN HabitToday ELSE HabitToday - 1
    IN  Max({n \in 0 .. Cardinality(days) : \A d \in (last - n + 1) .. last : d \in days})

(* getStats(), of the last 30 days.                                        *)
HabitStats ==
    [h \in {i \in DOMAIN habit.row : habit.row[i] # Nothing /\ ~habit.row[i].archived} |->
        LET done == Cardinality({d \in CompletedDays(h) : d >= HabitToday - 29})
        IN  [streak |-> Streak(h), done |-> done, rate |-> (200 * done + 30) \div 60]]

(***************************************************************************)
(* Properties                                                              *)
(***************************************************************************)

(* "two simultaneous adds of different names both land": a column that an  *)
(* answered request has added is there until a request removes it, no name *)
(* is a column twice ("two of the same name end as one success plus a      *)
(* 409"), and no race gives a sheet more columns than it may have.  A      *)
(* removal takes no tick that was in sight when it read the sheet, neither *)
(* as one of no column, though columns come and go until it clears those,  *)
(* nor with the sheet.  A cell of a calendar month is never ticked before  *)
(* its day, and the days of a streak are among those of the last month's   *)
(* figures.                                                                *)
SheetsKeep ==
    /\ \A s \in Sheets :
         IsInjective(habit.sheet[s].items) /\ Len(habit.sheet[s].items) <= MaxItems
    /\ \A e \in habit.added : e[1] \in Sheets => e[2] \in Columns(e[1])
    /\ habit.cleared \cup habit.lost \subseteq habit.since
    /\ \A s \in Sheets : \A t \in InSight(s) :
         /\ t[2] <= SheetDays(habit.sheet[s])
         /\ habit.sheet[s].kind = "Namaz" => t[2] <= LastTickableDay(habit.sheet[s].month)
    /\ \A h \in DOMAIN HabitStats : Min({HabitStats[h].streak, 29}) <= HabitStats[h].done

(* "A sheet can only be deleted while it has no ticked cells", "as ONE     *)
(* conditional delete (checks: none) so a tick landing between a 'has any  *)
(* ticks?' read and the delete can't slip through": no sheet takes a tick  *)
(* in sight with it.                                                       *)
OnlyUntickedGo == habit.lost = {}
=============================================================================
