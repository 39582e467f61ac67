------------------------------- MODULE Watch -------------------------------
(***************************************************************************)
(* SuspiciousActivityService, LoginMonitoringService and the filters that  *)
(* record a network whose sign-ins are being refused.  Attempts and flags  *)
(* are in the order they were written, and as old as the windows tell      *)
(* apart.                                                                  *)
(***************************************************************************)
EXTENDS Platform

CONSTANTS Network, WatchStart

FlagStatus == {"OPEN", "REVIEWING", "RESOLVED", "FALSE_POSITIVE"}
TryRow == [net : Network, user : User, why : {"ok", "wrong", "rate_limited"}, age : {"now", "week"}]
FlagRow == [net : Network, status : FlagStatus, age : {"hour", "old"}]

ASSUME WatchAssumption ==
    /\ DOMAIN WatchStart = {"tries", "flag", "found"}
    /\ WatchStart.tries \in Seq(TryRow) /\ WatchStart.flag \in Seq(FlagRow)
    /\ WatchStart.found = [r \in Request |-> {}]
    /\ Nothing \notin FlagStatus

WatchBodyFits(b) ==
    /\ b.op = "refused" => b.net \in Network /\ b.user \in User
    /\ b.op = "review" => b.status \in FlagStatus

ASSUME WatchBodies == \A s \in Scenario : \A b \in s.bodies : WatchBodyFits(b)

VARIABLE watch  \* tries: a sequence of [net, user, why, age]; why: "ok",
                \*   "wrong" or "rate_limited", age: "now" (15 minutes) or "week"
                \* flag: a sequence of [net, status, age], age: "hour" or "old"
                \* found: the networks each check of this hour found to be
                \*   over the threshold

WatchInit == watch = WatchStart

WatchOnly == UNCHANGED platform /\ PlatformOnly
WatchReads == UNCHANGED watch /\ WatchOnly

Threshold == 5

(* A refused try counts as a failed one.                                   *)
Failures(n, ages) ==
    {t \in DOMAIN watch.tries :
        LET try == watch.tries[t] IN try.net = n /\ try.why # "ok" /\ try.age \in ages}

(***************************************************************************)
(* LoginRateLimitFilter                                                    *)
(***************************************************************************)
Refusals(n) == {t \in Failures(n, {"now"}) : watch.tries[t].why = "rate_limited"}

CountRefusals(r) ==
    /\ At(r, "refused", "start")
    /\ IF Refusals(body[r].net) = {} THEN Await(r, "insert-try") ELSE Finish(r)
    /\ WatchReads

RecordRefusal(r) ==
    /\ At(r, "refused", "insert-try")
    /\ watch' = [watch EXCEPT !.tries = Append(@, [net |-> body[r].net, user |-> body[r].user,
                                                    why |-> "rate_limited", age |-> "now"])]
    /\ Finish(r)
    /\ WatchOnly

(***************************************************************************)
(* SuspiciousActivityService                                               *)
(***************************************************************************)
OverThreshold == {n \in Network : Cardinality(Failures(n, {"now"})) >= Threshold}

ReadFailures(r) ==
    /\ At(r, "check", "enter")
    /\ Keep(r, "look-for-flag", [left |-> OverThreshold, net |-> Nothing])
    /\ watch' = [watch EXCEPT !.found[r] = OverThreshold]
    /\ WatchOnly

FlagsOf(n) == {f \in DOMAIN watch.flag : watch.flag[f].net = n}

(* Bug: any flag of the network will do, however old.                      *)
EverFlagged(n) == FlagsOf(n)

Recent(n) == {f \in FlagsOf(n) : watch.flag[f].age = "hour"}

(* One network at a time.                                                  *)
LookForFlag(r) ==
    /\ At(r, "check", "look-for-flag")
    /\ IF mem[r].left = {} THEN Await(r, "audit")
       ELSE \E n \in mem[r].left :
              Keep(r, IF Recent(n) = {} THEN "raise-flag" ELSE "look-for-flag",
                   [left |-> mem[r].left \ {n}, net |-> n])
    /\ WatchReads

RaiseFlag(r) ==
    /\ At(r, "check", "raise-flag")
    /\ watch' = [watch EXCEPT !.flag = Append(@, [net |-> mem[r].net, status |-> "OPEN", age |-> "hour"])]
    /\ Await(r, "look-for-flag")
    /\ WatchOnly

RequireFlag(r) ==
    /\ At(r, "review", "enter")
    /\ IF body[r].flag \in DOMAIN watch.flag THEN Await(r, "save-flag") ELSE Finish(r)
    /\ WatchReads

(* The flag and its audit row at once.                                     *)
ReviewFlag(r) ==
    /\ At(r, "review", "save-flag")
    /\ watch' = [watch EXCEPT !.flag[body[r].flag].status = body[r].status]
    /\ auth' = AuditedAs(auth, r)
    /\ Finish(r)
    /\ UNCHANGED <<platform, desk, admin, referralTables>>

NeedsALook == {f \in DOMAIN watch.flag : watch.flag[f].status \in {"OPEN", "REVIEWING"}}

(***************************************************************************)
(* LoginMonitoringService.summary()                                        *)
(***************************************************************************)
Newest(ids) == CHOOSE i \in ids : \A j \in ids : j <= i

(* pausedNetworks(): each network once, from its newest refusal.           *)
Paused ==
    {watch.tries[Newest(Refusals(n))] : n \in {m \in Network : Refusals(m) # {}}}

FailedOn(n) == Cardinality(Failures(n, {"now", "week"}))

(* describeNetworks(): whom each network tried, and its newest flag.       *)
Described(n) ==
    LET failed == Failures(n, {"now", "week"})
    IN  [emails |-> {watch.tries[t].user : t \in failed},
         account |-> IF failed = {} THEN Nothing ELSE watch.tries[Newest(failed)].user,
         flag |-> IF FlagsOf(n) = {} THEN Nothing ELSE watch.flag[Newest(FlagsOf(n))].status]

(***************************************************************************)
(* An hour passes; a check takes less than that.                           *)
(***************************************************************************)
Hour ==
    /\ \E i \in DOMAIN watch.flag : watch.flag[i].age = "hour"
    /\ \A r \in Request : body[r].op \in {"check", "refused"} => pc[r] \in {"start", "done", "failed"}
    /\ watch' = [tries |-> [t \in DOMAIN watch.tries |-> [watch.tries[t] EXCEPT !.age = "week"]],
                 flag |-> [f \in DOMAIN watch.flag |-> [watch.flag[f] EXCEPT !.age = "old"]],
                 found |-> [r \in Request |-> {}]]
    /\ UNCHANGED requests
    /\ WatchOnly

WatchOps == {"check", "review"}

WatchStep(r) ==
    \/ Authenticate(r, WatchOps) /\ UNCHANGED <<watch, platform, desk, admin>>
    \/ CountRefusals(r) \/ RecordRefusal(r)
    \/ ReadFailures(r) \/ LookForFlag(r) \/ RaiseFlag(r) \/ RequireFlag(r) \/ ReviewFlag(r)

(***************************************************************************)
(* Properties                                                              *)
(***************************************************************************)

(* A check that was answered leaves every network that it found over the   *)
(* threshold with a flag of this hour, whichever of the checks that ran at *)
(* the same time raised it; a network whose sign-ins are refused is shown  *)
(* once, however many refusals raced, and a flag that the sidebar shows as *)
(* open is one that the tab counts.                                        *)
CheckedFlagged ==
    /\ \A r \in Request : pc[r] = "done" =>
          \A n \in watch.found[r] : \E f \in FlagsOf(n) : watch.flag[f].age = "hour"
    /\ \A p, q \in Paused : p.net = q.net => p = q
    /\ \A p \in Paused : FailedOn(p.net) > 0 /\ p.user \in Described(p.net).emails
    /\ \A n \in Network : Described(n).flag \in {"OPEN", "REVIEWING"} =>
          FlagsOf(n) \cap NeedsALook # {}
=============================================================================
