------------------------------ MODULE Platform ------------------------------
(***************************************************************************)
(* SettingsService and its cached copy, the MaintenanceMiddleware in front *)
(* of the customers' API, FeatureFlagsService, and PlatformService, which  *)
(* shows all of that to the customer app.  The server is one process.      *)
(***************************************************************************)
EXTENDS Support

CONSTANTS Bucket,  \* of each user, for the one flag: 0 to 99
          PlatformStart

(* A process starts with no copy of the settings.                          *)
ASSUME PlatformAssumption ==
    DOMAIN PlatformStart = {"closed", "cache", "flag"} /\ PlatformStart.cache = Nothing

VARIABLE platform  \* closed: the maintenance switch in the table
                   \* cache: Nothing or [closed, fresh, crossed]; fresh: not
                   \*   yet five seconds old, crossed: a change was committed
                   \*   between the read that it holds and its being kept
                   \* flag: [on, percent, plans] or Nothing

PlatformInit == platform = PlatformStart

PlatformOnly == UNCHANGED desk /\ DeskOnly
PlatformReads == UNCHANGED platform /\ PlatformOnly

(***************************************************************************)
(* SettingsService.update()                                                *)
(***************************************************************************)
ReadBefore(r) ==
    /\ At(r, "settings", "enter")
    /\ Await(r, "save-settings")
    /\ PlatformReads

(* The settings and their audit row at once.                               *)
SaveSettings(r) ==
    /\ At(r, "settings", "save-settings")
    /\ platform' = [platform EXCEPT !.closed = body[r].closed]
    /\ auth' = AuditedAs(auth, r)
    /\ Await(r, "clear-cache")
    /\ UNCHANGED <<desk, admin, referralTables>>

(* Bug: the copy is left until its time is over.                           *)
LeaveCache(r) ==
    /\ At(r, "settings", "clear-cache")
    /\ Finish(r)
    /\ PlatformReads

ClearCache(r) ==
    /\ At(r, "settings", "clear-cache")
    /\ platform' = [platform EXCEPT !.cache = Nothing]
    /\ Finish(r)
    /\ PlatformOnly

(***************************************************************************)
(* getCached(), which MaintenanceMiddleware.use() asks about a customer's   *)
(* request and publicInfo() for the app.                                   *)
(***************************************************************************)
OpenPaths == {"health", "sign-in", "refresh", "logout"}

Cached == platform.cache # Nothing /\ platform.cache.fresh

(* Open paths go through; "platform" is open, but asks to show the switch. *)
Ask(r) ==
    /\ At(r, "app", "start")
    /\ IF body[r].path \in OpenPaths \/ Cached THEN Finish(r) ELSE Await(r, "read-settings")
    /\ PlatformReads

(* A request goes through, too, when the switch cannot be read.            *)
Get(r) ==
    /\ At(r, "app", "read-settings")
    /\ Keep(r, "fill-cache", [closed |-> platform.closed]) \/ Finish(r)
    /\ PlatformReads

FillCache(r) ==
    /\ At(r, "app", "fill-cache")
    /\ platform' = [platform EXCEPT
                      !.cache = [closed |-> mem[r].closed, fresh |-> TRUE,
                                 crossed |-> mem[r].closed # platform.closed]]
    /\ Finish(r)
    /\ PlatformOnly

(* Five seconds pass.                                                      *)
Lapse ==
    /\ Cached
    /\ platform' = [platform EXCEPT !.cache.fresh = FALSE]
    /\ UNCHANGED requests
    /\ PlatformOnly

(***************************************************************************)
(* FeatureFlagsService                                                     *)
(***************************************************************************)
FindFlag(r) ==
    /\ At(r, "new-flag", "enter")
    /\ IF platform.flag = Nothing THEN Await(r, "insert-flag") ELSE Finish(r)
    /\ PlatformReads

(* A key is unique.                                                        *)
InsertFlag(r) ==
    /\ At(r, "new-flag", "insert-flag")
    /\ platform' = IF platform.flag = Nothing THEN [platform EXCEPT !.flag = body[r].flag] ELSE platform
    /\ Finish(r)
    /\ PlatformOnly

UpdateFlag(r) ==
    /\ At(r, "flag", "enter")
    /\ IF platform.flag = Nothing
       THEN Finish(r) /\ UNCHANGED platform
       ELSE /\ platform' = [platform EXCEPT !.flag = Merged(@, body[r].set)]
            /\ Await(r, "audit")
    /\ PlatformOnly

IsOnFor(flag, u, plans) ==
    /\ flag.on
    /\ flag.plans # {} => plans \cap flag.plans # {}
    /\ Bucket[u] < flag.percent

(***************************************************************************)
(* PlatformService.forCustomer(), but for the settings                     *)
(***************************************************************************)
PlansOf(u) == IF workspaces[u] > 0 THEN {admin.plan[u]} ELSE {}

ForCustomer(u) ==
    [flag |-> platform.flag # Nothing /\ IsOnFor(platform.flag, u, PlansOf(u)),
     announcements |-> BannersFor(PlansOf(u))]

PlatformOps == {"settings", "new-flag", "flag"}

PlatformStep(r) ==
    \/ Authenticate(r, PlatformOps) /\ UNCHANGED <<platform, desk, admin>>
    \/ ReadBefore(r) \/ SaveSettings(r) \/ ClearCache(r)
    \/ Ask(r) \/ Get(r) \/ FillCache(r)
    \/ FindFlag(r) \/ InsertFlag(r) \/ UpdateFlag(r)

(***************************************************************************)
(* Properties                                                              *)
(***************************************************************************)

(* "update() clears it, so this process sees its own changes at once": the *)
(* copy that requests are answered from holds the settings as they are,    *)
(* but while a change is being made (or has failed after its commit), or   *)
(* when the read it holds was overtaken by a change.                       *)
CacheFollows ==
    \/ ~Cached \/ platform.cache.crossed \/ platform.cache.closed = platform.closed
    \/ \E r \in Request : body[r].op = "settings" /\ pc[r] \in {"clear-cache", "failed"}

(* Customers are shown only announcements that are active, and targeted   *)
(* ones only on a plan of theirs.                                          *)
ShownSound ==
    \A u \in User : \A n \in ForCustomer(u).announcements :
        /\ n \in ActiveBanners
        /\ desk.banner[n].plan # Nothing => workspaces[u] > 0

SettingsHeard == CacheFollows /\ ShownSound
=============================================================================
