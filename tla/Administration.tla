--------------------------- MODULE Administration ---------------------------
(***************************************************************************)
(* What admins do to accounts: AdminUsersService, AdminOwnersService,      *)
(* OwnerImpersonationService, PlatformUsersService and the parts of        *)
(* AdminAuthService that are about one's own account.  Every route is      *)
(* behind the guards of Sessions; b.user is the admin, b.target whom the   *)
(* request is about.                                                       *)
(***************************************************************************)
EXTENDS Sessions

CONSTANT AdminStart

VARIABLE admin  \* plan: of each owner's default workspace
                \* tracked: [status, plan] of the platform user, planLog: its
                \*   changes of plan as <<from, to>>, by request
                \* wiped: the owners whose data each reset has deleted

AdminInit == admin = AdminStart

Unrecorded == UNCHANGED <<auth, admin, referralTables>>
AccountsOnly == UNCHANGED <<admin, referralTables>>

AuditedAs(tables, r) == [tables EXCEPT !.audit[r] = body[r].op]

Audit(r) ==
    /\ pc[r] = "audit"
    /\ auth' = AuditedAs(auth, r)
    /\ Finish(r)
    /\ AccountsOnly

AdminOps == {"hire", "promote", "suspend", "activate", "password", "rename",
             "suspend-owner", "activate-owner", "plan", "wipe", "view", "end-view",
             "track", "track-plan"}

AccountOps ==
    {"provision", "info", "withdraw", "login", "exchange", "register", "refresh", "logout",
     "forgot", "reset"} \cup Guarded \cup AdminOps

ASSUME AccountBodies ==
    \A b \in UNION {s.bodies : s \in Scenario} :
        /\ b.op \in AccountOps => b.user \in User
        /\ b.op \in AdminOps => b.target \in User
        /\ b.op \in {"hire", "promote"} => b.role # "USER"
        /\ b.op = "withdraw" => b.business \in Business

(***************************************************************************)
(* AdminUsersService: the change, then its audit row, then, for a          *)
(* suspension, the end of the sessions; a crash can come in between.       *)
(***************************************************************************)
IsAdmin(u) == auth.status[u] # "NONE" /\ IsAdminRole(u)

EmailTaken(r) ==
    /\ At(r, "hire", "enter")
    /\ IF auth.status[body[r].target] = "NONE" THEN Await(r, "create") ELSE Finish(r)
    /\ Unrecorded

(* The user and its credential at once; the unique email refuses a second. *)
Hire(r) ==
    LET t == body[r].target
    IN  /\ At(r, "hire", "create")
        /\ IF auth.status[t] = "NONE"
           THEN /\ auth' = [auth EXCEPT !.status[t] = "ACTIVE", !.role[t] = body[r].role,
                                        !.password[t] = r]
                /\ Await(r, "audit")
           ELSE Finish(r) /\ UNCHANGED auth
        /\ AccountsOnly

(* Nobody changes their own role, or suspends themselves.                  *)
MayChange(b) == IsAdmin(b.target) /\ (b.op \in {"promote", "suspend"} => b.target # b.user)

FindAdmin(r) ==
    LET b == body[r]
    IN  /\ b.op \in {"promote", "suspend", "activate", "password"} /\ pc[r] = "enter"
        /\ IF MayChange(b) /\ (b.op = "activate" => auth.status[b.target] # "ACTIVE")
           THEN Await(r, "change") ELSE Finish(r)
        /\ Unrecorded

Changed(b, r) ==
    CASE b.op = "promote"  -> [auth EXCEPT !.role[b.target] = b.role]
      [] b.op = "suspend"  -> [auth EXCEPT !.status[b.target] = "SUSPENDED"]
      [] b.op = "activate" -> [auth EXCEPT !.status[b.target] = "ACTIVE"]
      [] b.op = "password" -> WithPassword(auth, b.target, r)

ChangeAdmin(r) ==
    LET b == body[r]
    IN  /\ b.op \in {"promote", "suspend", "activate", "password"} /\ pc[r] = "change"
        /\ auth' = Changed(b, r)
        /\ Await(r, CASE b.op = "suspend" -> "audit-first" [] b.op = "password" -> "sign-out"
                      [] OTHER -> "audit")
        /\ AccountsOnly

AuditFirst(r) ==
    /\ pc[r] = "audit-first"
    /\ auth' = AuditedAs(auth, r)
    /\ Await(r, "sign-out")
    /\ AccountsOnly

SignOut(r) ==
    /\ pc[r] = "sign-out"
    /\ EndAll(body[r].target)
    /\ IF body[r].op = "password" THEN Await(r, "audit") ELSE Finish(r)
    /\ UNCHANGED admin

(* updateProfile(): the name and its audit row at once.                    *)
Rename(r) ==
    /\ At(r, "rename", "enter")
    /\ auth' = IF IsAdmin(body[r].user) THEN AuditedAs(auth, r) ELSE auth
    /\ Finish(r)
    /\ AccountsOnly

(***************************************************************************)
(* AdminOwnersService: the change and its audit row at once.               *)
(***************************************************************************)
IsOwner(u) == auth.status[u] # "NONE" /\ ~IsAdminRole(u)

OwnerOps == {"suspend-owner", "activate-owner", "plan", "wipe"}

FindOwner(r) ==
    /\ body[r].op \in OwnerOps /\ pc[r] = "enter"
    /\ IF IsOwner(body[r].target) THEN Await(r, "commit") ELSE Finish(r)
    /\ Unrecorded

SetOwnerStatus(r) ==
    LET b == body[r]
        to == IF b.op = "suspend-owner" THEN "SUSPENDED" ELSE "ACTIVE"
    IN  /\ b.op \in {"suspend-owner", "activate-owner"} /\ pc[r] = "commit"
        /\ auth' = AuditedAs([auth EXCEPT !.status[b.target] = to], r)
        /\ IF b.op = "suspend-owner" THEN Await(r, "sign-out") ELSE Finish(r)
        /\ AccountsOnly

ChangeOwnerPlan(r) ==
    /\ At(r, "plan", "commit")
    /\ admin' = [admin EXCEPT !.plan[body[r].target] = body[r].plan]
    /\ auth' = AuditedAs(auth, r)
    /\ Finish(r)
    /\ UNCHANGED referralTables

(* resetOwnerData(): what it deletes is the other modules' data.           *)
WipeOwner(r) ==
    /\ At(r, "wipe", "commit")
    /\ admin' = [admin EXCEPT !.wiped[r] = body[r].target]
    /\ auth' = AuditedAs(auth, r)
    /\ Finish(r)
    /\ UNCHANGED referralTables

(***************************************************************************)
(* OwnerImpersonationService                                               *)
(***************************************************************************)

(* The session is the customer's; it is opened as any other.               *)
StartView(r) ==
    LET t == body[r].target
    IN  /\ At(r, "view", "enter")
        /\ IF IsOwner(t) /\ auth.status[t] = "ACTIVE"
           THEN Await(r, "view-hook") ELSE Finish(r)
        /\ Unrecorded

ViewHook(r) ==
    /\ pc[r] = "view-hook"
    /\ IF auth.status[body[r].target] = "ACTIVE" THEN Await(r, "open-view") ELSE Finish(r)
    /\ Unrecorded

OpenView(r) ==
    /\ pc[r] = "open-view"
    /\ auth' = [auth EXCEPT !.session[r] = NewSession(body[r].target, Nothing)]
    /\ Await(r, "mark-view")
    /\ AccountsOnly

(* Bug: the tokens are issued for the session as it was opened.            *)
LeaveUnmarked(r) ==
    /\ pc[r] = "mark-view"
    /\ auth' = IF auth.session[r] = Nothing THEN auth ELSE AuditedAs(auth, r)
    /\ Finish(r)
    /\ AccountsOnly

(* The mark and the audit row at once; the update fails if the customer's  *)
(* sessions have been ended meanwhile.                                     *)
MarkView(r) ==
    /\ pc[r] = "mark-view"
    /\ auth' = IF auth.session[r] = Nothing THEN auth
               ELSE AuditedAs([auth EXCEPT !.session[r].viewer = body[r].user], r)
    /\ Finish(r)
    /\ AccountsOnly

Views(b) == {s \in SessionsOf(b.target) : auth.session[s].viewer = b.user}

ListViews(r) ==
    /\ At(r, "end-view", "enter")
    /\ IF Views(body[r]) = {} THEN Finish(r) ELSE Keep(r, "end-views", Views(body[r]))
    /\ Unrecorded

EndView(r) ==
    /\ At(r, "end-view", "end-views")
    /\ \E s \in mem[r] :
        /\ auth' = [auth EXCEPT !.session = Revoked({s})]
        /\ IF mem[r] = {s} THEN Await(r, "audit") ELSE Keep(r, "end-views", mem[r] \ {s})
    /\ AccountsOnly

(***************************************************************************)
(* PlatformUsersService: [status, plan] of one tracked account, each       *)
(* change with its audit row, and a log of its plans.                      *)
(***************************************************************************)
RequireTracked(r) ==
    /\ body[r].op \in {"track", "track-plan"} /\ pc[r] = "enter"
    /\ Keep(r, "track", admin.tracked.plan)
    /\ Unrecorded

SetTracked(r) ==
    /\ At(r, "track", "track")
    /\ admin' = [admin EXCEPT !.tracked.status = body[r].status]
    /\ auth' = AuditedAs(auth, r)
    /\ Finish(r)
    /\ UNCHANGED referralTables

ChangeTrackedPlan(r) ==
    /\ At(r, "track-plan", "track")
    /\ admin' = [admin EXCEPT !.tracked.plan = body[r].plan,
                              !.planLog[r] = <<mem[r], body[r].plan>>]
    /\ auth' = AuditedAs(auth, r)
    /\ Finish(r)
    /\ UNCHANGED referralTables

AdminStep(r) ==
    \/ (Authenticate(r, AdminOps) \/ SessionStep(r)) /\ UNCHANGED admin
    \/ Audit(r) \/ EmailTaken(r) \/ Hire(r) \/ FindAdmin(r) \/ ChangeAdmin(r)
    \/ AuditFirst(r) \/ SignOut(r) \/ Rename(r)
    \/ FindOwner(r) \/ SetOwnerStatus(r) \/ ChangeOwnerPlan(r) \/ WipeOwner(r)
    \/ StartView(r) \/ ViewHook(r) \/ OpenView(r) \/ MarkView(r) \/ ListViews(r) \/ EndView(r)
    \/ RequireTracked(r) \/ SetTracked(r) \/ ChangeTrackedPlan(r)
=============================================================================
