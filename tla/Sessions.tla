------------------------------ MODULE Sessions ------------------------------
(***************************************************************************)
(* Signing in and out, passwords and reset links: SignInService,           *)
(* UserAuthService and AdminAuthService over AuthSessionsService,          *)
(* CredentialsService and UserSessionsService, and the guards in front of  *)
(* the routes.  A sign-in on the user side provisions the account, as      *)
(* Referrals has it.                                                       *)
(*                                                                         *)
(* A session, its device and a reset link are named after the request that *)
(* makes them, and a password after the request that sets it.  A request   *)
(* that comes with a token or a link comes with any of its user's.  An     *)
(* expired link is refused as a used one and is not kept apart from it.    *)
(***************************************************************************)
EXTENDS Referrals

CONSTANT AuthStart  \* the tables at the start

VARIABLE auth  \* status, role, password of each user
               \* session: [user, by (the password it was opened with, if any),
               \*   since, viewer (who impersonates the user), live] by id
               \* device: [user, revoked] by the id of its session
               \* link: [user, used, resets] by id
               \* set: whose password each request has set
               \* audit: the actions each request has put on record
               \* attempts: how often signing in to each account has failed

LinkRow == [user : User, used : BOOLEAN, resets : {0, 1}]

ASSUME AuthAssumption ==
    LET session == AuthStart.session
        link == AuthStart.link
    IN  /\ DOMAIN AuthStart = {"status", "role", "password", "session", "device", "link",
                               "set", "audit", "attempts"}
        /\ DOMAIN AuthStart.status = User /\ DOMAIN AuthStart.role = User
        /\ Request \subseteq DOMAIN session /\ Request \subseteq DOMAIN link
        /\ \A s \in DOMAIN session : session[s] # Nothing =>
              s \notin Request /\ DOMAIN session[s] = {"user", "by", "since", "viewer", "live"}
        /\ \A l \in DOMAIN link : link[l] # Nothing => link[l] \in LinkRow /\ link[l].resets = 0
        /\ Nothing \notin LinkRow
        /\ AuthStart.set = [r \in Request |-> Nothing]

AuthInit == auth = AuthStart

IsAdminRole(u) == auth.role[u] # "USER"

SessionsOf(u) == {s \in DOMAIN auth.session :
                    auth.session[s] # Nothing /\ auth.session[s].user = u}

(* The ids whose token, cookie or link somebody holds.                     *)
Held(ids) == {s \in ids : s \in Request => pc[s] = "done"}

Refuse(r) == Finish(r) /\ UNCHANGED <<auth, referralTables>>

AuthOnly == UNCHANGED referralTables

AuthReads == UNCHANGED <<auth, referralTables>>

(***************************************************************************)
(* The guards                                                              *)
(***************************************************************************)
FindActive(u) == {s \in Held(SessionsOf(u)) : auth.session[s].live}

(* UserAuthGuard, or AdminAuthGuard and RolesGuard, with session s.        *)
Admits(b, s) ==
    /\ auth.status[b.user] = "ACTIVE"
    /\ IF b.as = "user"
       THEN ~IsAdminRole(b.user) /\ (auth.session[s].viewer # Nothing => b.op = "devices")
       ELSE IsAdminRole(b.user) /\ auth.role[b.user] \in b.roles

Guarded == {"change", "devices", "revoke", "others"}

Authenticate(r, ops) ==
    /\ pc[r] = "start" /\ body[r].op \in ops
    /\ \/ \E s \in FindActive(body[r].user) :
            Admits(body[r], s) /\ Keep(r, "enter", [session |-> s])
       \/ Finish(r)
    /\ AuthReads

(***************************************************************************)
(* Signing in                                                              *)
(***************************************************************************)

(* "either" is the shared sign-in page, which looks the role up first.     *)
Side(b) == IF b.as # "either" THEN b.as ELSE IF IsAdminRole(b.user) THEN "admin" ELSE "user"

ChooseSide(r) ==
    /\ At(r, "login", "start")
    /\ Keep(r, "check-account", [side |-> Side(body[r])])
    /\ AuthReads

(* fromCookie(): a session that Google sign-in has left in the browser.    *)
FromCookie(r) ==
    LET b == body[r]
    IN  /\ At(r, "exchange", "start")
        /\ \/ \E s \in FindActive(b.user) :
                Keep(r, "check-account", [side |-> Side(b), session |-> s])
           \/ Finish(r)
        /\ AuthReads

(* A failed sign-in is recorded; a refused exchange is not.                *)
Fails(r) ==
    /\ auth' = IF body[r].op = "login" THEN [auth EXCEPT !.attempts[body[r].user] = @ + 1] ELSE auth
    /\ Finish(r)

CheckAccount(r) ==
    LET u == body[r].user
    IN  /\ pc[r] = "check-account" /\ mem[r].side = "user"
        /\ IF auth.status[u] = "ACTIVE" /\ ~IsAdminRole(u)
           THEN /\ Await(r, IF body[r].op = "login" THEN "password" ELSE "stamp")
                /\ UNCHANGED auth
           ELSE Fails(r)
        /\ AuthOnly

CheckAdminAccount(r) ==
    LET u == body[r].user
    IN  /\ pc[r] = "check-account" /\ mem[r].side = "admin"
        /\ IF auth.status[u] = "ACTIVE" /\ IsAdminRole(u)
           THEN /\ Await(r, IF body[r].op = "login" THEN "password" ELSE "stamp")
                /\ UNCHANGED auth
           ELSE Fails(r)
        /\ AuthOnly

(* better-auth compares the passwords, then asks the session hook.         *)
VerifyPassword(r) ==
    /\ At(r, "login", "password")
    /\ IF auth.password[body[r].user] = body[r].password
       THEN Keep(r, "hook", [by |-> body[r].password, side |-> mem[r].side]) /\ UNCHANGED auth
       ELSE Fails(r)
    /\ AuthOnly

(* The hook: only an active account may open a session.                    *)
SessionHook(r) ==
    /\ pc[r] = "hook"
    /\ IF auth.status[body[r].user] = "ACTIVE"
       THEN Await(r, "open") /\ UNCHANGED auth ELSE Fails(r)
    /\ AuthOnly

PasswordsSet(u) == {q \in Request : auth.set[q] = u}

NewSession(u, by) ==
    [user |-> u, by |-> by, since |-> PasswordsSet(u), viewer |-> Nothing, live |-> TRUE]

AfterOpen == [login |-> "name", reset |-> "look"]

OpenSession(r) ==
    /\ pc[r] = "open"
    /\ auth' = [auth EXCEPT !.session[r] = NewSession(body[r].user, mem[r].by)]
    /\ Keep(r, AfterOpen[body[r].op], Merged(mem[r], [session |-> r]))
    /\ AuthOnly

(* idOfToken(): the session must still be there.                           *)
NameSession(r) ==
    /\ At(r, "login", "name")
    /\ IF auth.session[r] = Nothing THEN Finish(r) ELSE Await(r, "stamp")
    /\ AuthReads

(* The last login and the attempt at once; then the workspace.             *)
StampLogin(r) ==
    /\ pc[r] = "stamp" /\ mem[r].side = "user"
    /\ Await(r, "look")
    /\ AuthReads

(* completeSignIn(): an admin's login is audited.                          *)
StampAdmin(r) ==
    /\ pc[r] = "stamp" /\ mem[r].side = "admin"
    /\ auth' = [auth EXCEPT !.audit[r] = "ADMIN_LOGIN"]
    /\ Finish(r)
    /\ AuthOnly

(* signedInResponse(), after ensureDefaultWorkspace().                     *)
RecordDevice(r) ==
    LET s == mem[r].session
    IN  /\ pc[r] = "record"
        /\ auth' = IF auth.device[s] = Nothing
                   THEN [auth EXCEPT !.device[s] = [user |-> body[r].user, revoked |-> FALSE]]
                   ELSE auth
        /\ Finish(r)
        /\ AuthOnly

Register(r) ==
    /\ At(r, "register", "start")
    /\ IF auth.status[body[r].user] = "NONE" THEN Await(r, "sign-up") ELSE Finish(r)
    /\ AuthReads

SignUp(r) ==
    LET u == body[r].user
    IN  /\ At(r, "register", "sign-up")
        /\ IF auth.status[u] = "NONE"
           THEN /\ auth' = [auth EXCEPT !.status[u] = "ACTIVE", !.password[u] = r,
                                        !.session[r] = NewSession(u, r)]
                /\ Keep(r, "look", [session |-> r])
           ELSE Finish(r) /\ UNCHANGED auth
        /\ AuthOnly

(* refresh(): only stamps the session and its device as used.              *)
Refresh(r) ==
    /\ At(r, "refresh", "start")
    /\ \/ \E s \in FindActive(body[r].user) : Await(r, "touch")
       \/ Finish(r)
    /\ AuthReads

Touch(r) == At(r, "refresh", "touch") /\ Refuse(r)

(***************************************************************************)
(* Ending sessions                                                         *)
(***************************************************************************)
Revoked(ids) == [s \in DOMAIN auth.session |-> IF s \in ids THEN Nothing ELSE auth.session[s]]

Unlisted(ids) == [s \in DOMAIN auth.device |->
                    IF s \in ids /\ auth.device[s] # Nothing
                    THEN [auth.device[s] EXCEPT !.revoked = TRUE] ELSE auth.device[s]]

DevicesOf(u) == {s \in DOMAIN auth.device : auth.device[s] # Nothing /\ auth.device[s].user = u}

Logout(r) ==
    /\ At(r, "logout", "start")
    /\ \/ \E s \in Held(DOMAIN auth.session) :
            /\ auth.session[s] # Nothing /\ auth.session[s].user = body[r].user
            /\ Keep(r, "end", [session |-> s])
       \/ Finish(r)
    /\ AuthReads

ListDevices(r) ==
    /\ At(r, "devices", "enter")
    /\ Refuse(r)

FindDevice(r) ==
    /\ At(r, "revoke", "enter")
    /\ \/ \E s \in DevicesOf(body[r].user) : Keep(r, "end", [session |-> s])
       \/ Finish(r)
    /\ AuthReads

EndSession(r) ==
    /\ pc[r] = "end"
    /\ auth' = [auth EXCEPT !.session = Revoked({mem[r].session})]
    /\ IF body[r].as = "user" THEN Await(r, "unlist") ELSE Finish(r)
    /\ AuthOnly

UnlistDevice(r) ==
    /\ pc[r] = "unlist"
    /\ auth' = [auth EXCEPT !.device = Unlisted({mem[r].session})]
    /\ Finish(r)
    /\ AuthOnly

(* signOutOthers() counts them for the audit.                              *)
CountOthers(r) ==
    LET others == {s \in SessionsOf(body[r].user) : auth.session[s].live} \ {mem[r].session}
    IN  /\ At(r, "others", "enter")
        /\ Keep(r, "others", Merged(mem[r], [counted |-> Cardinality(others)]))
        /\ AuthReads

(* revokeOthersForUser(): lists them, then deletes one at a time.          *)
ListOthers(r) ==
    /\ pc[r] = "others"
    /\ Keep(r, "end-others",
            Merged(mem[r], [others |-> SessionsOf(body[r].user) \ {mem[r].session}]))
    /\ AuthReads

EndOther(r) ==
    /\ pc[r] = "end-others"
    /\ \E s \in mem[r].others :
        /\ auth' = [auth EXCEPT !.session = Revoked({s})]
        /\ Keep(r, "end-others", [mem[r] EXCEPT !.others = @ \ {s}])
    /\ AuthOnly

UnlistOthers(r) ==
    LET b == body[r]
    IN  /\ pc[r] = "end-others" /\ mem[r].others = {} /\ b.as = "user"
        /\ auth' = [auth EXCEPT !.device = Unlisted(DevicesOf(b.user) \ {mem[r].session})]
        /\ Finish(r)
        /\ AuthOnly

AuditOthers(r) ==
    /\ pc[r] = "end-others" /\ mem[r].others = {} /\ body[r].as = "admin"
    /\ auth' = IF body[r].op = "others" /\ mem[r].counted = 0
               THEN auth ELSE [auth EXCEPT !.audit[r] = body[r].op]
    /\ Finish(r)
    /\ AuthOnly

(***************************************************************************)
(* Passwords                                                               *)
(***************************************************************************)
CheckCurrent(r) ==
    /\ At(r, "change", "enter")
    /\ IF auth.password[body[r].user] = body[r].password THEN Await(r, "set") ELSE Finish(r)
    /\ AuthReads

WithPassword(tables, u, r) == [tables EXCEPT !.password[u] = r, !.set[r] = u]

ChangePassword(r) ==
    /\ At(r, "change", "set")
    /\ auth' = WithPassword(auth, body[r].user, r)
    /\ Await(r, "others")
    /\ AuthOnly

Forgot(r) ==
    LET u == body[r].user
    IN  /\ At(r, "forgot", "start")
        /\ IF auth.status[u] = "ACTIVE" /\ ~IsAdminRole(u) THEN Await(r, "mail") ELSE Finish(r)
        /\ AuthReads

(* Supersedes the links it finds unused.                                   *)
MailLink(r) ==
    LET u == body[r].user
        superseded == [l \in DOMAIN auth.link |->
            IF auth.link[l] # Nothing /\ auth.link[l].user = u
            THEN [auth.link[l] EXCEPT !.used = TRUE] ELSE auth.link[l]]
    IN  /\ At(r, "forgot", "mail")
        /\ auth' = [auth EXCEPT !.link = [superseded EXCEPT ![r] =
                                            [user |-> u, used |-> FALSE, resets |-> 0]]]
        /\ Finish(r)
        /\ AuthOnly

FollowLink(r) ==
    /\ At(r, "reset", "start")
    /\ \E l \in Held(DOMAIN auth.link) :
        /\ auth.link[l] # Nothing /\ auth.link[l].user = body[r].user
        /\ IF auth.link[l].used THEN Finish(r) ELSE Keep(r, "claim", [link |-> l, by |-> r])
    /\ AuthReads

ClaimedBy(r, l) ==
    WithPassword([auth EXCEPT !.link[l].used = TRUE, !.link[l].resets = @ + 1], body[r].user, r)

OwnerActive(r) == auth.status[body[r].user] = "ACTIVE" /\ ~IsAdminRole(body[r].user)

(* Bug: what was read before is not asked again.                           *)
TakeLink(r) ==
    LET l == mem[r].link
    IN  /\ At(r, "reset", "claim")
        /\ IF OwnerActive(r)
           THEN auth' = ClaimedBy(r, l) /\ Await(r, "end-all")
           ELSE Finish(r) /\ UNCHANGED auth
        /\ AuthOnly

(* One transaction: the claim that only one request can make, the owner's  *)
(* status, the password.                                                   *)
ClaimLink(r) ==
    LET l == mem[r].link
    IN  /\ At(r, "reset", "claim")
        /\ IF ~auth.link[l].used /\ OwnerActive(r)
           THEN auth' = ClaimedBy(r, l) /\ Await(r, "end-all")
           ELSE Finish(r) /\ UNCHANGED auth
        /\ AuthOnly

(* Bug: only the sessions opened with a password are ended.                *)
EndAllButCookies(u) ==
    /\ auth' = [auth EXCEPT !.session =
                  Revoked({s \in SessionsOf(u) : auth.session[s].by # Nothing})]
    /\ AuthOnly

(* revokeAllForUser(), one statement.                                      *)
EndAll(u) ==
    /\ auth' = [auth EXCEPT !.session = Revoked(SessionsOf(u))]
    /\ AuthOnly

ResetEndsAll(r) ==
    /\ At(r, "reset", "end-all")
    /\ EndAll(body[r].user)
    /\ Await(r, "unlist-all")

UnlistAll(r) ==
    /\ At(r, "reset", "unlist-all")
    /\ auth' = [auth EXCEPT !.device = Unlisted(DevicesOf(body[r].user))]
    /\ Await(r, "hook")
    /\ AuthOnly

(* Time: a session that was there from the start runs out.                 *)
Expire(s) ==
    /\ s \notin Request
    /\ auth.session[s] # Nothing /\ auth.session[s].live
    /\ auth' = [auth EXCEPT !.session[s].live = FALSE]
    /\ UNCHANGED <<requests, referralTables>>

SessionStep(r) ==
    \/ Authenticate(r, Guarded)
    \/ ChooseSide(r) \/ FromCookie(r) \/ CheckAccount(r) \/ CheckAdminAccount(r)
    \/ VerifyPassword(r) \/ SessionHook(r) \/ OpenSession(r) \/ NameSession(r)
    \/ StampLogin(r) \/ StampAdmin(r) \/ RecordDevice(r) \/ Register(r) \/ SignUp(r)
    \/ Refresh(r) \/ Touch(r) \/ Logout(r) \/ ListDevices(r) \/ FindDevice(r)
    \/ EndSession(r) \/ UnlistDevice(r) \/ CountOthers(r) \/ ListOthers(r) \/ EndOther(r)
    \/ UnlistOthers(r) \/ AuditOthers(r) \/ CheckCurrent(r) \/ ChangePassword(r)
    \/ Forgot(r) \/ MailLink(r) \/ FollowLink(r) \/ ClaimLink(r) \/ ResetEndsAll(r)
    \/ UnlistAll(r)

(***************************************************************************)
(* Properties                                                              *)
(***************************************************************************)

(* "a link really is single-use", however many resets race with it.        *)
LinkOnce ==
    \A l \in DOMAIN auth.link : auth.link[l] # Nothing => auth.link[l].resets <= 1

(* Once a new password has been answered for, every session opened before  *)
(* it was committed is gone, whoever signed in or refreshed meanwhile; the *)
(* session that asked for the change may stay.                             *)
OldSessionsEnd ==
    \A r \in Request : pc[r] = "done" /\ auth.set[r] # Nothing =>
        Cardinality({s \in SessionsOf(auth.set[r]) : r \notin auth.session[s].since})
            <= (IF body[r].op = "change" THEN 1 ELSE 0)

(* "This is a read-only support view": nothing past the guard acts with a  *)
(* session that was opened for an admin to view the account.               *)
ViewsReadOnly ==
    \A r \in Request :
        body[r].op \in {"change", "revoke"} /\ pc[r] \in {"enter", "set", "others"} =>
            LET s == mem[r].session IN s \in Request => body[s].op # "view"

(* "Consuming it signs the account out on every device": no session opened *)
(* with the password from before a reset outlives the reset.               *)
ResetSignsOut ==
    \A r \in Request : pc[r] = "done" /\ body[r].op = "reset" /\ auth.set[r] # Nothing =>
        \A s \in SessionsOf(body[r].user) : auth.session[s].by # "old"
=============================================================================
