------------------------------ MODULE MCPeople ------------------------------
(* Small instances of Referrals, Sessions, Administration, Support,        *)
(* Platform and Watch: customers u1 to u4, of whom u1 brought in u2, who   *)
(* brought in u3, and u4 is new; a super admin a1 and a support admin a2.  *)
(* u1 has session s1, opened with the password, s2 from a Google sign-in   *)
(* and a reset link l1.  There are an open and a solved ticket of u1, t1   *)
(* and t2, an announcement n1 for the first three days and a campaign c1.  *)
(* Network i1 has failed to sign in four times, i2 five times, and it was  *)
(* flagged more than an hour ago.                                          *)
EXTENDS Watch, TLC

CONSTANTS t1, t2, n1, c1, i1, i2, r1, r2, r3, r4, u1, u2, u3, u4, a1, a2, b1, b2, s1, s2, s3, s4, l1

Inviters == u1 :> Nothing @@ u2 :> u1 @@ u3 :> u2

SessionIds == Request \cup {s1, s2, s3, s4}
LinkIds == Request \cup {l1}
Fill(ids, rows) == [i \in ids |-> IF i \in DOMAIN rows THEN rows[i] ELSE Nothing]
Opened(u, p) == [user |-> u, by |-> p, since |-> {}, viewer |-> Nothing, live |-> TRUE]

MCAuthStart ==
    [status |-> [u \in User |-> IF u = u4 THEN "NONE" ELSE "ACTIVE"],
     role |-> [u \in User |-> CASE u = a1 -> "SUPER_ADMIN" [] u = a2 -> "SUPPORT_ADMIN" [] OTHER -> "USER"],
     password |-> [u \in User |-> IF u = u4 THEN Nothing ELSE "old"],
     session |-> Fill(SessionIds, s1 :> Opened(u1, "old") @@ s2 :> Opened(u1, Nothing)
                                    @@ s3 :> Opened(a1, "old") @@ s4 :> Opened(a2, "old")),
     device |-> Fill(SessionIds, s1 :> [user |-> u1, revoked |-> FALSE]),
     link |-> Fill(LinkIds, l1 :> [user |-> u1, used |-> FALSE, resets |-> 0]),
     set |-> [r \in Request |-> Nothing],
     audit |-> [r \in Request |-> Nothing],
     attempts |-> [u \in User |-> 0]]

MCAdminStart ==
    [plan |-> [u \in User |-> "free"], tracked |-> [status |-> "ACTIVE", plan |-> "free"],
     planLog |-> [r \in Request |-> Nothing], wiped |-> [r \in Request |-> Nothing]]

ProvisionBody(u, v) == [op |-> "provision", user |-> u, via |-> v]
Info(u) == [op |-> "info", user |-> u]
Withdraw(u, b) == [op |-> "withdraw", user |-> u, business |-> b]
As(who, u, o) == [op |-> o, user |-> u, as |-> who]
Knowing(p, b) == [password |-> p] @@ b
By(u, o, t) == [op |-> o, user |-> u, as |-> "admin", target |-> t,
                roles |-> IF o \in {"suspend-owner", "activate-owner", "track"}
                          THEN {"SUPER_ADMIN", "SUPPORT_ADMIN"} ELSE {"SUPER_ADMIN"}]

Banner(d, e) == [on |-> TRUE, from |-> d, until |-> e, plan |-> Nothing]

MCSupportStart ==
    LET ticket(s, a) == [user |-> u1, status |-> s, admin |-> a, urgent |-> s = "OPEN",
                         stamped |-> s = "RESOLVED", said |-> <<"USER">>]
    IN  [ticket |-> Fill(Request \cup {t1, t2}, t1 :> ticket("OPEN", Nothing) @@ t2 :> ticket("RESOLVED", a2)),
         crossed |-> {},
         banner |-> Fill(Request \cup {n1}, n1 :> Banner(1, 3)),
         campaign |-> Fill(Request \cup {c1}, c1 :> "DRAFT"),
         feature |-> "SUBMITTED", template |-> Nothing]

MCPlatformStart == [closed |-> FALSE, cache |-> Nothing, flag |-> Nothing]

MCBucket == [u \in User |-> IF u = u1 THEN 10 ELSE 90]

MCWatchStart ==
    LET wrong(n, u) == [net |-> n, user |-> u, why |-> "wrong", age |-> "now"]
    IN  [tries |-> <<wrong(i1, u1), wrong(i1, u1), wrong(i2, u1), wrong(i2, u2), wrong(i1, u2),
                     wrong(i2, u2), wrong(i2, u2), wrong(i1, u1), wrong(i2, u1)>>,
         flag |-> <<[net |-> i2, status |-> "FALSE_POSITIVE", age |-> "old"]>>,
         found |-> [r \in Request |-> {}]]

Referring ==
    {ProvisionBody(u4, u1), ProvisionBody(u4, u4), ProvisionBody(u1, Nothing),
     Info(u1), Info(u2), Withdraw(u1, b1), Withdraw(u1, b2), Withdraw(u2, b1)}

SigningIn ==
    {Knowing("old", As("either", u1, "login")), As("either", u1, "exchange") @@ [via |-> Nothing],
     As("user", u1, "reset"), Knowing("old", As("user", u1, "change")), As("user", u1, "forgot"),
     As("user", u1, "revoke"), As("user", u1, "devices"), By(a1, "view", u1), By(a1, "suspend-owner", u1)}

Racing ==
    {Knowing("old", As("user", u1, "login")), As("user", u1, "reset"),
     Knowing("old", As("user", u1, "change")), By(a1, "view", u1)}

Joining ==
    {As("user", u4, "register") @@ [via |-> u1], As("user", u4, "register") @@ [via |-> u4],
     As("user", u1, "logout"), As("user", u1, "refresh"), Knowing("guess", As("user", u1, "login")),
     By(a1, "end-view", u1), By(a1, "activate-owner", u1), By(a2, "suspend-owner", u1),
     By(a1, "view", u1)}

Ruling ==
    {By(a1, "hire", u4) @@ [role |-> "FINANCE_ADMIN"], By(a1, "promote", a2) @@ [role |-> "SUPER_ADMIN"],
     By(a1, "suspend", a2), By(a2, "suspend", a1), By(a1, "suspend", a1), By(a1, "activate", a2),
     By(a1, "password", a2), By(a2, "rename", a2),
     Knowing("old", As("admin", a2, "login")), [roles |-> {"SUPPORT_ADMIN"}] @@ Knowing("old", As("admin", a2, "change")),
     [roles |-> {"SUPPORT_ADMIN"}] @@ As("admin", a2, "others"), As("admin", a2, "logout")}

Planning ==
    {By(a1, "plan", u1) @@ [plan |-> "pro"], By(a1, "wipe", u1), By(a1, "plan", a2) @@ [plan |-> "pro"],
     By(a2, "track", u1) @@ [status |-> "SUSPENDED"], By(a1, "track", u1) @@ [status |-> "ACTIVE"],
     By(a1, "track-plan", u1) @@ [plan |-> "pro"], By(a1, "track-plan", u1) @@ [plan |-> "team"]}

RolesFor(o) ==
    CASE o \in {"announce", "edit-banner", "template"} -> {"SUPER_ADMIN", "CONTENT_ADMIN"}
      [] o \in PlatformOps \cup WatchOps -> {"SUPER_ADMIN"}
      [] OTHER -> {"SUPER_ADMIN", "SUPPORT_ADMIN"}

Desk(u, o) == [op |-> o, user |-> u, as |-> "admin", roles |-> RolesFor(o)]
OnTicket(u, o, t, a) == [ticket |-> t, admin |-> a] @@ Desk(u, o)

Answering ==
    {[target |-> u1, urgent |-> TRUE] @@ Desk(a2, "open-ticket"),
     [status |-> "RESOLVED"] @@ OnTicket(a1, "ticket", t1, Nothing),
     [status |-> "WAITING_ON_USER"] @@ OnTicket(a2, "ticket", t2, a2),
     [status |-> "CLOSED"] @@ OnTicket(a2, "ticket", t2, a1),
     OnTicket(a1, "assign", t1, a2), OnTicket(a2, "assign", t2, Nothing),
     OnTicket(a2, "reply", t1, Nothing), By(a1, "suspend", a2)}

Announcing ==
    {[banner |-> Banner(2, 2)] @@ Desk(a1, "announce"),
     [banner |-> [Banner(1, 0) EXCEPT !.plan = "free"]] @@ Desk(a1, "announce"),
     [banner |-> n1, set |-> [until |-> 2]] @@ Desk(a1, "edit-banner"),
     [banner |-> n1, set |-> [from |-> 2]] @@ Desk(a1, "edit-banner"),
     [later |-> TRUE] @@ Desk(a1, "campaign"), [campaign |-> c1] @@ Desk(a1, "send"),
     [campaign |-> c1] @@ Desk(a1, "cancel"), Desk(a1, "template"),
     [status |-> "PLANNED"] @@ Desk(a1, "feature")}

App(p) == [op |-> "app", path |-> p]

Switching == {[closed |-> TRUE] @@ Desk(a1, "settings"), App("books")}

Showing ==
    {App("platform"), App("health"), [set |-> [percent |-> 0]] @@ Desk(a1, "flag"),
     [flag |-> [on |-> TRUE, percent |-> 50, plans |-> {"free"}]] @@ Desk(a1, "new-flag"),
     [flag |-> 1, status |-> "REVIEWING"] @@ Desk(a1, "review")}

Watching == {[op |-> "refused", net |-> i1, user |-> u2], Desk(a1, "check")}

Everyone ==
    {[bodies |-> Referring, atMost |-> 3],
     [bodies |-> {Info(u1), Info(u2), Withdraw(u1, b1), Withdraw(u2, b1)}, atMost |-> 4],
     [bodies |-> SigningIn \cup Joining, atMost |-> 2], [bodies |-> Racing, atMost |-> 3],
     [bodies |-> Ruling \cup Planning, atMost |-> 2],
     [bodies |-> Answering, atMost |-> 2],
     [bodies |-> Announcing, atMost |-> 2], [bodies |-> Showing, atMost |-> 2],
     [bodies |-> Switching, atMost |-> 3], [bodies |-> Watching, atMost |-> 3]}

JustPaying == {[bodies |-> {Info(u1), Withdraw(u1, b1)}, atMost |-> 4]}

JustReset == {[bodies |-> {Knowing("old", As("user", u1, "login")), As("user", u1, "reset")}, atMost |-> 2]}

Symmetry == Permutations(Request)

accountTables == <<referralTables, auth, admin>>
peopleTables == <<accountTables, desk, platform, watch>>

Init ==
    /\ RequestsInit /\ ReferralsInit /\ AuthInit /\ AdminInit
    /\ SupportInit /\ PlatformInit /\ WatchInit

Next ==
    \/ \E r \in Request : ReferralStep(r) /\ UNCHANGED <<auth, admin, desk, platform, watch>>
    \/ \E r \in Request : AdminStep(r) /\ UNCHANGED <<desk, platform, watch>>
    \/ \E r \in Request : SupportStep(r) /\ UNCHANGED <<platform, watch>>
    \/ \E r \in Request : PlatformStep(r) /\ UNCHANGED watch
    \/ \E r \in Request : WatchStep(r)
    \/ \E r \in Request : Abort(r) /\ UNCHANGED peopleTables
    \/ \E u \in User : Age(u) /\ UNCHANGED <<auth, admin, desk, platform, watch>>
    \/ Expire(s2) /\ UNCHANGED <<admin, desk, platform, watch>>
    \/ Lapse /\ UNCHANGED watch
    \/ Hour
    \/ AllAnswered /\ UNCHANGED <<requests, peopleTables>>

Spec == Init /\ [][Next]_<<requests, peopleTables>>
=============================================================================
