----------------------------- MODULE PeopleProofs -----------------------------
(***************************************************************************)
(* Referrals, Sessions and Administration together: any number of requests *)
(* of any mix, of customers and admins.  A request that is none of theirs  *)
(* stays where it is.                                                      *)
(***************************************************************************)
EXTENDS Watch, RequestsProofs

AccountStep(r) ==
    \/ ReferralStep(r) /\ UNCHANGED <<auth, admin>>
    \/ AdminStep(r)
    \/ Abort(r) /\ UNCHANGED <<referralTables, auth, admin>>

PeopleNext ==
    \/ \E r \in Request : AccountStep(r)
    \/ \E u \in User : Age(u) /\ UNCHANGED <<auth, admin>>
    \/ \E s \in DOMAIN auth.session : Expire(s) /\ UNCHANGED admin

peopleVars == <<requests, referralTables, auth, admin>>

PeopleSpec == RequestsInit /\ ReferralsInit /\ AuthInit /\ AdminInit /\ [][PeopleNext]_peopleVars

(***************************************************************************)
(* Where a handler can be                                                  *)
(***************************************************************************)
Provisioning == {"look", "signup", "recheck", "seed-chart"}

Paying == {"payout", "read", "account", "open-and-pay", "pay"}

Confirming == {"list", "confirm"}

Here(r, op, labels) == body[r].op = op => pc[r] \in {"start", "done", "failed"} \cup labels

Staged(r) ==
    /\ pc[r] \notin {"start", "done", "failed"} => body[r].op \in AccountOps
    /\ Here(r, "withdraw", Paying)
    /\ Here(r, "info", Confirming)
    /\ Here(r, "view", {"enter", "view-hook", "open-view", "mark-view"})
    /\ Here(r, "change", {"enter", "set", "others", "end-others"})
    /\ Here(r, "revoke", {"enter", "end", "unlist"})
    /\ Here(r, "password", {"enter", "change", "sign-out", "audit"})
    /\ Here(r, "reset", Provisioning \cup
            {"claim", "end-all", "unlist-all", "hook", "open", "record"})
    /\ pc[r] \in {"hook", "open"} => body[r].op \in {"login", "reset"}

(* Which action takes a request to a stage.                                *)
Enters(r) ==
    /\ pc'[r] # "start"
    /\ pc'[r] = "enter" => Authenticate(r, Guarded) \/ Authenticate(r, AdminOps)
    /\ pc'[r] = "set" => CheckCurrent(r)
    /\ pc'[r] = "others" => ChangePassword(r) \/ CountOthers(r)
    /\ pc'[r] = "end-others" => ListOthers(r) \/ EndOther(r)
    /\ pc'[r] = "claim" => FollowLink(r)
    /\ pc'[r] = "end-all" => ClaimLink(r)
    /\ pc'[r] = "change" => FindAdmin(r)
    /\ pc'[r] = "sign-out" => ChangeAdmin(r) \/ AuditFirst(r) \/ SetOwnerStatus(r)
    /\ pc'[r] = "view-hook" => StartView(r)
    /\ pc'[r] = "open-view" => ViewHook(r)
    /\ pc'[r] = "mark-view" => OpenView(r)

(* A step of the sessions or of the admins leaves the referrals alone and  *)
(* enters none of their stages but the first.                              *)
Aside(r) ==
    /\ Moves(r) /\ ~Ended(r) /\ Staged(r)' /\ Enters(r)
    /\ UNCHANGED referralTables
    /\ pc'[r] \notin Paying \cup Confirming \cup (Provisioning \ {"look"})

LEMMA SigningInAside ==
    ASSUME Framed, NEW r \in Request, Staged(r),
           \/ ChooseSide(r) \/ FromCookie(r) \/ CheckAccount(r) \/ CheckAdminAccount(r)
           \/ VerifyPassword(r) \/ SessionHook(r) \/ OpenSession(r) \/ NameSession(r)
           \/ StampLogin(r) \/ StampAdmin(r) \/ RecordDevice(r) \/ Register(r) \/ SignUp(r)
    PROVE  Aside(r)
<1> USE FinishMoves, AwaitMoves, KeepMoves, FinishGoes, AwaitGoes, KeepGoes
    DEF At, Aside, Enters, Ended, Staged, Here, Paying, Confirming, Provisioning, AccountOps,
        AuthReads, AuthOnly, Fails
<1>0. CASE ChooseSide(r)
  BY <1>0 DEF ChooseSide
<1>1. CASE FromCookie(r)
  <2>1. CASE Finish(r)
    BY <1>1, <2>1 DEF FromCookie
  <2>2. ASSUME NEW s, Keep(r, "check-account", s) PROVE Aside(r)
    BY <1>1, <2>2 DEF FromCookie
  <2> QED BY <1>1, <2>1, <2>2 DEF FromCookie
<1>2. CASE CheckAccount(r) 
  BY <1>2 DEF CheckAccount
<1>3. CASE CheckAdminAccount(r)
  BY <1>3 DEF CheckAdminAccount
<1>4. CASE VerifyPassword(r) 
  BY <1>4 DEF VerifyPassword
<1>5. CASE SessionHook(r)
  BY <1>5 DEF SessionHook
<1>6. CASE OpenSession(r)
  <2>1. AfterOpen[body[r].op] \in {"name", "look"} /\ (body[r].op = "reset" => AfterOpen[body[r].op] = "look")
    BY <1>6 DEF OpenSession, AfterOpen
  <2> QED BY <1>6, <2>1 DEF OpenSession
<1>7. CASE NameSession(r) \/ StampLogin(r)
  BY <1>7 DEF NameSession, StampLogin
<1>8. CASE StampAdmin(r) \/ RecordDevice(r)
  BY <1>8 DEF StampAdmin, RecordDevice
<1>9. CASE Register(r) \/ SignUp(r)
  BY <1>9 DEF Register, SignUp
<1> QED BY <1>0, <1>1, <1>2, <1>3, <1>4, <1>5, <1>6, <1>7, <1>8, <1>9

LEMMA SigningOutAside ==
    ASSUME Framed, NEW r \in Request, Staged(r),
           \/ Refresh(r) \/ Touch(r) \/ Logout(r) \/ ListDevices(r) \/ FindDevice(r)
           \/ EndSession(r) \/ UnlistDevice(r) \/ CountOthers(r) \/ ListOthers(r) \/ EndOther(r)
           \/ UnlistOthers(r) \/ AuditOthers(r)
    PROVE  Aside(r)
<1> USE FinishMoves, AwaitMoves, KeepMoves, FinishGoes, AwaitGoes, KeepGoes
    DEF At, Aside, Enters, Ended, Staged, Here, Paying, Confirming, Provisioning, AccountOps, Guarded,
        AuthReads, AuthOnly, Refuse
<1>1. CASE Refresh(r)
  BY <1>1 DEF Refresh
<1>2. CASE Touch(r) \/ ListDevices(r)
  BY <1>2 DEF Touch, ListDevices
<1>3. CASE Logout(r)
  <2>1. CASE Finish(r)
    BY <1>3, <2>1 DEF Logout
  <2>2. ASSUME NEW s, Keep(r, "end", s) PROVE Aside(r)
    BY <1>3, <2>2 DEF Logout
  <2> QED BY <1>3, <2>1, <2>2 DEF Logout
<1>4. CASE FindDevice(r)
  <2>1. CASE Finish(r)
    BY <1>4, <2>1 DEF FindDevice
  <2>2. ASSUME NEW s, Keep(r, "end", s) PROVE Aside(r)
    BY <1>4, <2>2 DEF FindDevice
  <2> QED BY <1>4, <2>1, <2>2 DEF FindDevice
<1>5. CASE EndSession(r) \/ UnlistDevice(r)
  BY <1>5 DEF EndSession, UnlistDevice
<1>6. CASE CountOthers(r) \/ ListOthers(r)
  BY <1>6 DEF CountOthers, ListOthers
<1>7. CASE EndOther(r)
  <2>0. pc[r] = "end-others" /\ UNCHANGED referralTables
    BY <1>7 DEF EndOther
  <2>1. ASSUME NEW s, Keep(r, "end-others", s) PROVE Aside(r)
    BY <1>7, <2>0, <2>1
  <2> QED BY <1>7, <2>1 DEF EndOther
<1>8. CASE UnlistOthers(r) \/ AuditOthers(r)
  BY <1>8 DEF UnlistOthers, AuditOthers
<1> QED BY <1>1, <1>2, <1>3, <1>4, <1>5, <1>6, <1>7, <1>8

LEMMA PasswordsAside ==
    ASSUME Framed, NEW r \in Request, Staged(r),
           \/ Authenticate(r, Guarded) \/ Authenticate(r, AdminOps)
           \/ CheckCurrent(r) \/ ChangePassword(r) \/ Forgot(r) \/ MailLink(r)
           \/ FollowLink(r) \/ ClaimLink(r) \/ ResetEndsAll(r) \/ UnlistAll(r)
    PROVE  Aside(r)
<1> USE FinishMoves, AwaitMoves, KeepMoves, FinishGoes, AwaitGoes, KeepGoes
    DEF At, Aside, Enters, Ended, Staged, Here, Paying, Confirming, Provisioning, AccountOps, Guarded, AdminOps,
        AuthReads, AuthOnly, EndAll
<1>1. ASSUME NEW ops, Authenticate(r, ops), ops \in {Guarded, AdminOps} PROVE Aside(r)
  <2>1. CASE Finish(r)
    BY <1>1, <2>1 DEF Authenticate
  <2>0. pc[r] = "start" /\ body[r].op \in ops /\ UNCHANGED referralTables
    BY <1>1 DEF Authenticate
  <2>2. ASSUME NEW s, Keep(r, "enter", s) PROVE Aside(r)
    <3>1. Authenticate(r, Guarded) \/ Authenticate(r, AdminOps)
      BY <1>1
    <3>2. body[r].op \in Guarded \cup AdminOps
      BY <1>1, <2>0
    <3> HIDE <1>1
    <3> QED BY <2>0, <2>2, <3>1, <3>2
  <2> QED BY <1>1, <2>1, <2>2 DEF Authenticate
<1>2. CASE CheckCurrent(r) \/ ChangePassword(r)
  BY <1>2 DEF CheckCurrent, ChangePassword
<1>3. CASE Forgot(r) \/ MailLink(r)
  BY <1>3 DEF Forgot, MailLink
<1>4. CASE FollowLink(r)
  <2>1. CASE Finish(r)
    BY <1>4, <2>1 DEF FollowLink
  <2>2. ASSUME NEW s, Keep(r, "claim", s) PROVE Aside(r)
    BY <1>4, <2>2 DEF FollowLink
  <2> QED BY <1>4, <2>1, <2>2 DEF FollowLink
<1>5. CASE ClaimLink(r)
  BY <1>5 DEF ClaimLink
<1>6. CASE ResetEndsAll(r) \/ UnlistAll(r)
  BY <1>6 DEF ResetEndsAll, UnlistAll
<1> QED BY <1>1, <1>2, <1>3, <1>4, <1>5, <1>6

LEMMA AdminAside ==
    ASSUME Framed, NEW r \in Request, Staged(r),
           \/ Audit(r) \/ EmailTaken(r) \/ Hire(r) \/ FindAdmin(r) \/ ChangeAdmin(r)
           \/ AuditFirst(r) \/ SignOut(r) \/ Rename(r)
           \/ FindOwner(r) \/ SetOwnerStatus(r) \/ ChangeOwnerPlan(r) \/ WipeOwner(r)
           \/ StartView(r) \/ ViewHook(r) \/ OpenView(r) \/ MarkView(r) \/ ListViews(r) \/ EndView(r)
           \/ RequireTracked(r) \/ SetTracked(r) \/ ChangeTrackedPlan(r)
    PROVE  Aside(r)
<1> USE FinishMoves, AwaitMoves, KeepMoves, FinishGoes, AwaitGoes, KeepGoes
    DEF At, Aside, Enters, Ended, Staged, Here, Paying, Confirming, Provisioning, AccountOps, Guarded, AdminOps,
        OwnerOps, AuthOnly, EndAll, Unrecorded, AccountsOnly
<1>1. CASE Audit(r) \/ EmailTaken(r)
  BY <1>1 DEF Audit, EmailTaken
<1>2. CASE Hire(r)
  BY <1>2 DEF Hire
<1>3. CASE FindAdmin(r)
  BY <1>3 DEF FindAdmin
<1>4. CASE ChangeAdmin(r)
  <2>1. PICK l \in {"audit", "audit-first", "sign-out"} :
            Await(r, l) /\ (body[r].op = "password" => l = "sign-out")
    BY <1>4 DEF ChangeAdmin
  <2> QED BY <1>4, <2>1 DEF ChangeAdmin
<1>5. CASE AuditFirst(r) \/ Rename(r)
  BY <1>5 DEF AuditFirst, Rename
<1>6. CASE SignOut(r)
  BY <1>6 DEF SignOut
<1>7. CASE FindOwner(r) \/ SetOwnerStatus(r)
  BY <1>7 DEF FindOwner, SetOwnerStatus
<1>8. CASE ChangeOwnerPlan(r) \/ WipeOwner(r)
  BY <1>8 DEF ChangeOwnerPlan, WipeOwner
<1>9. CASE StartView(r) \/ ViewHook(r)
  BY <1>9 DEF StartView, ViewHook
<1>10. CASE OpenView(r) \/ MarkView(r)
  BY <1>10 DEF OpenView, MarkView
<1>11. CASE ListViews(r)
  BY <1>11 DEF ListViews
<1>12. CASE EndView(r)
  <2>1. CASE Await(r, "audit")
    BY <1>12, <2>1 DEF EndView
  <2>2. ASSUME NEW s, Keep(r, "end-views", s) PROVE Aside(r)
    BY <1>12, <2>2 DEF EndView
  <2> QED BY <1>12, <2>1, <2>2 DEF EndView
<1>13. CASE RequireTracked(r) \/ SetTracked(r) \/ ChangeTrackedPlan(r)
  BY <1>13 DEF RequireTracked, SetTracked, ChangeTrackedPlan
<1> QED BY <1>1, <1>2, <1>3, <1>4, <1>5, <1>6, <1>7, <1>8, <1>9, <1>10, <1>11, <1>12, <1>13

LEMMA ReferralMoves ==
    ASSUME Framed, NEW r \in Request, Staged(r), ReferralStep(r)
    PROVE  Moves(r) /\ ~Ended(r) /\ Staged(r)'
<1> USE FinishMoves, AwaitMoves, KeepMoves, TakeMoves, FinishGoes, AwaitGoes, KeepGoes, TakeGoes
    DEF At, Begins, Ended, Staged, Here, Paying, Confirming, Provisioning, AccountOps, Unpaid
<1>0. ASSUME Provisioned(r)
      PROVE  /\ Moves(r) /\ body' = body /\ pc'[r] \in {"done", "record"}
             /\ body[r].op = "provision" => pc'[r] = "done"
  BY <1>0 DEF Provisioned, Goto, Moves, Framed
<1>1. CASE Provision(r)
  BY <1>1 DEF Provision
<1>2. CASE LookForWorkspace(r)
  BY <1>0, <1>2 DEF LookForWorkspace
<1>3. CASE TakeSignupKey(r)
  BY <1>3 DEF TakeSignupKey
<1>4. CASE Recheck(r)
  BY <1>0, <1>4 DEF Recheck
<1>5. CASE CreateWorkspace(r)
  BY <1>0, <1>5 DEF CreateWorkspace
<1>6. CASE AssignCode(r) \/ ListPending(r)
  BY <1>6 DEF AssignCode, ListPending
<1>7. CASE Confirm(r)
  <2>1. CASE Finish(r)
    BY <1>7, <2>1 DEF Confirm
  <2>2. ASSUME NEW s, Keep(r, "confirm", s) PROVE Moves(r) /\ ~Ended(r) /\ Staged(r)'
    BY <1>7, <2>2 DEF Confirm
  <2> QED BY <1>7, <2>1, <2>2 DEF Confirm
<1>8. CASE TakeBonusKey(r)
  BY <1>8 DEF TakeBonusKey
<1>9. CASE TakePayoutKey(r)
  BY <1>9 DEF TakePayoutKey
<1>10. CASE ReadPayable(r) \/ FindBonusAccount(r)
  BY <1>10 DEF ReadPayable, FindBonusAccount
<1>11. CASE Pay(r)
  BY <1>11 DEF Pay
<1> QED BY <1>1, <1>2, <1>3, <1>4, <1>5, <1>6, <1>7, <1>8, <1>9, <1>10, <1>11 DEF ReferralStep

LEMMA AdminStepAside ==
    ASSUME Framed, NEW r \in Request, Staged(r), AdminStep(r)
    PROVE  Aside(r)
BY SigningInAside, SigningOutAside, PasswordsAside, AdminAside DEF AdminStep, SessionStep

LEMMA AccountMoves ==
    ASSUME Framed, NEW r \in Request, Staged(r), AccountStep(r)
    PROVE  Moves(r) /\ ~Ended(r) /\ Staged(r)'
<1>1. CASE Abort(r)
  BY <1>1, AbortMoves, AbortGoes DEF Staged, Here
<1> QED BY <1>1, ReferralMoves, AdminStepAside DEF AccountStep, Aside

(***************************************************************************)
(* Referrals and provisioning                                              *)
(***************************************************************************)
Bodied ==
    \A r \in Request :
        /\ body[r].op \in AccountOps => body[r].user \in User
        /\ body[r].op \in AdminOps => body[r].target \in User
        /\ body[r].op \in {"hire", "promote"} => body[r].role # "USER"
        /\ body[r].op = "withdraw" => body[r].business \in Business

Requested == Framed /\ Apart /\ Bodied /\ \A r \in Request : Staged(r)

Counted ==
    /\ DOMAIN status = User /\ DOMAIN referrer = User
    /\ workspaces \in [User -> Nat] /\ accounts \in [Business -> Nat]
    /\ confirmed \in [User -> Nat] /\ paid \in [User -> Nat]

(* What is looked up again under a lock stays as it was found.             *)
Signing(r) ==
    /\ pc[r] \in {"recheck", "seed-chart"} => SignupKey(body[r].user) \in lock[r]
    /\ pc[r] = "seed-chart" => workspaces[body[r].user] = 0

(* A payout has the keys, and no account where it is to open one.          *)
Locking(r) ==
    body[r].op = "withdraw" =>
        /\ pc[r] \in Paying => BonusKey(body[r].business) \in lock[r]
        /\ pc[r] \in Paying \ {"payout"} => PayoutKey(body[r].user) \in lock[r]
        /\ pc[r] = "open-and-pay" => accounts[body[r].business] = 0

(* What it has listed is its referrer's, and has been earned.              *)
Listing(r) ==
    body[r].op = "withdraw" /\ pc[r] \in {"account", "open-and-pay", "pay"} =>
        \A x \in mem[r] : /\ x \in User /\ referrer[x] = body[r].user
                          /\ x \in aged /\ paid[x] < confirmed[x]

Ageing(r) == body[r].op = "info" /\ pc[r] = "confirm" => mem[r] \subseteq User \cap aged

(* A referral is recorded with the workspace, and a confirmed one is due.  *)
Recorded ==
    \A x \in User :
        /\ referrer[x] # Nothing => workspaces[x] > 0
        /\ status[x] = "CONFIRMED" => x \in aged /\ paid[x] < confirmed[x]

ReferralInv ==
    /\ Requested /\ Counted
    /\ \A r \in Request : Signing(r) /\ Locking(r) /\ Listing(r) /\ Ageing(r)
    /\ Recorded /\ ProvisionedOnce /\ PayoutsEarned

LEMMA RequestedStarts == RequestsInit => Requested
<1> SUFFICES ASSUME RequestsInit PROVE Requested
  OBVIOUS
<1>1. \A r \in Request : body[r].op # "none" => body[r] \in UNION {s.bodies : s \in Scenario}
  BY RequestsStart DEF NoBody
<1>2. Bodied
  BY <1>1, AccountBodies DEF Bodied, AccountOps, Guarded, AdminOps
<1> QED BY <1>2, RequestsStart DEF Requested, Staged, Here

LEMMA RequestedStep ==
    ASSUME Requested, NEW r \in Request, AccountStep(r)
    PROVE  /\ Requested' /\ ~Ended(r) /\ body' = body
           /\ \A q \in Request \ {r} : pc'[q] = pc[q] /\ mem'[q] = mem[q] /\ lock'[q] = lock[q]
<1>1. Framed /\ Apart /\ Moves(r) /\ ~Ended(r) /\ Staged(r)'
  BY AccountMoves DEF Requested
<1>2. /\ Framed' /\ Apart' /\ body' = body
      /\ \A q \in Request \ {r} : pc'[q] = pc[q] /\ mem'[q] = mem[q] /\ lock'[q] = lock[q]
  BY <1>1, OthersStay
<1>3. \A q \in Request : Staged(q)'
  BY <1>1, <1>2 DEF Requested, Staged, Here
<1> QED BY <1>1, <1>2, <1>3 DEF Requested, Bodied

LEMMA ReferralStarts == RequestsInit /\ ReferralsInit => ReferralInv
<1> SUFFICES ASSUME RequestsInit, ReferralsInit PROVE ReferralInv
  OBVIOUS
<1>1. Counted /\ Recorded
  BY ReferralAssumption DEF ReferralsInit, Counted, Recorded
<1>2. ProvisionedOnce /\ PayoutsEarned
  BY DEF ReferralsInit, ProvisionedOnce, OneDefaultWorkspace, OneBonusAccount,
         PayoutsEarned, PaidPerConfirmation, PaidAfterThirtyDays
<1>3. \A r \in Request : Signing(r) /\ Locking(r) /\ Listing(r) /\ Ageing(r)
  BY RequestsStart DEF Signing, Locking, Listing, Ageing, Paying
<1> QED BY <1>1, <1>2, <1>3, RequestedStarts DEF ReferralInv

(* The steps that change a referral, a workspace or a bonus account.       *)
LEMMA ReferralChanges ==
    ASSUME NEW r \in Request, AccountStep(r), Framed, Staged(r)
    PROVE  \/ UNCHANGED referralTables
           \/ CreateWorkspace(r) \/ AssignCode(r) \/ Confirm(r) \/ Pay(r)
<1>1. CASE AdminStep(r)
  BY <1>1, AdminStepAside DEF Aside
<1>2. CASE Provision(r) \/ LookForWorkspace(r) \/ TakeSignupKey(r) \/ Recheck(r)
  BY <1>2 DEF Provision, LookForWorkspace, TakeSignupKey, Recheck
<1>3. CASE ListPending(r) \/ TakeBonusKey(r) \/ TakePayoutKey(r) \/ ReadPayable(r) \/ FindBonusAccount(r)
  BY <1>3 DEF ListPending, TakeBonusKey, TakePayoutKey, ReadPayable, FindBonusAccount
<1> QED BY <1>1, <1>2, <1>3 DEF AccountStep, ReferralStep

(* Figures only grow; a referral once recorded stays its referrer's.       *)
LEMMA ReferralTablesStep ==
    ASSUME ReferralInv, NEW r \in Request, AccountStep(r)
    PROVE  /\ Counted'
           /\ aged \subseteq aged' /\ \A x \in User : confirmed[x] <= confirmed'[x]
           /\ \A x \in User : workspaces'[x] # workspaces[x] =>
                /\ pc[r] = "seed-chart" /\ x = body[r].user /\ workspaces'[x] = workspaces[x] + 1
           /\ \A x \in User : referrer'[x] # referrer[x] => workspaces[x] = 0 /\ workspaces'[x] = 1
           /\ \A x \in User : paid'[x] # paid[x] => Pay(r) /\ x \in mem[r] /\ paid'[x] = paid[x] + 1
           /\ \A b \in Business : accounts'[b] # accounts[b] =>
                /\ Pay(r) /\ pc[r] = "open-and-pay" /\ b = body[r].business
                /\ accounts'[b] = accounts[b] + 1
           /\ \A x \in User : status'[x] = "CONFIRMED" =>
                status[x] = "CONFIRMED" \/ (Confirm(r) /\ x \in mem[r] /\ confirmed'[x] = confirmed[x] + 1)
<1> USE DEF Counted
<1>0. Framed /\ Staged(r) /\ Signing(r) /\ Counted /\ (body[r].op \in AccountOps => body[r].user \in User)
  BY DEF ReferralInv, Requested, Bodied
<1>a. Ageing(r)
  BY DEF ReferralInv
<1>1. CASE UNCHANGED referralTables
  BY <1>0, <1>1 DEF referralTables, referrals, users
<1>2. CASE CreateWorkspace(r)
  <2> DEFINE u == body[r].user
  <2>1. u \in User /\ workspaces[u] = 0 /\ pc[r] = "seed-chart"
    BY <1>0, <1>2 DEF CreateWorkspace, Staged, Signing
  <2>2. /\ workspaces' = [workspaces EXCEPT ![u] = @ + 1]
        /\ status' = status \/ status' = [status EXCEPT ![u] = "PENDING"]
        /\ referrer' = referrer \/ referrer' = [referrer EXCEPT ![u] = body[r].via]
        /\ aged' = aged /\ accounts' = accounts /\ confirmed' = confirmed /\ paid' = paid
    BY <1>2 DEF CreateWorkspace
  <2> HIDE DEF u
  <2>3. /\ workspaces' \in [User -> Nat] /\ workspaces'[u] = 1
        /\ \A x \in User \ {u} : workspaces'[x] = workspaces[x]
    BY <1>0, <2>1, <2>2
  <2>4. /\ DOMAIN status' = User /\ DOMAIN referrer' = User
        /\ \A x \in User \ {u} : status'[x] = status[x] /\ referrer'[x] = referrer[x]
        /\ status'[u] \in {status[u], "PENDING"}
    BY <1>0, <2>1, <2>2
  <2>5. aged \subseteq aged' /\ \A x \in User : confirmed[x] <= confirmed'[x]
    BY <1>0, <2>2
  <2> QED BY <1>0, <2>1, <2>2, <2>3, <2>4, <2>5 DEF u
<1>3. CASE AssignCode(r)
  BY <1>0, <1>3 DEF AssignCode, referrals
<1>4. CASE Confirm(r)
  <2>1. CASE UNCHANGED referralTables
    BY <1>1, <2>1
  <2>2. CASE ~ UNCHANGED referralTables
    <3>1. PICK x \in mem[r] : /\ status' = [status EXCEPT ![x] = "CONFIRMED"]
                              /\ confirmed' = [confirmed EXCEPT ![x] = @ + 1]
                              /\ UNCHANGED <<referrer, paid, aged, workspaces, accounts>>
      BY <1>4, <2>2 DEF Confirm, Unpaid, users
    <3>2. x \in User
      BY <1>a, <1>4, <3>1 DEF Ageing, Confirm, At
    <3>3. /\ confirmed' \in [User -> Nat] /\ DOMAIN status' = User
          /\ confirmed'[x] = confirmed[x] + 1 /\ \A y \in User : confirmed[y] <= confirmed'[y]
      BY <1>0, <3>1, <3>2
    <3>4. \A y \in User : status'[y] = "CONFIRMED" => status[y] = "CONFIRMED" \/ y = x
      BY <1>0, <3>1
    <3> QED BY <1>0, <1>4, <3>1, <3>3, <3>4
  <2> QED BY <2>1, <2>2
<1>5. CASE Pay(r)
  <2> DEFINE b == body[r].business
             more == IF pc[r] = "open-and-pay" THEN 1 ELSE 0
  <2>1. /\ accounts' = [accounts EXCEPT ![b] = @ + more]
        /\ status' = [x \in User |-> IF x \in mem[r] THEN "WITHDRAWN" ELSE status[x]]
        /\ paid' = [x \in User |-> paid[x] + (IF x \in mem[r] THEN 1 ELSE 0)]
        /\ UNCHANGED <<referrer, confirmed, aged, workspaces>>
    BY <1>5 DEF Pay, users
  <2>2. more \in Nat /\ (more # 0 => more = 1 /\ pc[r] = "open-and-pay")
    OBVIOUS
  <2>3. /\ accounts' \in [Business -> Nat]
        /\ \A c \in Business : accounts'[c] # accounts[c] =>
              pc[r] = "open-and-pay" /\ c = b /\ accounts'[c] = accounts[c] + 1
    <3> HIDE DEF b, more
    <3>1. b \in Business => accounts'[b] = accounts[b] + more /\ accounts[b] \in Nat
      BY <1>0, <2>1
    <3>2. DOMAIN accounts' = Business /\ \A c \in Business : c # b => accounts'[c] = accounts[c]
      BY <1>0, <2>1
    <3>3. \A c \in Business : accounts'[c] \in Nat
      BY <1>0, <2>2, <3>1, <3>2
    <3>4. accounts' \in [Business -> Nat]
      BY <2>1, <3>2, <3>3
    <3>5. \A c \in Business : accounts'[c] # accounts[c] =>
              pc[r] = "open-and-pay" /\ c = b /\ accounts'[c] = accounts[c] + 1
      BY <2>2, <3>1, <3>2
    <3> QED BY <3>4, <3>5
  <2>4. /\ paid' \in [User -> Nat] /\ DOMAIN status' = User
        /\ \A x \in User : paid'[x] # paid[x] => x \in mem[r] /\ paid'[x] = paid[x] + 1
    BY <1>0, <2>1
  <2>5. \A x \in User : status'[x] = "CONFIRMED" => status[x] = "CONFIRMED"
    BY <2>1
  <2> HIDE DEF b, more
  <2> QED BY <1>0, <1>5, <2>1, <2>3, <2>4, <2>5 DEF b
<1> QED BY <1>0, <1>1, <1>2, <1>3, <1>4, <1>5, ReferralChanges

(* What another request has found stays so.                                *)
LEMMA OthersReferrals ==
    ASSUME ReferralInv, NEW r \in Request, AccountStep(r), NEW q \in Request \ {r}
    PROVE  Signing(q)' /\ Locking(q)' /\ Listing(q)' /\ Ageing(q)'
<1>0. /\ Framed /\ Staged(r) /\ Staged(q) /\ Apart /\ Bodied /\ Counted /\ Recorded
      /\ Signing(r) /\ Locking(r) /\ Listing(r)
      /\ Signing(q) /\ Locking(q) /\ Listing(q) /\ Ageing(q)
      /\ body' = body /\ pc'[q] = pc[q] /\ mem'[q] = mem[q] /\ lock'[q] = lock[q]
  BY RequestedStep DEF ReferralInv, Requested
<1>1. \A k : k \in lock[r] => k \notin lock[q]
  BY <1>0 DEF Apart
<1>2. Signing(q)'
  <2>1. ASSUME pc[q] = "seed-chart" PROVE workspaces'[body[q].user] = 0
    <3>1. body[q].user \in User /\ workspaces[body[q].user] = 0 /\ SignupKey(body[q].user) \in lock[q]
      BY <1>0, <2>1 DEF Staged, Bodied, Signing
    <3>2. pc[r] = "seed-chart" => body[r].user # body[q].user
      BY <1>0, <1>1, <3>1 DEF Signing
    <3> QED BY <3>1, <3>2, ReferralTablesStep
  <2> QED BY <1>0, <2>1 DEF Signing
<1>3. Locking(q)'
  <2>1. ASSUME body[q].op = "withdraw", pc[q] = "open-and-pay" PROVE accounts'[body[q].business] = 0
    <3>1. /\ body[q].business \in Business /\ accounts[body[q].business] = 0
          /\ BonusKey(body[q].business) \in lock[q]
      BY <1>0, <2>1 DEF Bodied, Locking, Paying
    <3>2. Pay(r) => body[r].business # body[q].business
      BY <1>0, <1>1, <3>1 DEF Locking, Paying, Pay, At
    <3> QED BY <3>1, <3>2, ReferralTablesStep
  <2> QED BY <1>0, <2>1 DEF Locking
<1>4. Listing(q)'
  <2>1. ASSUME body[q].op = "withdraw", pc[q] \in {"account", "open-and-pay", "pay"}, NEW x \in mem[q]
        PROVE  /\ x \in User /\ referrer'[x] = body[q].user
               /\ x \in aged' /\ paid'[x] < confirmed'[x]
    <3>1. /\ x \in User /\ referrer[x] = body[q].user /\ x \in aged /\ paid[x] < confirmed[x]
          /\ PayoutKey(body[q].user) \in lock[q]
          /\ body[q].user \in User
      BY <1>0, <2>1 DEF Listing, Locking, Paying, Bodied, AccountOps
    <3>2. referrer'[x] = referrer[x]
      <4>1. referrer[x] # Nothing
        BY <3>1, ReferralAssumption
      <4>2. workspaces[x] > 0 /\ workspaces[x] \in Nat
        BY <1>0, <3>1, <4>1 DEF Recorded, Counted
      <4> QED BY <3>1, <4>2, ReferralTablesStep
    <3>3. ~(Pay(r) /\ x \in mem[r])
      <4>1. SUFFICES ASSUME Pay(r), x \in mem[r] PROVE FALSE
        OBVIOUS
      <4>2. referrer[x] = body[r].user /\ PayoutKey(body[r].user) \in lock[r]
        BY <1>0, <4>1 DEF Pay, At, Listing, Locking, Paying
      <4> QED BY <1>1, <3>1, <4>2
    <3>4. paid'[x] = paid[x] /\ confirmed[x] <= confirmed'[x] /\ x \in aged'
      BY <3>1, <3>3, ReferralTablesStep
    <3>5. paid[x] \in Nat /\ confirmed[x] \in Nat /\ confirmed'[x] \in Nat
      BY <1>0, <3>1, ReferralTablesStep DEF Counted
    <3> QED BY <3>1, <3>2, <3>4, <3>5
  <2> QED BY <1>0, <2>1 DEF Listing
<1>5. Ageing(q)'
  BY <1>0, ReferralTablesStep DEF Ageing
<1> QED BY <1>2, <1>3, <1>4, <1>5

(* What the request itself finds.                                          *)
LEMMA OwnReferrals ==
    ASSUME ReferralInv, NEW r \in Request, AccountStep(r)
    PROVE  Signing(r)' /\ Locking(r)' /\ Listing(r)' /\ Ageing(r)'
<1>0. /\ Framed /\ Staged(r) /\ Bodied /\ Counted /\ Recorded
      /\ Signing(r) /\ Locking(r) /\ Listing(r) /\ Ageing(r) /\ body' = body /\ Staged(r)'
  BY RequestedStep DEF ReferralInv, Requested
<1> USE DEF Signing, Locking, Listing, Ageing, Paying
<1>1. CASE AdminStep(r)
  <2>1. /\ pc'[r] \notin Paying \cup Confirming \cup (Provisioning \ {"look"})
    BY <1>0, <1>1, AdminStepAside DEF Aside
  <2> QED BY <1>0, <2>1 DEF Confirming, Provisioning
<1>2. CASE Abort(r)
  BY <1>0, <1>2, AbortGoes
<1> USE FinishGoes, AwaitGoes, KeepGoes, TakeGoes DEF referralTables, referrals, users, Begins, At
<1>3. ASSUME Provisioned(r) PROVE pc'[r] \in {"done", "record"}
  BY <1>0, <1>3, FinishGoes DEF Provisioned, Goto, Framed
<1>4. CASE Provision(r)
  BY <1>0, <1>4 DEF Provision
<1>5. CASE LookForWorkspace(r)
  BY <1>0, <1>3, <1>5 DEF LookForWorkspace
<1>6. CASE TakeSignupKey(r)
  BY <1>0, <1>6 DEF TakeSignupKey
<1>7. CASE Recheck(r)
  <2>1. CASE workspaces[body[r].user] > 0
    BY <1>0, <1>3, <1>7, <2>1 DEF Recheck
  <2>2. CASE ~(workspaces[body[r].user] > 0)
    <3>1. Await(r, "seed-chart") /\ UNCHANGED referralTables /\ pc[r] = "recheck"
      BY <1>7, <2>2 DEF Recheck
    <3>2. workspaces[body[r].user] = 0 /\ SignupKey(body[r].user) \in lock[r]
      BY <1>0, <2>2, <3>1 DEF Staged, Bodied, Counted
    <3> QED BY <1>0, <3>1, <3>2
  <2> QED BY <2>1, <2>2
<1>8. CASE CreateWorkspace(r)
  BY <1>0, <1>3, <1>8 DEF CreateWorkspace
<1>9. CASE AssignCode(r)
  BY <1>0, <1>9 DEF AssignCode
<1>10. CASE ListPending(r)
  BY <1>0, <1>10 DEF ListPending, Due
<1>11. CASE Confirm(r)
  <2>1. CASE Finish(r)
    BY <1>0, <2>1
  <2>2. ASSUME NEW x, Keep(r, "confirm", mem[r] \ {x}), aged' = aged PROVE Signing(r)' /\ Locking(r)' /\ Listing(r)' /\ Ageing(r)'
    BY <1>0, <1>11, <2>2 DEF Confirm
  <2> QED BY <1>11, <2>1, <2>2 DEF Confirm, Unpaid
<1>12. CASE TakeBonusKey(r)
  BY <1>0, <1>12 DEF TakeBonusKey
<1>13. CASE TakePayoutKey(r)
  BY <1>0, <1>13 DEF TakePayoutKey
<1>14. CASE ReadPayable(r)
  <2>1. CASE Finish(r)
    BY <1>0, <2>1
  <2>2. CASE Keep(r, "account", Payable(body[r].user))
    BY <1>0, <1>14, <2>2 DEF ReadPayable, Payable, Recorded
  <2> QED BY <1>14, <2>1, <2>2 DEF ReadPayable
<1>15. CASE FindBonusAccount(r)
  BY <1>0, <1>15 DEF FindBonusAccount
<1>16. CASE Pay(r)
  BY <1>0, <1>16 DEF Pay
<1> QED BY <1>1, <1>2, <1>4, <1>5, <1>6, <1>7, <1>8, <1>9, <1>10, <1>11, <1>12, <1>13, <1>14, <1>15, <1>16
        DEF AccountStep, ReferralStep

LEMMA RecordedStep ==
    ASSUME ReferralInv, NEW r \in Request, AccountStep(r)
    PROVE  Recorded' /\ ProvisionedOnce' /\ PayoutsEarned'
<1>0. /\ Framed /\ Staged(r) /\ Bodied /\ Counted /\ Recorded /\ ProvisionedOnce /\ PayoutsEarned
      /\ Signing(r) /\ Locking(r) /\ Listing(r) /\ Ageing(r)
      /\ Counted' /\ aged \subseteq aged' /\ \A x \in User : confirmed[x] <= confirmed'[x]
  BY ReferralTablesStep DEF ReferralInv, Requested
<1>1. ASSUME NEW x \in User PROVE workspaces'[x] <= 1 /\ workspaces[x] <= workspaces'[x]
  <2>1. workspaces[x] \in Nat /\ workspaces[x] <= 1
    BY <1>0 DEF Counted, ProvisionedOnce, OneDefaultWorkspace
  <2>2. workspaces'[x] # workspaces[x] => workspaces[x] = 0 /\ workspaces'[x] = workspaces[x] + 1
    BY <1>0, ReferralTablesStep DEF Signing
  <2> QED BY <2>1, <2>2
<1>2. ASSUME NEW b \in Business PROVE accounts'[b] <= 1
  <2>1. accounts[b] \in Nat /\ accounts[b] <= 1
    BY <1>0 DEF Counted, ProvisionedOnce, OneBonusAccount
  <2>2. accounts'[b] # accounts[b] => accounts[b] = 0 /\ accounts'[b] = accounts[b] + 1
    BY <1>0, ReferralTablesStep DEF Locking, Pay, At
  <2> QED BY <2>1, <2>2
<1>3. ASSUME NEW x \in User
      PROVE  /\ paid'[x] <= confirmed'[x] /\ (paid'[x] > 0 => x \in aged')
             /\ status'[x] = "CONFIRMED" => x \in aged' /\ paid'[x] < confirmed'[x]
  <2>0. /\ paid[x] \in Nat /\ confirmed[x] \in Nat /\ confirmed'[x] \in Nat /\ paid'[x] \in Nat
        /\ paid[x] <= confirmed[x] /\ confirmed[x] <= confirmed'[x]
        /\ paid[x] > 0 => x \in aged
        /\ status[x] = "CONFIRMED" => x \in aged /\ paid[x] < confirmed[x]
    BY <1>0 DEF Counted, PayoutsEarned, PaidPerConfirmation, PaidAfterThirtyDays, Recorded
  <2>1. CASE paid'[x] # paid[x]
    <3>1. Pay(r) /\ x \in mem[r] /\ paid'[x] = paid[x] + 1
      BY <2>1, ReferralTablesStep
    <3>2. x \in aged /\ paid[x] < confirmed[x]
      BY <1>0, <3>1 DEF Listing, Pay, At
    <3>3. status'[x] = "WITHDRAWN"
      BY <3>1 DEF Pay
    <3> QED BY <1>0, <2>0, <3>1, <3>2, <3>3
  <2>2. CASE paid'[x] = paid[x]
    <3>1. CASE Confirm(r) /\ x \in mem[r] /\ confirmed'[x] = confirmed[x] + 1
      <4>1. x \in aged
        BY <1>0, <3>1 DEF Ageing, Confirm, At
      <4> QED BY <1>0, <2>0, <2>2, <3>1, <4>1
    <3>2. CASE status'[x] = "CONFIRMED" => status[x] = "CONFIRMED"
      BY <1>0, <2>0, <2>2, <3>2
    <3> QED BY <3>1, <3>2, ReferralTablesStep
  <2> QED BY <2>1, <2>2
<1>4. ASSUME NEW x \in User, referrer'[x] # Nothing PROVE workspaces'[x] > 0
  <2>1. CASE referrer'[x] # referrer[x]
    BY <2>1, ReferralTablesStep
  <2>2. CASE referrer'[x] = referrer[x]
    <3>1. workspaces[x] > 0 /\ workspaces[x] \in Nat /\ workspaces'[x] \in Nat
      BY <1>0, <1>4, <2>2 DEF Recorded, Counted
    <3> QED BY <1>1, <3>1
  <2> QED BY <2>1, <2>2
<1>5. Recorded'
  BY <1>3, <1>4 DEF Recorded
<1>6. ProvisionedOnce' /\ PayoutsEarned'
  BY <1>1, <1>2, <1>3 DEF ProvisionedOnce, OneDefaultWorkspace, OneBonusAccount,
                          PayoutsEarned, PaidPerConfirmation, PaidAfterThirtyDays
<1> QED BY <1>5, <1>6

LEMMA AgeStep ==
    ASSUME ReferralInv, NEW u \in User, Age(u)
    PROVE  ReferralInv'
<1>1. UNCHANGED <<requests, referrals, coded, workspaces, accounts>> /\ aged \subseteq aged'
  BY DEF Age
<1>2. Requested' /\ Counted'
  BY <1>1 DEF requests, referrals, ReferralInv, Requested, Framed, Apart, Bodied, Staged, Here, Counted
<1>3. \A r \in Request : Signing(r)' /\ Locking(r)' /\ Listing(r)' /\ Ageing(r)'
  BY <1>1 DEF requests, referrals, ReferralInv, Signing, Locking, Listing, Ageing
<1>4. Recorded' /\ ProvisionedOnce' /\ PayoutsEarned'
  BY <1>1 DEF referrals, ReferralInv, Recorded, ProvisionedOnce, OneDefaultWorkspace, OneBonusAccount,
              PayoutsEarned, PaidPerConfirmation, PaidAfterThirtyDays
<1> QED BY <1>2, <1>3, <1>4 DEF ReferralInv

LEMMA ReferralInvariant == PeopleSpec => []ReferralInv
<1>1. ReferralInv /\ [PeopleNext]_peopleVars => ReferralInv'
  <2> SUFFICES ASSUME ReferralInv, [PeopleNext]_peopleVars PROVE ReferralInv'
    OBVIOUS
  <2>1. CASE UNCHANGED <<requests, referralTables>>
    <3>1. Requested' /\ Counted'
      BY <2>1 DEF requests, referralTables, referrals, users, ReferralInv, Requested, Framed, Apart,
                  Bodied, Staged, Here, Counted
    <3>2. \A r \in Request : Signing(r)' /\ Locking(r)' /\ Listing(r)' /\ Ageing(r)'
      BY <2>1 DEF requests, referralTables, referrals, users, ReferralInv, Signing, Locking, Listing, Ageing
    <3>3. Recorded' /\ ProvisionedOnce' /\ PayoutsEarned'
      BY <2>1 DEF referralTables, referrals, users, ReferralInv, Recorded, ProvisionedOnce,
                  OneDefaultWorkspace, OneBonusAccount, PayoutsEarned, PaidPerConfirmation, PaidAfterThirtyDays
    <3> QED BY <3>1, <3>2, <3>3 DEF ReferralInv
  <2>2. ASSUME NEW r \in Request, AccountStep(r) PROVE ReferralInv'
    <3>1. Requested' /\ Counted'
      BY <2>2, RequestedStep, ReferralTablesStep DEF ReferralInv
    <3>2. \A q \in Request : Signing(q)' /\ Locking(q)' /\ Listing(q)' /\ Ageing(q)'
      BY <2>2, OwnReferrals, OthersReferrals
    <3> QED BY <2>2, <3>1, <3>2, RecordedStep DEF ReferralInv
  <2>3. ASSUME NEW u \in User, Age(u) PROVE ReferralInv'
    BY <2>3, AgeStep
  <2>4. ASSUME NEW s \in DOMAIN auth.session, Expire(s) PROVE ReferralInv'
    BY <2>1, <2>4 DEF Expire
  <2> QED BY <2>1, <2>2, <2>3, <2>4 DEF PeopleNext, peopleVars
<1> QED BY <1>1, ReferralStarts, PTL DEF PeopleSpec

(* However many first requests race, a user gets one default workspace;    *)
(* however many payouts, a workspace one referral-bonus account.           *)
THEOREM WorkspacesProvisionedOnce == PeopleSpec => []ProvisionedOnce
<1>1. ReferralInv => ProvisionedOnce
  BY DEF ReferralInv
<1> QED BY <1>1, ReferralInvariant, PTL

(* A referral is paid out at most once for each time it was confirmed, and *)
(* only when the user it brought in has been there for thirty days.        *)
THEOREM ReferralsPaidWhenEarned == PeopleSpec => []PayoutsEarned
<1>1. ReferralInv => PayoutsEarned
  BY DEF ReferralInv
<1> QED BY <1>1, ReferralInvariant, PTL

(***************************************************************************)
(* Sessions, links and passwords: what a step changes                      *)
(***************************************************************************)
AuthTables ==
    {"status", "role", "password", "session", "device", "link", "set", "audit", "attempts"}

AuthTyped ==
    /\ DOMAIN auth = AuthTables
    /\ DOMAIN auth.status = User /\ DOMAIN auth.role = User /\ DOMAIN auth.set = Request
    /\ DOMAIN auth.session = DOMAIN AuthStart.session
    /\ DOMAIN auth.link = DOMAIN AuthStart.link
    /\ \A l \in DOMAIN auth.link : auth.link[l] \in LinkRow \cup {Nothing}
    /\ \A s \in DOMAIN auth.session : auth.session[s] # Nothing =>
          DOMAIN auth.session[s] = {"user", "by", "since", "viewer", "live"}

Kept(table) == auth'[table] = auth[table]

(* Where a step may go from the stages that the properties look at.        *)
LEMMA Leaves ==
    ASSUME NEW r \in Request, AccountStep(r), ~Abort(r)
    PROVE  /\ pc[r] = "others" => ListOthers(r)
           /\ pc[r] = "end-others" => EndOther(r) \/ UnlistOthers(r) \/ AuditOthers(r)
           /\ pc[r] = "end-all" => ResetEndsAll(r)
           /\ pc[r] = "sign-out" => SignOut(r)
           /\ pc[r] = "view-hook" => ViewHook(r)
           /\ pc[r] = "open-view" => OpenView(r)
           /\ pc[r] = "mark-view" => MarkView(r)
<1> SUFFICES ASSUME pc[r] \in {"others", "end-others", "end-all", "sign-out", "view-hook", "open-view", "mark-view"}
             PROVE  \/ pc[r] = "others" /\ ListOthers(r)
                    \/ pc[r] = "end-others" /\ (EndOther(r) \/ UnlistOthers(r) \/ AuditOthers(r))
                    \/ pc[r] = "end-all" /\ ResetEndsAll(r)
                    \/ pc[r] = "sign-out" /\ SignOut(r)
                    \/ pc[r] = "view-hook" /\ ViewHook(r)
                    \/ pc[r] = "open-view" /\ OpenView(r)
                    \/ pc[r] = "mark-view" /\ MarkView(r)
  OBVIOUS
<1>1. ~ReferralStep(r)
  BY DEF ReferralStep, At, Begins, Provision, LookForWorkspace, TakeSignupKey, Recheck, CreateWorkspace,
         AssignCode, ListPending, Confirm, TakeBonusKey, TakePayoutKey, ReadPayable, FindBonusAccount, Pay
<1>2. ~(\/ ChooseSide(r) \/ FromCookie(r) \/ CheckAccount(r) \/ CheckAdminAccount(r)
        \/ VerifyPassword(r) \/ SessionHook(r) \/ OpenSession(r) \/ NameSession(r)
        \/ StampLogin(r) \/ StampAdmin(r) \/ RecordDevice(r) \/ Register(r) \/ SignUp(r))
  BY DEF At, ChooseSide, FromCookie, CheckAccount, CheckAdminAccount, VerifyPassword, SessionHook,
         OpenSession, NameSession, StampLogin, StampAdmin, RecordDevice, Register, SignUp
<1>3. ~(\/ Authenticate(r, Guarded) \/ Authenticate(r, AdminOps)
        \/ Refresh(r) \/ Touch(r) \/ Logout(r) \/ ListDevices(r) \/ FindDevice(r)
        \/ EndSession(r) \/ UnlistDevice(r) \/ CountOthers(r)
        \/ CheckCurrent(r) \/ ChangePassword(r) \/ Forgot(r) \/ MailLink(r)
        \/ FollowLink(r) \/ ClaimLink(r) \/ UnlistAll(r))
  BY DEF At, Authenticate, Refresh, Touch, Logout, ListDevices, FindDevice, EndSession, UnlistDevice,
         CountOthers, CheckCurrent, ChangePassword, Forgot, MailLink, FollowLink, ClaimLink, UnlistAll
<1>4. ~(\/ Audit(r) \/ EmailTaken(r) \/ Hire(r) \/ FindAdmin(r) \/ ChangeAdmin(r)
        \/ AuditFirst(r) \/ Rename(r) \/ FindOwner(r) \/ SetOwnerStatus(r) \/ ChangeOwnerPlan(r)
        \/ WipeOwner(r) \/ StartView(r) \/ ListViews(r) \/ EndView(r)
        \/ RequireTracked(r) \/ SetTracked(r) \/ ChangeTrackedPlan(r))
  BY DEF At, Audit, EmailTaken, Hire, FindAdmin, ChangeAdmin, AuditFirst, Rename, FindOwner,
         SetOwnerStatus, ChangeOwnerPlan, WipeOwner, StartView, ListViews, EndView, RequireTracked,
         SetTracked, ChangeTrackedPlan
<1>5. \/ ListOthers(r) \/ EndOther(r) \/ UnlistOthers(r) \/ AuditOthers(r) \/ ResetEndsAll(r)
      \/ SignOut(r) \/ ViewHook(r) \/ OpenView(r) \/ MarkView(r)
  BY <1>1, <1>2, <1>3, <1>4 DEF AccountStep, AdminStep, SessionStep
<1>6. /\ ListOthers(r) => pc[r] = "others"
      /\ EndOther(r) \/ UnlistOthers(r) \/ AuditOthers(r) => pc[r] = "end-others"
      /\ ResetEndsAll(r) => pc[r] = "end-all"
  BY DEF ListOthers, EndOther, UnlistOthers, AuditOthers, ResetEndsAll, At
<1>7. /\ SignOut(r) => pc[r] = "sign-out"
      /\ ViewHook(r) => pc[r] = "view-hook"
      /\ OpenView(r) => pc[r] = "open-view"
      /\ MarkView(r) => pc[r] = "mark-view"
  BY DEF SignOut, ViewHook, OpenView, MarkView
<1> QED BY <1>5, <1>6, <1>7

(* Which actions change which tables.                                      *)
Touches(r) ==
    /\ AuthTyped'
    /\ Kept("link") \/ MailLink(r) \/ ClaimLink(r)
    /\ Kept("set") \/ ChangePassword(r) \/ ClaimLink(r) \/ ChangeAdmin(r)
    /\ \/ Kept("session") \/ OpenSession(r) \/ SignUp(r) \/ EndSession(r) \/ EndOther(r)
       \/ ResetEndsAll(r) \/ SignOut(r) \/ OpenView(r) \/ MarkView(r) \/ EndView(r)
    /\ \/ Kept("status") /\ Kept("role")
       \/ SignUp(r) \/ Hire(r) \/ ChangeAdmin(r) \/ SetOwnerStatus(r)

LEMMA SameTouch ==
    ASSUME AuthTyped, NEW r, auth' = auth PROVE Touches(r)
BY DEF AuthTyped, Touches, Kept

(* A row of another table is changed.                                      *)
LEMMA MinorTouch ==
    ASSUME AuthTyped, NEW r, NEW i, NEW v,
           \/ auth' = [auth EXCEPT !.audit[i] = v]
           \/ auth' = [auth EXCEPT !.device[i] = v]
           \/ auth' = [auth EXCEPT !.attempts[i] = v]
           \/ auth' = [auth EXCEPT !.device = v]
    PROVE  Touches(r)
BY DEF AuthTyped, AuthTables, Touches, Kept

LEMMA SignInTouches ==
    ASSUME AuthTyped, NEW r \in Request,
           \/ ChooseSide(r) \/ FromCookie(r) \/ CheckAccount(r) \/ CheckAdminAccount(r)
           \/ VerifyPassword(r) \/ SessionHook(r) \/ OpenSession(r) \/ NameSession(r)
           \/ StampLogin(r) \/ StampAdmin(r) \/ RecordDevice(r) \/ Register(r) \/ SignUp(r)
    PROVE  Touches(r)
<1> USE SameTouch, MinorTouch
<1>0. ASSUME Fails(r) PROVE Touches(r)
  BY <1>0 DEF Fails
<1>1. CASE ChooseSide(r) \/ FromCookie(r) \/ NameSession(r) \/ StampLogin(r) \/ Register(r)
  BY <1>1 DEF ChooseSide, FromCookie, NameSession, StampLogin, Register, AuthReads
<1>2. CASE CheckAccount(r) \/ CheckAdminAccount(r) \/ VerifyPassword(r) \/ SessionHook(r)
  BY <1>0, <1>2 DEF CheckAccount, CheckAdminAccount, VerifyPassword, SessionHook
<1>3. CASE StampAdmin(r)
  BY <1>3 DEF StampAdmin
<1>4. CASE RecordDevice(r)
  BY <1>4 DEF RecordDevice
<1>5. CASE OpenSession(r)
  <2>1. auth' = [auth EXCEPT !.session[r] = NewSession(body[r].user, mem[r].by)]
    BY <1>5 DEF OpenSession
  <2>2. AuthTyped' /\ \A t \in AuthTables \ {"session"} : Kept(t)
    BY <2>1 DEF AuthTyped, AuthTables, Kept, NewSession
  <2> QED BY <1>5, <2>2 DEF Touches, AuthTables
<1>6. CASE SignUp(r)
  <2>1. \/ auth' = auth
        \/ auth' = [auth EXCEPT !.status[body[r].user] = "ACTIVE", !.password[body[r].user] = r,
                                !.session[r] = NewSession(body[r].user, r)]
    BY <1>6 DEF SignUp
  <2>2. CASE auth' = auth
    BY <2>2
  <2>3. CASE auth' # auth
    <3>1. DOMAIN NewSession(body[r].user, r) = {"user", "by", "since", "viewer", "live"}
      BY DEF NewSession
    <3>2. /\ DOMAIN auth' = AuthTables /\ DOMAIN auth'.status = User
          /\ auth'.session = [auth.session EXCEPT ![r] = NewSession(body[r].user, r)]
          /\ Kept("link") /\ Kept("set") /\ Kept("role")
      BY <2>1, <2>3 DEF AuthTyped, AuthTables, Kept
    <3> HIDE DEF AuthTables
    <3>3. AuthTyped'
      BY <3>1, <3>2 DEF AuthTyped, Kept
    <3> QED BY <1>6, <3>2, <3>3 DEF Touches
  <2> QED BY <2>2, <2>3
<1> QED BY <1>1, <1>2, <1>3, <1>4, <1>5, <1>6

(* Sessions go.                                                            *)
LEMMA RevokedTouch ==
    ASSUME AuthTyped, NEW ids, auth' = [auth EXCEPT !.session = Revoked(ids)]
    PROVE  /\ AuthTyped' /\ \A t \in AuthTables \ {"session"} : Kept(t)
           /\ \A s \in DOMAIN auth.session :
                auth'.session[s] = IF s \in ids THEN Nothing ELSE auth.session[s]
BY DEF AuthTyped, AuthTables, Kept, Revoked

LEMMA SignOutTouches ==
    ASSUME AuthTyped, NEW r \in Request,
           \/ Refresh(r) \/ Touch(r) \/ Logout(r) \/ ListDevices(r) \/ FindDevice(r)
           \/ EndSession(r) \/ UnlistDevice(r) \/ CountOthers(r) \/ ListOthers(r) \/ EndOther(r)
           \/ UnlistOthers(r) \/ AuditOthers(r)
    PROVE  Touches(r)
<1> USE SameTouch, MinorTouch
<1>1. CASE Refresh(r) \/ Touch(r) \/ Logout(r) \/ ListDevices(r) \/ FindDevice(r) \/ CountOthers(r) \/ ListOthers(r)
  BY <1>1 DEF Refresh, Touch, Logout, ListDevices, FindDevice, CountOthers, ListOthers, AuthReads, Refuse
<1>2. CASE UnlistDevice(r) \/ UnlistOthers(r)
  BY <1>2 DEF UnlistDevice, UnlistOthers
<1>3. CASE AuditOthers(r)
  BY <1>3 DEF AuditOthers
<1>4. CASE EndSession(r) \/ EndOther(r)
  <2>1. PICK ids : auth' = [auth EXCEPT !.session = Revoked(ids)]
    BY <1>4 DEF EndSession, EndOther
  <2> QED BY <1>4, <2>1, RevokedTouch DEF Touches, AuthTables
<1> QED BY <1>1, <1>2, <1>3, <1>4

(* What a claim makes of the tables.                                       *)
LEMMA ClaimMakes ==
    ASSUME AuthTyped, NEW r \in Request, NEW l \in DOMAIN auth.link,
           auth.link[l] # Nothing, auth.link[l].resets = 0, auth' = ClaimedBy(r, l)
    PROVE  /\ AuthTyped'
           /\ \A t \in AuthTables \ {"password", "set", "link"} : Kept(t)
           /\ \A m \in DOMAIN auth.link \ {l} : auth'.link[m] = auth.link[m]
           /\ auth'.link[l] \in LinkRow /\ auth'.link[l].used
<1> DEFINE once == [auth EXCEPT !.link[l].used = TRUE]
           twice == [once EXCEPT !.link[l].resets = @ + 1]
<1>1. auth' = [twice EXCEPT !.password[body[r].user] = r, !.set[r] = body[r].user]
  <2>1. [auth EXCEPT !.link[l].used = TRUE, !.link[l].resets = @ + 1] = twice
    OBVIOUS
  <2> HIDE DEF twice
  <2> QED BY <2>1 DEF ClaimedBy, WithPassword
<1>2. auth.link[l] \in LinkRow
  BY DEF AuthTyped
<1>3. /\ DOMAIN once = AuthTables /\ DOMAIN once.link = DOMAIN auth.link
      /\ \A m \in DOMAIN auth.link \ {l} : once.link[m] = auth.link[m]
      /\ \A t \in AuthTables \ {"link"} : once[t] = auth[t]
      /\ once.link[l] \in LinkRow /\ once.link[l].resets = 0 /\ once.link[l].used
  BY <1>2 DEF LinkRow, AuthTyped, AuthTables
<1> HIDE DEF once
<1>4. /\ DOMAIN twice = AuthTables /\ DOMAIN twice.link = DOMAIN auth.link
      /\ \A m \in DOMAIN auth.link \ {l} : twice.link[m] = auth.link[m]
      /\ \A t \in AuthTables \ {"link"} : twice[t] = auth[t]
      /\ twice.link[l] \in LinkRow
  BY <1>2, <1>3 DEF LinkRow, AuthTables
<1>5. twice.link[l].used
  BY <1>3 DEF AuthTables
<1> HIDE DEF twice
<1>6. /\ DOMAIN auth' = AuthTables /\ auth'.link = twice.link /\ DOMAIN auth'.set = Request
      /\ \A t \in AuthTables \ {"password", "set", "link"} : Kept(t)
  BY <1>1, <1>4 DEF AuthTyped, AuthTables, Kept
<1>7. /\ DOMAIN auth'.link = DOMAIN auth.link
      /\ \A m \in DOMAIN auth'.link : auth'.link[m] \in LinkRow \cup {Nothing}
  BY <1>4, <1>6 DEF AuthTyped
<1>8. Kept("status") /\ Kept("role") /\ Kept("session")
  BY <1>6 DEF AuthTables
<1>9. AuthTyped'
  BY <1>6, <1>7, <1>8 DEF AuthTyped, Kept
<1> QED BY <1>4, <1>5, <1>6, <1>9

LEMMA PasswordTouches ==
    ASSUME AuthTyped, NEW r \in Request, r \in DOMAIN auth.link,
           pc[r] = "claim" /\ body[r].op = "reset" =>
                mem[r].link \in DOMAIN auth.link /\ auth.link[mem[r].link] # Nothing
                /\ (~auth.link[mem[r].link].used => auth.link[mem[r].link].resets = 0),
           body[r].op \in AccountOps => body[r].user \in User,
           \/ Authenticate(r, Guarded) \/ Authenticate(r, AdminOps)
           \/ CheckCurrent(r) \/ ChangePassword(r) \/ Forgot(r) \/ MailLink(r)
           \/ FollowLink(r) \/ ClaimLink(r) \/ ResetEndsAll(r) \/ UnlistAll(r)
    PROVE  Touches(r)
<1> USE SameTouch, MinorTouch
<1>1. CASE Authenticate(r, Guarded) \/ Authenticate(r, AdminOps) \/ CheckCurrent(r) \/ Forgot(r) \/ FollowLink(r)
  BY <1>1 DEF Authenticate, CheckCurrent, Forgot, FollowLink, AuthReads
<1>2. CASE UnlistAll(r)
  BY <1>2 DEF UnlistAll
<1>3. CASE ResetEndsAll(r)
  BY <1>3, RevokedTouch DEF ResetEndsAll, EndAll, Touches, AuthTables
<1>4. CASE ChangePassword(r)
  <2>1. auth' = [auth EXCEPT !.password[body[r].user] = r, !.set[r] = body[r].user]
    BY <1>4 DEF ChangePassword, WithPassword
  <2>2. AuthTyped' /\ \A t \in AuthTables \ {"password", "set"} : Kept(t)
    BY <2>1 DEF AuthTyped, AuthTables, Kept
  <2> QED BY <1>4, <2>2 DEF Touches, AuthTables
<1>5. CASE MailLink(r)
  <2> DEFINE u == body[r].user
             new == [user |-> u, used |-> FALSE, resets |-> 0]
             superseded == [l \in DOMAIN auth.link |->
                IF auth.link[l] # Nothing /\ auth.link[l].user = u
                THEN [auth.link[l] EXCEPT !.used = TRUE] ELSE auth.link[l]]
  <2>1. auth' = [auth EXCEPT !.link = [superseded EXCEPT ![r] = new]] /\ u \in User
    BY <1>5 DEF MailLink, At, AccountOps
  <2>2. new \in LinkRow
    BY <2>1 DEF LinkRow
  <2>3. \A l \in DOMAIN auth.link : superseded[l] \in LinkRow \cup {Nothing}
    <3>1. \A l \in DOMAIN auth.link : auth.link[l] \in LinkRow => [auth.link[l] EXCEPT !.used = TRUE] \in LinkRow
      BY DEF LinkRow
    <3> QED BY <3>1 DEF AuthTyped
  <2> HIDE DEF new, superseded, u
  <2>4. /\ DOMAIN auth' = DOMAIN auth /\ auth'.link = [superseded EXCEPT ![r] = new]
        /\ \A t \in AuthTables \ {"link"} : Kept(t)
    BY <2>1 DEF AuthTyped, AuthTables, Kept
  <2>5. DOMAIN superseded = DOMAIN auth.link
    BY DEF superseded
  <2>6. \A l \in DOMAIN auth.link : auth'.link[l] \in LinkRow \cup {Nothing}
    BY <2>2, <2>3, <2>4, <2>5
  <2>7. AuthTyped'
    BY <2>4, <2>5, <2>6 DEF AuthTyped, AuthTables, Kept
  <2> QED BY <1>5, <2>4, <2>7 DEF Touches, AuthTables
<1>6. CASE ClaimLink(r)
  <2> DEFINE l == mem[r].link
  <2>1. CASE auth' = auth
    BY <2>1
  <2>2. CASE auth' # auth
    <3>1. At(r, "reset", "claim") /\ ~auth.link[l].used /\ auth' = ClaimedBy(r, l)
      BY <1>6, <2>2 DEF ClaimLink
    <3>2. l \in DOMAIN auth.link /\ auth.link[l] # Nothing /\ auth.link[l].resets = 0
      BY <3>1 DEF At
    <3>3. AuthTyped' /\ \A t \in AuthTables \ {"password", "set", "link"} : Kept(t)
      BY <3>1, <3>2, ClaimMakes
    <3> QED BY <1>6, <3>3 DEF Touches, AuthTables
  <2> QED BY <2>1, <2>2
<1> QED BY <1>1, <1>2, <1>3, <1>4, <1>5, <1>6
LEMMA AdminTouches ==
    ASSUME AuthTyped, NEW r \in Request,
           \/ Audit(r) \/ EmailTaken(r) \/ Hire(r) \/ FindAdmin(r) \/ ChangeAdmin(r)
           \/ AuditFirst(r) \/ SignOut(r) \/ Rename(r)
           \/ FindOwner(r) \/ SetOwnerStatus(r) \/ ChangeOwnerPlan(r) \/ WipeOwner(r)
           \/ StartView(r) \/ ViewHook(r) \/ OpenView(r) \/ MarkView(r) \/ ListViews(r) \/ EndView(r)
           \/ RequireTracked(r) \/ SetTracked(r) \/ ChangeTrackedPlan(r)
    PROVE  Touches(r)
<1> USE SameTouch, MinorTouch
<1>1. CASE EmailTaken(r) \/ FindAdmin(r) \/ FindOwner(r) \/ StartView(r) \/ ViewHook(r) \/ ListViews(r)
           \/ RequireTracked(r)
  BY <1>1 DEF EmailTaken, FindAdmin, FindOwner, StartView, ViewHook, ListViews, RequireTracked, Unrecorded
<1>2. CASE Audit(r) \/ AuditFirst(r) \/ Rename(r) \/ ChangeOwnerPlan(r) \/ WipeOwner(r) \/ SetTracked(r)
           \/ ChangeTrackedPlan(r)
  BY <1>2 DEF Audit, AuditFirst, Rename, ChangeOwnerPlan, WipeOwner, SetTracked, ChangeTrackedPlan, AuditedAs
<1>3. CASE Hire(r)
  <2>1. \/ auth' = auth
        \/ auth' = [auth EXCEPT !.status[body[r].target] = "ACTIVE", !.role[body[r].target] = body[r].role,
                                !.password[body[r].target] = r]
    BY <1>3 DEF Hire
  <2>2. CASE auth' = auth
    BY <2>2
  <2>3. CASE auth' # auth
    <3>1. AuthTyped' /\ Kept("link") /\ Kept("set") /\ Kept("session")
      BY <2>1, <2>3 DEF AuthTyped, AuthTables, Kept
    <3> QED BY <1>3, <3>1 DEF Touches
  <2> QED BY <2>2, <2>3
<1>4. CASE ChangeAdmin(r)
  <2>1. \/ auth' = [auth EXCEPT !.role[body[r].target] = body[r].role]
        \/ auth' = [auth EXCEPT !.status[body[r].target] = "SUSPENDED"]
        \/ auth' = [auth EXCEPT !.status[body[r].target] = "ACTIVE"]
        \/ auth' = [auth EXCEPT !.password[body[r].target] = r, !.set[r] = body[r].target]
    BY <1>4 DEF ChangeAdmin, Changed, WithPassword
  <2>2. AuthTyped' /\ Kept("link") /\ Kept("session")
    <3>1. \A t, u, v : t \in {"role", "status"} /\ auth' = [auth EXCEPT ![t][u] = v]
                => AuthTyped' /\ Kept("link") /\ Kept("session")
      BY DEF AuthTyped, AuthTables, Kept
    <3>2. \A u : auth' = [auth EXCEPT !.password[u] = r, !.set[r] = u]
                => AuthTyped' /\ Kept("link") /\ Kept("session")
      BY DEF AuthTyped, AuthTables, Kept
    <3> QED BY <2>1, <3>1, <3>2
  <2> QED BY <1>4, <2>2 DEF Touches
<1>5. CASE SignOut(r)
  BY <1>5, RevokedTouch DEF SignOut, EndAll, Touches, AuthTables
<1>6. CASE SetOwnerStatus(r)
  <2>1. PICK to : auth' = [auth EXCEPT !.status[body[r].target] = to, !.audit[r] = body[r].op]
    BY <1>6 DEF SetOwnerStatus, AuditedAs
  <2>2. AuthTyped' /\ Kept("link") /\ Kept("set") /\ Kept("session")
    BY <2>1 DEF AuthTyped, AuthTables, Kept
  <2> QED BY <1>6, <2>2 DEF Touches
<1>7. CASE OpenView(r)
  <2>1. auth' = [auth EXCEPT !.session[r] = NewSession(body[r].target, Nothing)]
    BY <1>7 DEF OpenView
  <2>2. AuthTyped' /\ \A t \in AuthTables \ {"session"} : Kept(t)
    BY <2>1 DEF AuthTyped, AuthTables, Kept, NewSession
  <2> QED BY <1>7, <2>2 DEF Touches, AuthTables
<1>8. CASE MarkView(r)
  <2>1. CASE auth' = auth
    BY <2>1
  <2>2. CASE auth' # auth
    <3>1. auth.session[r] # Nothing /\ r \in DOMAIN auth.session
          /\ auth' = [auth EXCEPT !.session[r].viewer = body[r].user, !.audit[r] = body[r].op]
      BY <1>8, <2>2, AuthAssumption DEF MarkView, AuditedAs, AuthTyped
    <3>2. DOMAIN auth' = AuthTables /\ (\A t \in AuthTables \ {"session", "audit"} : Kept(t))
          /\ auth'.session = [auth.session EXCEPT ![r] = [auth.session[r] EXCEPT !.viewer = body[r].user]]
      BY <3>1 DEF AuthTyped, AuthTables, Kept
    <3>3. AuthTyped'
      BY <3>1, <3>2 DEF AuthTyped, AuthTables, Kept
    <3> QED BY <1>8, <3>2, <3>3 DEF Touches, AuthTables
  <2> QED BY <2>1, <2>2
<1>9. CASE EndView(r)
  <2>1. PICK ids : auth' = [auth EXCEPT !.session = Revoked(ids)]
    BY <1>9 DEF EndView
  <2> QED BY <1>9, <2>1, RevokedTouch DEF Touches, AuthTables
<1> QED BY <1>1, <1>2, <1>3, <1>4, <1>5, <1>6, <1>7, <1>8, <1>9
(***************************************************************************)
(* A reset link works once                                                 *)
(***************************************************************************)

(* A request that has followed a link has followed one that is there.      *)
Linking(r) ==
    body[r].op = "reset" /\ pc[r] = "claim" =>
        mem[r].link \in DOMAIN auth.link /\ auth.link[mem[r].link] # Nothing

(* A link that is not used has reset nothing.                              *)
Linked ==
    \A l \in DOMAIN auth.link :
        auth.link[l] # Nothing /\ ~auth.link[l].used => auth.link[l].resets = 0

LinkInv ==
    /\ Requested /\ AuthTyped /\ Linked
    /\ \A r \in Request : Linking(r)

LEMMA AccountTouches ==
    ASSUME LinkInv, NEW r \in Request, AccountStep(r)
    PROVE  Touches(r)
<1>1. Framed /\ Staged(r) /\ AuthTyped /\ (body[r].op \in AccountOps => body[r].user \in User)
      /\ r \in DOMAIN auth.link
  BY AuthAssumption DEF LinkInv, Requested, Bodied, AuthTyped
<1>2. pc[r] = "claim" /\ body[r].op = "reset" =>
        /\ mem[r].link \in DOMAIN auth.link /\ auth.link[mem[r].link] # Nothing
        /\ ~auth.link[mem[r].link].used => auth.link[mem[r].link].resets = 0
  BY DEF LinkInv, Linking, Linked
<1>3. CASE auth' = auth
  BY <1>1, <1>3, SameTouch
<1> QED BY <1>1, <1>2, <1>3, SignInTouches, SignOutTouches, PasswordTouches, AdminTouches
        DEF AccountStep, AdminStep, SessionStep

(* The stages that a step of the referrals can lead to.                    *)
LEMMA ReferralGoes ==
    ASSUME Framed, NEW r \in Request, ReferralStep(r)
    PROVE  pc'[r] \in {"done", "record"} \cup Provisioning \cup Paying \cup Confirming
<1> USE FinishGoes, AwaitGoes, KeepGoes, TakeGoes
    DEF At, Begins, Paying, Confirming, Provisioning, Unpaid
<1>0. ASSUME Provisioned(r) PROVE pc'[r] \in {"done", "record"}
  BY <1>0 DEF Provisioned, Goto, Framed
<1>1. CASE Provision(r) \/ LookForWorkspace(r) \/ TakeSignupKey(r)
  BY <1>0, <1>1 DEF Provision, LookForWorkspace, TakeSignupKey
<1>2. CASE Recheck(r) \/ CreateWorkspace(r)
  BY <1>0, <1>2 DEF Recheck, CreateWorkspace
<1>3. CASE AssignCode(r) \/ ListPending(r)
  BY <1>3 DEF AssignCode, ListPending
<1>4. CASE Confirm(r)
  BY <1>4 DEF Confirm
<1>5. CASE TakeBonusKey(r) \/ TakePayoutKey(r) \/ ReadPayable(r) \/ FindBonusAccount(r) \/ Pay(r)
  BY <1>5 DEF TakeBonusKey, TakePayoutKey, ReadPayable, FindBonusAccount, Pay
<1> QED BY <1>1, <1>2, <1>3, <1>4, <1>5 DEF ReferralStep

LEMMA AccountEnters ==
    ASSUME Requested, NEW r \in Request, AccountStep(r)
    PROVE  Enters(r)
<1>1. Framed /\ Staged(r)
  BY DEF Requested
<1>2. CASE Abort(r)
  BY <1>1, <1>2, AbortGoes DEF Enters
<1>3. CASE AdminStep(r)
  BY <1>1, <1>3, AdminStepAside DEF Aside
<1>4. CASE ReferralStep(r)
  BY <1>1, <1>4, ReferralGoes DEF Enters, Paying, Confirming, Provisioning
<1> QED BY <1>2, <1>3, <1>4 DEF AccountStep

(* Links stay, and one that is not used has reset nothing.                 *)
LEMMA LinksStep ==
    ASSUME LinkInv, NEW r \in Request, AccountStep(r)
    PROVE  /\ Linked'
           /\ \A l \in DOMAIN auth.link : auth.link[l] # Nothing => auth'.link[l] # Nothing
<1>1. Touches(r) /\ AuthTyped /\ AuthTyped' /\ Linked /\ Nothing \notin LinkRow
      /\ DOMAIN auth'.link = DOMAIN auth.link
  BY AccountTouches, AuthAssumption DEF LinkInv, Touches, AuthTyped
<1>2. CASE Kept("link")
  BY <1>1, <1>2 DEF Kept, Linked
<1>3. CASE MailLink(r)
  <2> DEFINE u == body[r].user
             new == [user |-> u, used |-> FALSE, resets |-> 0]
             superseded == [l \in DOMAIN auth.link |->
                IF auth.link[l] # Nothing /\ auth.link[l].user = u
                THEN [auth.link[l] EXCEPT !.used = TRUE] ELSE auth.link[l]]
  <2>1. auth'.link = [superseded EXCEPT ![r] = new] /\ u \in User
    BY <1>1, <1>3 DEF MailLink, At, AuthTyped, AuthTables, LinkInv, Requested, Bodied, AccountOps
  <2>2. new.resets = 0 /\ new \in LinkRow
    BY <2>1 DEF LinkRow
  <2>3. \A l \in DOMAIN auth.link : auth.link[l] # Nothing =>
            /\ superseded[l] # Nothing
            /\ ~superseded[l].used => superseded[l].resets = 0
    <3>1. \A x \in LinkRow : [x EXCEPT !.used = TRUE] \in LinkRow /\ [x EXCEPT !.used = TRUE].used
      BY DEF LinkRow
    <3> QED BY <1>1, <3>1 DEF AuthTyped, Linked
  <2>4. \A l \in DOMAIN auth.link : auth.link[l] = Nothing => superseded[l] = Nothing
    OBVIOUS
  <2>5. DOMAIN superseded = DOMAIN auth.link
    OBVIOUS
  <2> HIDE DEF new, superseded, u
  <2> QED BY <1>1, <2>1, <2>2, <2>3, <2>4, <2>5 DEF Linked
<1>4. CASE ClaimLink(r)
  <2> DEFINE l == mem[r].link
  <2>1. CASE auth' = auth
    BY <1>1, <1>2, <2>1 DEF Kept
  <2>2. CASE auth' # auth
    <3>1. At(r, "reset", "claim") /\ ~auth.link[l].used /\ auth' = ClaimedBy(r, l)
      BY <1>4, <2>2 DEF ClaimLink
    <3>2. l \in DOMAIN auth.link /\ auth.link[l] # Nothing /\ auth.link[l].resets = 0
      BY <1>1, <3>1 DEF At, LinkInv, Linking, Linked
    <3> QED BY <1>1, <3>1, <3>2, ClaimMakes DEF Linked
  <2> QED BY <2>1, <2>2
<1> QED BY <1>1, <1>2, <1>3, <1>4 DEF Touches
LEMMA LinkStarts == RequestsInit /\ AuthInit => LinkInv
<1> SUFFICES ASSUME RequestsInit, AuthInit PROVE LinkInv
  OBVIOUS
<1>1. AuthTyped /\ Linked
  BY AuthAssumption DEF AuthInit, AuthTyped, AuthTables, Linked
<1>2. \A r \in Request : Linking(r)
  BY RequestsStart DEF Linking
<1> QED BY <1>1, <1>2, RequestedStarts DEF LinkInv

LEMMA LinkStep ==
    ASSUME LinkInv, NEW r \in Request, AccountStep(r)
    PROVE  LinkInv'
<1>1. /\ Requested' /\ body' = body
      /\ \A q \in Request \ {r} : pc'[q] = pc[q] /\ mem'[q] = mem[q]
  BY RequestedStep DEF LinkInv
<1>2. /\ AuthTyped' /\ Linked' /\ DOMAIN auth'.link = DOMAIN auth.link
      /\ \A l \in DOMAIN auth.link : auth.link[l] # Nothing => auth'.link[l] # Nothing
  BY AccountTouches, LinksStep DEF LinkInv, Touches, AuthTyped
<1>3. \A q \in Request \ {r} : Linking(q)'
  BY <1>1, <1>2 DEF LinkInv, Linking
<1>4. pc'[r] = "claim" => FollowLink(r)
  BY AccountEnters DEF LinkInv, Enters
<1>5. Linking(r)'
  <2> SUFFICES ASSUME pc'[r] = "claim"
               PROVE  mem'[r].link \in DOMAIN auth.link /\ auth.link[mem'[r].link] # Nothing
    BY <1>1, <1>2 DEF Linking
  <2>1. PICK l \in Held(DOMAIN auth.link) :
            auth.link[l] # Nothing /\ (Finish(r) \/ Keep(r, "claim", [link |-> l, by |-> r]))
    BY <1>4 DEF FollowLink
  <2>2. l \in DOMAIN auth.link /\ mem'[r] = [link |-> l, by |-> r]
    BY <2>1, FinishGoes, KeepGoes DEF Held, LinkInv, Requested
  <2> QED BY <2>1, <2>2
<1> QED BY <1>1, <1>2, <1>3, <1>5 DEF LinkInv

(* Time touches neither a link nor whose session it is.                    *)
LEMMA TimeKeeps ==
    ASSUME AuthTyped,
           \/ \E u \in User : Age(u) /\ UNCHANGED <<auth, admin>>
           \/ \E s \in DOMAIN auth.session : Expire(s)
    PROVE  /\ UNCHANGED requests /\ AuthTyped'
           /\ \A t \in AuthTables \ {"session"} : Kept(t)
           /\ \A s \in DOMAIN auth.session :
                /\ s \in Request => auth'.session[s] = auth.session[s]
                /\ auth'.session[s] # Nothing =>
                      /\ auth.session[s] # Nothing
                      /\ auth'.session[s].user = auth.session[s].user
                      /\ auth'.session[s].since = auth.session[s].since
<1>1. CASE auth' = auth /\ UNCHANGED requests
  BY <1>1 DEF AuthTyped, Kept
<1>2. ASSUME NEW s \in DOMAIN auth.session, Expire(s)
      PROVE  /\ UNCHANGED requests /\ auth.session[s] # Nothing /\ s \notin Request
             /\ auth' = [auth EXCEPT !.session[s].live = FALSE]
  BY <1>2 DEF Expire
<1>3. ASSUME NEW s \in DOMAIN auth.session, auth.session[s] # Nothing,
             auth' = [auth EXCEPT !.session[s].live = FALSE]
      PROVE  /\ AuthTyped' /\ \A t \in AuthTables \ {"session"} : Kept(t)
             /\ \A x \in DOMAIN auth.session \ {s} : auth'.session[x] = auth.session[x]
             /\ auth'.session[s].user = auth.session[s].user
             /\ auth'.session[s].since = auth.session[s].since
  <2>1. auth'.session = [auth.session EXCEPT ![s] = [auth.session[s] EXCEPT !.live = FALSE]]
        /\ DOMAIN auth' = AuthTables /\ \A t \in AuthTables \ {"session"} : Kept(t)
    BY <1>3 DEF AuthTyped, AuthTables, Kept
  <2>2. DOMAIN auth.session[s] = {"user", "by", "since", "viewer", "live"}
    BY <1>3 DEF AuthTyped
  <2> QED BY <2>1, <2>2 DEF AuthTyped, AuthTables, Kept
<1>4. ASSUME NEW u \in User, Age(u) PROVE UNCHANGED requests
  BY <1>4 DEF Age
<1> QED BY <1>1, <1>2, <1>3, <1>4

LEMMA LinkInvariant == PeopleSpec => []LinkInv
<1>1. LinkInv /\ [PeopleNext]_peopleVars => LinkInv'
  <2> SUFFICES ASSUME LinkInv, [PeopleNext]_peopleVars PROVE LinkInv'
    OBVIOUS
  <2>1. ASSUME UNCHANGED requests, Kept("link"), AuthTyped' PROVE LinkInv'
    <3>1. Requested' /\ Linked' /\ auth'.link = auth.link
      BY <2>1 DEF requests, LinkInv, Requested, Framed, Apart, Bodied, Staged, Here, Linked, Kept
    <3> QED BY <2>1, <3>1 DEF requests, LinkInv, Linking
  <2>2. CASE UNCHANGED peopleVars
    BY <2>1, <2>2 DEF peopleVars, Kept, LinkInv, AuthTyped
  <2>3. ASSUME NEW r \in Request, AccountStep(r) PROVE LinkInv'
    BY <2>3, LinkStep
  <2>4. CASE \/ \E u \in User : Age(u) /\ UNCHANGED <<auth, admin>>
             \/ \E s \in DOMAIN auth.session : Expire(s)
    BY <2>1, <2>4, TimeKeeps DEF LinkInv, AuthTables
  <2> QED BY <2>2, <2>3, <2>4 DEF PeopleNext
<1> QED BY <1>1, LinkStarts, PTL DEF PeopleSpec

(* "A link really is single-use", however many resets race with it.        *)
THEOREM LinksWorkOnce == PeopleSpec => []LinkOnce
<1>1. LinkInv => LinkOnce
  BY DEF LinkInv, AuthTyped, LinkRow, LinkOnce
<1> QED BY <1>1, LinkInvariant, PTL
(***************************************************************************)
(* Sessions only come by being opened                                      *)
(***************************************************************************)
Opens(r) == OpenSession(r) \/ SignUp(r) \/ OpenView(r)

(* What is there after a step was there before, as it is but for the mark  *)
(* of its viewer, or the step has opened it under its request's name.      *)
SessionsMove(r) ==
    \A s \in DOMAIN auth.session : auth'.session[s] # Nothing =>
        \/ /\ auth.session[s] # Nothing
           /\ auth'.session[s].user = auth.session[s].user
           /\ auth'.session[s].since = auth.session[s].since
           /\ \/ auth'.session[s].viewer = auth.session[s].viewer
              \/ s = r /\ MarkView(r)
        \/ /\ s = r /\ Opens(r)
           /\ auth'.session[s].since = PasswordsSet(auth'.session[s].user)

LEMMA SessionsStep ==
    ASSUME LinkInv, NEW r \in Request, AccountStep(r)
    PROVE  SessionsMove(r)
<1>0. AuthTyped /\ AuthTyped' /\ Touches(r) /\ r \in DOMAIN auth.session
  BY AccountTouches, AuthAssumption DEF LinkInv, Touches, AuthTyped
<1>1. CASE Kept("session")
  BY <1>1 DEF Kept, SessionsMove
<1>2. ASSUME NEW ids, auth' = [auth EXCEPT !.session = Revoked(ids)] PROVE SessionsMove(r)
  BY <1>0, <1>2, RevokedTouch DEF SessionsMove
<1>3. CASE EndSession(r) \/ EndOther(r) \/ EndView(r)
  BY <1>2, <1>3 DEF EndSession, EndOther, EndView
<1>4. CASE ResetEndsAll(r) \/ SignOut(r)
  BY <1>2, <1>4 DEF ResetEndsAll, SignOut, EndAll
<1>5. ASSUME NEW u, NEW by, Opens(r), auth'.session = [auth.session EXCEPT ![r] = NewSession(u, by)]
      PROVE  SessionsMove(r)
  <2>1. auth'.session[r].since = PasswordsSet(auth'.session[r].user)
    BY <1>0, <1>5 DEF NewSession
  <2>2. \A s \in DOMAIN auth.session \ {r} : auth'.session[s] = auth.session[s]
    BY <1>5
  <2> QED BY <1>5, <2>1, <2>2 DEF SessionsMove
<1>6. CASE OpenSession(r) \/ OpenView(r)
  BY <1>0, <1>5, <1>6 DEF OpenSession, OpenView, Opens, AuthTyped, AuthTables
<1>7. CASE SignUp(r)
  <2>1. CASE auth' = auth
    BY <1>1, <2>1 DEF Kept
  <2>2. CASE auth' # auth
    <3>1. auth'.session = [auth.session EXCEPT ![r] = NewSession(body[r].user, r)]
      BY <1>0, <1>7, <2>2 DEF SignUp, AuthTyped, AuthTables
    <3> QED BY <1>5, <1>7, <3>1 DEF Opens
  <2> QED BY <2>1, <2>2
<1>8. CASE MarkView(r)
  <2>1. CASE auth' = auth
    BY <1>1, <2>1 DEF Kept
  <2>2. CASE auth' # auth
    <3>1. auth.session[r] # Nothing
          /\ auth'.session = [auth.session EXCEPT ![r] = [auth.session[r] EXCEPT !.viewer = body[r].user]]
      BY <1>0, <1>8, <2>2 DEF MarkView, AuditedAs, AuthTyped, AuthTables
    <3>2. auth'.session[r].user = auth.session[r].user /\ auth'.session[r].since = auth.session[r].since
      BY <1>0, <3>1 DEF AuthTyped
    <3> QED BY <1>0, <1>8, <3>1, <3>2 DEF SessionsMove
  <2> QED BY <2>1, <2>2
<1> QED BY <1>0, <1>1, <1>3, <1>4, <1>6, <1>7, <1>8 DEF Touches

(***************************************************************************)
(* An admin's view of an account only reads                                *)
(***************************************************************************)

(* Whom an admin is to change is an admin.                                 *)
Ruling(r) ==
    body[r].op \in {"promote", "suspend", "activate", "password"} /\ pc[r] = "change" =>
        IsAdmin(body[r].target)

(* A view is of a customer; an answered one is marked with its viewer.     *)
Viewing(r) ==
    body[r].op = "view" =>
        /\ pc[r] \in {"view-hook", "open-view", "mark-view"} => IsOwner(body[r].target)
        /\ pc[r] \in {"start", "enter", "view-hook", "open-view"} => auth.session[r] = Nothing
        /\ auth.session[r] # Nothing =>
              /\ auth.session[r].user = body[r].target /\ IsOwner(body[r].target)
              /\ pc[r] = "done" => auth.session[r].viewer # Nothing

(* What has passed the guard to act is no view's session.                  *)
Acting(r) ==
    body[r].op \in {"change", "revoke"} /\ pc[r] \in {"enter", "set", "others"} =>
        LET s == mem[r].session IN s \in Request => body[s].op # "view"

ViewInv ==
    /\ LinkInv
    /\ \A r \in Request : Ruling(r) /\ Viewing(r) /\ Acting(r)

(* Once a user exists, they stay, as a customer or as an admin.            *)
LEMMA RolesStay ==
    ASSUME ViewInv, NEW r \in Request, AccountStep(r), NEW u \in User
    PROVE  (IsOwner(u) => IsOwner(u)') /\ (IsAdmin(u) => IsAdmin(u)')
<1>0. AuthTyped /\ AuthTyped' /\ Touches(r) /\ Ruling(r)
      /\ (body[r].op \in {"hire", "promote"} => body[r].role # "USER")
  BY AccountTouches DEF ViewInv, LinkInv, Touches, Requested, Bodied
<1> USE DEF IsOwner, IsAdmin, IsAdminRole
<1>1. CASE Kept("status") /\ Kept("role")
  BY <1>1 DEF Kept
<1>2. CASE SignUp(r)
  <2>1. \/ auth' = auth
        \/ /\ auth'.role = auth.role
           /\ auth'.status = [auth.status EXCEPT ![body[r].user] = "ACTIVE"]
    BY <1>0, <1>2 DEF SignUp, AuthTyped, AuthTables
  <2> QED BY <1>0, <2>1 DEF AuthTyped
<1>3. CASE Hire(r)
  <2>1. \/ auth' = auth
        \/ /\ auth.status[body[r].target] = "NONE" /\ body[r].op = "hire"
           /\ auth'.role = [auth.role EXCEPT ![body[r].target] = body[r].role]
           /\ auth'.status = [auth.status EXCEPT ![body[r].target] = "ACTIVE"]
    BY <1>0, <1>3 DEF Hire, At, AuthTyped, AuthTables
  <2> QED BY <1>0, <2>1 DEF AuthTyped
<1>4. CASE ChangeAdmin(r)
  <2>1. \/ auth'.role = auth.role /\ auth'.status = auth.status
        \/ /\ auth'.role = auth.role
           /\ \E v \in {"ACTIVE", "SUSPENDED"} : auth'.status = [auth.status EXCEPT ![body[r].target] = v]
        \/ /\ body[r].op = "promote" /\ IsAdmin(body[r].target)
           /\ auth'.role = [auth.role EXCEPT ![body[r].target] = body[r].role]
           /\ auth'.status = auth.status
    <3>1. body[r].op \in {"promote", "suspend", "activate", "password"} /\ pc[r] = "change"
          /\ auth' = Changed(body[r], r) /\ IsAdmin(body[r].target)
      BY <1>0, <1>4 DEF ChangeAdmin, Ruling
    <3>2. CASE body[r].op = "promote"
      BY <1>0, <3>1, <3>2 DEF Changed, AuthTyped, AuthTables
    <3>3. CASE body[r].op = "suspend"
      BY <1>0, <3>1, <3>3 DEF Changed, AuthTyped, AuthTables
    <3>4. CASE body[r].op = "activate"
      BY <1>0, <3>1, <3>4 DEF Changed, AuthTyped, AuthTables
    <3>5. CASE body[r].op = "password"
      BY <1>0, <3>1, <3>5 DEF Changed, WithPassword, AuthTyped, AuthTables
    <3> QED BY <3>1, <3>2, <3>3, <3>4, <3>5
  <2> QED BY <1>0, <2>1 DEF AuthTyped
<1>5. CASE SetOwnerStatus(r)
  <2>1. PICK to \in {"ACTIVE", "SUSPENDED"} :
            auth' = [auth EXCEPT !.status[body[r].target] = to, !.audit[r] = body[r].op]
    BY <1>5 DEF SetOwnerStatus, AuditedAs
  <2>2. auth'.role = auth.role /\ auth'.status = [auth.status EXCEPT ![body[r].target] = to]
    BY <1>0, <2>1 DEF AuthTyped, AuthTables
  <2> QED BY <1>0, <2>2 DEF AuthTyped
<1> QED BY <1>0, <1>1, <1>2, <1>3, <1>4, <1>5 DEF Touches
LEMMA OthersViews ==
    ASSUME ViewInv, NEW r \in Request, AccountStep(r), NEW q \in Request \ {r}
    PROVE  Ruling(q)' /\ Viewing(q)' /\ Acting(q)'
<1>1. /\ body' = body /\ pc'[q] = pc[q] /\ mem'[q] = mem[q] /\ q \in DOMAIN auth.session
      /\ Ruling(q) /\ Viewing(q) /\ Acting(q)
      /\ body[q].op \in AdminOps => body[q].target \in User
  BY RequestedStep, AuthAssumption DEF ViewInv, LinkInv, AuthTyped, Requested, Bodied
<1>2. body[q].op \in AdminOps =>
        /\ IsOwner(body[q].target) => IsOwner(body[q].target)'
        /\ IsAdmin(body[q].target) => IsAdmin(body[q].target)'
  BY <1>1, RolesStay
<1>3. auth'.session[q] # Nothing =>
        /\ auth.session[q] # Nothing
        /\ auth'.session[q].user = auth.session[q].user
        /\ auth'.session[q].viewer = auth.session[q].viewer
  BY <1>1, SessionsStep DEF ViewInv, SessionsMove
<1>4. Ruling(q)'
  BY <1>1, <1>2 DEF Ruling, AdminOps
<1>5. Viewing(q)'
  BY <1>1, <1>2, <1>3 DEF Viewing, AdminOps
<1>6. Acting(q)'
  BY <1>1 DEF Acting
<1> QED BY <1>4, <1>5, <1>6

LEMMA OwnRuling ==
    ASSUME ViewInv, NEW r \in Request, AccountStep(r)
    PROVE  Ruling(r)'
<1>1. pc'[r] = "change" => FindAdmin(r)
  BY AccountEnters DEF ViewInv, LinkInv, Enters
<1>2. Framed /\ body' = body
  BY RequestedStep DEF ViewInv, LinkInv, Requested
<1>3. FindAdmin(r) /\ pc'[r] = "change" => MayChange(body[r]) /\ auth' = auth
  BY <1>2, FinishGoes DEF FindAdmin, Unrecorded
<1> QED BY <1>1, <1>2, <1>3 DEF Ruling, MayChange, IsAdmin, IsAdminRole

LEMMA OwnViewing ==
    ASSUME ViewInv, NEW r \in Request, AccountStep(r)
    PROVE  Viewing(r)'
<1> SUFFICES ASSUME body[r].op = "view" PROVE Viewing(r)'
  BY RequestedStep DEF ViewInv, LinkInv, Viewing
<1>1. /\ Framed /\ Viewing(r) /\ body' = body /\ r \in DOMAIN auth.session /\ AuthTyped /\ AuthTyped'
      /\ body[r].user \in User /\ body[r].target \in User /\ Nothing \notin User
      /\ pc[r] \in {"start", "done", "failed", "enter", "view-hook", "open-view", "mark-view"}
      /\ pc[r] \notin {"done", "failed"}
  BY RequestedStep, AccountTouches, AuthAssumption, ReferralAssumption
     DEF ViewInv, LinkInv, AuthTyped, Requested, Bodied, Touches, AccountOps, AdminOps, Staged, Here, Ended
<1>2. IsOwner(body[r].target) => IsOwner(body[r].target)'
  BY <1>1, RolesStay
<1>3. Enters(r) /\ SessionsMove(r)
  BY AccountEnters, SessionsStep DEF ViewInv, LinkInv
<1>4. pc'[r] = "enter" => pc[r] = "start" /\ auth' = auth
  BY <1>3 DEF Enters, Authenticate, AuthReads
<1>5. StartView(r) /\ pc'[r] = "view-hook" => pc[r] = "enter" /\ IsOwner(body[r].target) /\ auth' = auth
  BY <1>1, FinishGoes DEF StartView, At, Unrecorded
<1>6. ViewHook(r) => pc[r] = "view-hook" /\ auth' = auth
  BY DEF ViewHook, Unrecorded
<1>7. OpenView(r) => /\ pc[r] = "open-view" /\ pc'[r] = "mark-view"
                     /\ auth'.session[r].user = body[r].target
  BY <1>1, AwaitGoes DEF OpenView, NewSession, AuthTyped, AuthTables
<1>8. Opens(r) => OpenView(r)
  BY DEF Opens, OpenSession, SignUp, At, ViewInv, LinkInv, Requested, Staged
<1>9. MarkView(r) /\ auth.session[r] # Nothing => auth'.session[r].viewer = body[r].user
  <2>1. CASE MarkView(r) /\ auth.session[r] # Nothing
    <3>1. auth'.session = [auth.session EXCEPT ![r] = [auth.session[r] EXCEPT !.viewer = body[r].user]]
      BY <1>1, <2>1 DEF MarkView, AuditedAs, AuthTyped, AuthTables
    <3> QED BY <1>1, <2>1, <3>1 DEF AuthTyped
  <2> QED BY <2>1
<1>10. pc[r] = "mark-view" => MarkView(r) \/ pc'[r] = "failed"
  BY <1>1, Leaves, AbortGoes
<1>11. pc'[r] \in {"view-hook", "open-view", "mark-view"} => IsOwner(body[r].target)'
  BY <1>1, <1>2, <1>3, <1>5, <1>6, <1>7 DEF Viewing, Enters
<1>12. pc'[r] \in {"start", "enter", "view-hook", "open-view"} => auth'.session[r] = Nothing
  BY <1>1, <1>3, <1>4, <1>5, <1>6 DEF Viewing, Enters
<1>13. ASSUME auth'.session[r] # Nothing
       PROVE  /\ auth'.session[r].user = body[r].target /\ IsOwner(body[r].target)'
              /\ pc'[r] = "done" => auth'.session[r].viewer # Nothing
  <2>1. CASE OpenView(r)
    BY <1>1, <1>2, <1>7, <2>1 DEF Viewing
  <2>2. CASE ~OpenView(r)
    <3>1. auth.session[r] # Nothing /\ auth'.session[r].user = auth.session[r].user
      BY <1>1, <1>3, <1>8, <1>13, <2>2 DEF SessionsMove
    <3>2. pc[r] = "mark-view"
      BY <1>1, <3>1 DEF Viewing
    <3> QED BY <1>1, <1>2, <1>9, <1>10, <3>1, <3>2 DEF Viewing
  <2> QED BY <2>1, <2>2
<1> QED BY <1>1, <1>11, <1>12, <1>13 DEF Viewing

LEMMA OwnActing ==
    ASSUME ViewInv, NEW r \in Request, AccountStep(r)
    PROVE  Acting(r)'
<1>1. Framed /\ body' = body /\ Acting(r) /\ Enters(r)
  BY RequestedStep, AccountEnters DEF ViewInv, LinkInv, Requested
<1> SUFFICES ASSUME body[r].op \in {"change", "revoke"}, pc'[r] \in {"enter", "set", "others"},
                    mem'[r].session \in Request
             PROVE  body[mem'[r].session].op # "view"
  BY <1>1 DEF Acting
<1>2. ASSUME NEW ops, Authenticate(r, ops), pc'[r] = "enter"
      PROVE  body[mem'[r].session].op # "view"
  <2>1. PICK s \in FindActive(body[r].user) :
            Admits(body[r], s) /\ (Keep(r, "enter", [session |-> s]) \/ Finish(r))
    BY <1>1, <1>2, FinishGoes DEF Authenticate
  <2>2. mem'[r].session = s /\ s \in Request
    BY <1>1, <1>2, <2>1, KeepGoes, FinishGoes
  <2>3. pc[s] = "done" /\ auth.session[s] # Nothing /\ auth.session[s].user = body[r].user
    BY <2>1, <2>2 DEF FindActive, Held, SessionsOf
  <2>4. IsAdminRole(body[r].user) \/ auth.session[s].viewer = Nothing
    BY <2>1 DEF Admits
  <2> QED BY <2>2, <2>3, <2>4 DEF ViewInv, Viewing, IsOwner
<1>3. CASE pc'[r] = "enter"
  BY <1>1, <1>2, <1>3 DEF Enters
<1>4. CASE pc'[r] = "set"
  <2>1. pc[r] = "enter" /\ mem' = mem
    BY <1>1, <1>4, FinishGoes, AwaitGoes DEF Enters, CheckCurrent, At
  <2> QED BY <1>1, <2>1 DEF Acting
<1>5. CASE pc'[r] = "others"
  <2>1. ChangePassword(r)
    BY <1>1, <1>5 DEF Enters, CountOthers, At
  <2>2. pc[r] = "set" /\ mem' = mem
    BY <1>1, <2>1, AwaitGoes DEF ChangePassword, At
  <2> QED BY <1>1, <2>2 DEF Acting
<1> QED BY <1>3, <1>4, <1>5

LEMMA ViewStarts == RequestsInit /\ AuthInit => ViewInv
<1> SUFFICES ASSUME RequestsInit, AuthInit PROVE ViewInv
  OBVIOUS
<1>1. \A r \in Request : auth.session[r] = Nothing
  BY AuthAssumption DEF AuthInit
<1> QED BY <1>1, LinkStarts, RequestsStart DEF ViewInv, Ruling, Viewing, Acting

LEMMA ViewStep ==
    ASSUME ViewInv, NEW r \in Request, AccountStep(r)
    PROVE  ViewInv'
<1>1. LinkInv'
  BY LinkStep DEF ViewInv
<1>2. \A q \in Request : Ruling(q)' /\ Viewing(q)' /\ Acting(q)'
  BY OthersViews, OwnRuling, OwnViewing, OwnActing
<1> QED BY <1>1, <1>2 DEF ViewInv
(***************************************************************************)
(* A new password ends the older sessions                                  *)
(***************************************************************************)

(* The sessions of the account whose password r has set that were opened   *)
(* before.                                                                 *)
OldOf(r) == {s \in SessionsOf(auth.set[r]) : r \notin auth.session[s].since}

(* What is left of them while r goes on to end them.                       *)
Setting(r) ==
    auth.set[r] # Nothing =>
        \/ /\ body[r].op = "change" /\ auth.set[r] = body[r].user
           /\ pc[r] \in {"others", "end-others", "done", "failed"}
           /\ pc[r] = "end-others" =>
                /\ "others" \in DOMAIN mem[r]
                /\ \E mine : OldOf(r) \subseteq mem[r].others \cup {mine}
           /\ pc[r] = "done" => \E mine : OldOf(r) \subseteq {mine}
        \/ /\ body[r].op = "reset" /\ auth.set[r] = body[r].user
           /\ pc[r] \notin {"start", "claim"}
           /\ pc[r] \notin {"end-all", "failed"} => OldOf(r) = {}
        \/ /\ body[r].op = "password" /\ auth.set[r] = body[r].target
           /\ pc[r] \in {"sign-out", "audit", "done", "failed"}
           /\ pc[r] \in {"audit", "done"} => OldOf(r) = {}

OldInv == ViewInv /\ \A r \in Request : Setting(r)

(* Old sessions only go: a new one knows the passwords that have been set. *)
LEMMA OldGo ==
    ASSUME LinkInv, NEW r \in Request, AccountStep(r),
           NEW q \in Request, auth'.set[q] = auth.set[q]
    PROVE  OldOf(q)' \subseteq OldOf(q)
<1> SUFFICES ASSUME NEW s, s \in OldOf(q)' PROVE s \in OldOf(q)
  OBVIOUS
<1>1. /\ DOMAIN auth'.session = DOMAIN auth.session
      /\ SessionsMove(r)
  BY AccountTouches, SessionsStep DEF LinkInv, Touches, AuthTyped
<1>2. /\ s \in DOMAIN auth.session /\ auth'.session[s] # Nothing
      /\ auth'.session[s].user = auth.set[q] /\ q \notin auth'.session[s].since
  BY <1>1 DEF OldOf, SessionsOf
<1>3. ~(auth'.session[s].since = PasswordsSet(auth'.session[s].user))
  BY <1>2 DEF PasswordsSet
<1> QED BY <1>1, <1>2, <1>3 DEF SessionsMove, OldOf, SessionsOf

(* What a request sets, and where it is then.                              *)
LEMMA SetStep ==
    ASSUME LinkInv, NEW r \in Request, AccountStep(r)
    PROVE  /\ \A q \in Request \ {r} : auth'.set[q] = auth.set[q]
           /\ \/ auth'.set[r] = auth.set[r]
              \/ /\ body[r].op = "change" /\ auth'.set[r] = body[r].user /\ pc'[r] = "others"
              \/ /\ body[r].op = "reset" /\ auth'.set[r] = body[r].user /\ pc'[r] = "end-all"
              \/ /\ body[r].op = "password" /\ auth'.set[r] = body[r].target /\ pc'[r] = "sign-out"
<1>0. AuthTyped /\ AuthTyped' /\ Touches(r) /\ Framed
  BY AccountTouches DEF LinkInv, Touches, Requested
<1>1. CASE Kept("set")
  BY <1>1 DEF Kept
<1>2. CASE ChangePassword(r)
  <2>1. auth'.set = [auth.set EXCEPT ![r] = body[r].user]
    BY <1>0, <1>2 DEF ChangePassword, WithPassword, AuthTyped, AuthTables
  <2> QED BY <1>0, <1>2, <2>1, AwaitGoes DEF ChangePassword, At, AuthTyped
<1>3. CASE ClaimLink(r)
  <2>1. CASE auth' = auth
    BY <2>1
  <2>2. CASE auth' # auth
    <3>1. At(r, "reset", "claim") /\ auth' = ClaimedBy(r, mem[r].link) /\ Await(r, "end-all")
      BY <1>3, <2>2 DEF ClaimLink
    <3>2. auth'.set = [auth.set EXCEPT ![r] = body[r].user]
      BY <1>0, <3>1 DEF ClaimedBy, WithPassword, AuthTyped, AuthTables
    <3> QED BY <1>0, <3>1, <3>2, AwaitGoes DEF At, AuthTyped
  <2> QED BY <2>1, <2>2
<1>4. CASE ChangeAdmin(r)
  <2>1. CASE body[r].op = "password"
    <3>1. auth'.set = [auth.set EXCEPT ![r] = body[r].target] /\ Await(r, "sign-out")
      BY <1>0, <1>4, <2>1 DEF ChangeAdmin, Changed, WithPassword, AuthTyped, AuthTables
    <3> QED BY <1>0, <2>1, <3>1, AwaitGoes DEF AuthTyped
  <2>2. CASE body[r].op # "password"
    <3>1. auth'.set = auth.set
      BY <1>0, <1>4, <2>2 DEF ChangeAdmin, Changed, AuthTyped, AuthTables
    <3> QED BY <3>1
  <2> QED BY <2>1, <2>2
<1> QED BY <1>0, <1>1, <1>2, <1>3, <1>4 DEF Touches

LEMMA OthersSetting ==
    ASSUME OldInv, NEW r \in Request, AccountStep(r), NEW q \in Request \ {r}
    PROVE  Setting(q)'
<1>1. /\ body' = body /\ pc'[q] = pc[q] /\ mem'[q] = mem[q] /\ Setting(q) /\ LinkInv
  BY RequestedStep DEF OldInv, ViewInv, LinkInv
<1>2. auth'.set[q] = auth.set[q] /\ OldOf(q)' \subseteq OldOf(q)
  BY <1>1, SetStep, OldGo
<1> HIDE DEF OldOf
<1> QED BY <1>1, <1>2 DEF Setting

LEMMA OwnSetting ==
    ASSUME OldInv, NEW r \in Request, AccountStep(r)
    PROVE  Setting(r)'
<1>1. /\ LinkInv /\ Framed /\ Staged(r) /\ Staged(r)' /\ body' = body /\ Setting(r) /\ Enters(r) /\ ~Ended(r)
      /\ AuthTyped /\ AuthTyped' /\ Touches(r)
  BY RequestedStep, AccountEnters, AccountTouches DEF OldInv, ViewInv, LinkInv, Requested, Touches
<1>2. CASE /\ auth'.set[r] # auth.set[r]
  BY <1>1, <1>2, SetStep DEF Setting
<1>3. CASE auth'.set[r] = auth.set[r] /\ auth.set[r] # Nothing
  <2>0. OldOf(r)' \subseteq OldOf(r)
    BY <1>1, <1>3, OldGo
  <2>1. CASE pc'[r] = "failed"
    BY <1>1, <1>3, <2>1 DEF Setting
  <2>2. CASE body[r].op = "change" /\ pc'[r] # "failed"
    <3>0. pc[r] \in {"others", "end-others"} /\ auth.set[r] = body[r].user /\ ~Abort(r)
      BY <1>1, <1>3, <2>2, AbortGoes DEF Setting, Ended
    <3>1. CASE pc[r] = "others"
      <4>1. Keep(r, "end-others", Merged(mem[r], [others |-> SessionsOf(body[r].user) \ {mem[r].session}]))
            /\ auth' = auth
        BY <3>0, <3>1, Leaves DEF ListOthers, AuthReads
      <4>2. pc'[r] = "end-others" /\ "others" \in DOMAIN mem'[r]
            /\ mem'[r].others = SessionsOf(body[r].user) \ {mem[r].session}
        BY <1>1, <4>1, KeepGoes DEF Merged
      <4>3. OldOf(r)' \subseteq mem'[r].others \cup {mem[r].session}
        BY <2>0, <3>0, <4>2 DEF OldOf
      <4> QED BY <1>1, <1>3, <2>2, <3>0, <4>2, <4>3 DEF Setting
    <3>2. CASE pc[r] = "end-others"
      <4>0. "others" \in DOMAIN mem[r] /\ \E mine : OldOf(r) \subseteq mem[r].others \cup {mine}
        BY <1>3, <2>2, <3>2, <1>1 DEF Setting
      <4>1. PICK mine : OldOf(r) \subseteq mem[r].others \cup {mine}
        BY <4>0
      <4>2. CASE EndOther(r)
        <5>1. PICK s \in mem[r].others :
                auth' = [auth EXCEPT !.session = Revoked({s})]
                /\ Keep(r, "end-others", [mem[r] EXCEPT !.others = @ \ {s}])
          BY <4>2 DEF EndOther
        <5>2. pc'[r] = "end-others" /\ "others" \in DOMAIN mem'[r] /\ mem'[r].others = mem[r].others \ {s}
          BY <1>1, <4>0, <5>1, KeepGoes
        <5>3. s \notin OldOf(r)'
          <6>1. s \in DOMAIN auth.session => auth'.session[s] = Nothing
            BY <1>1, <5>1, RevokedTouch
          <6>2. DOMAIN auth'.session = DOMAIN auth.session
            BY <1>1 DEF AuthTyped
          <6> QED BY <6>1, <6>2 DEF OldOf, SessionsOf
        <5>4. OldOf(r)' \subseteq mem'[r].others \cup {mine}
          BY <2>0, <4>1, <5>2, <5>3
        <5> QED BY <1>1, <1>3, <2>2, <3>0, <5>2, <5>4 DEF Setting
      <4>3. CASE UnlistOthers(r) \/ AuditOthers(r)
        <5>1. mem[r].others = {} /\ pc'[r] = "done"
          BY <1>1, <4>3, FinishGoes DEF UnlistOthers, AuditOthers
        <5>2. OldOf(r)' \subseteq {mine}
          BY <2>0, <4>1, <5>1
        <5> QED BY <1>1, <1>3, <2>2, <3>0, <5>1, <5>2 DEF Setting
      <4> QED BY <3>0, <3>2, <4>2, <4>3, Leaves
    <3> QED BY <3>0, <3>1, <3>2
  <2>3. CASE body[r].op = "reset" /\ pc'[r] # "failed"
    <3>0. /\ auth.set[r] = body[r].user /\ ~Abort(r) /\ pc[r] \notin {"start", "claim"}
          /\ pc[r] # "end-all" => OldOf(r) = {}
      BY <1>1, <1>3, <2>3, AbortGoes DEF Setting, Ended
    <3>1. pc'[r] \notin {"start", "claim"} /\ (pc'[r] = "end-all" => pc[r] = "claim")
      BY <1>1, <3>0 DEF Enters, FollowLink, ClaimLink, At
    <3>2. OldOf(r)' = {}
      <4>1. CASE pc[r] = "end-all"
        <5>1. auth' = [auth EXCEPT !.session = Revoked(SessionsOf(body[r].user))]
          BY <3>0, <4>1, Leaves DEF ResetEndsAll, EndAll
        <5>2. \A s \in DOMAIN auth.session :
                auth'.session[s] # Nothing => auth'.session[s].user # body[r].user
          BY <1>1, <5>1, RevokedTouch DEF SessionsOf
        <5> QED BY <1>1, <1>3, <3>0, <5>2 DEF OldOf, SessionsOf, AuthTyped
      <4> QED BY <2>0, <3>0, <4>1
    <3> QED BY <1>1, <1>3, <2>3, <3>0, <3>1, <3>2 DEF Setting
  <2>4. CASE body[r].op = "password" /\ pc'[r] # "failed"
    <3>0. /\ auth.set[r] = body[r].target /\ ~Abort(r) /\ pc[r] \in {"sign-out", "audit"}
          /\ pc[r] = "audit" => OldOf(r) = {}
      BY <1>1, <1>3, <2>4, AbortGoes DEF Setting, Ended
    <3>1. CASE pc[r] = "sign-out"
      <4>1. /\ auth' = [auth EXCEPT !.session = Revoked(SessionsOf(body[r].target))]
            /\ Await(r, "audit")
        BY <2>4, <3>0, <3>1, Leaves DEF SignOut, EndAll
      <4>2. \A s \in DOMAIN auth.session :
              auth'.session[s] # Nothing => auth'.session[s].user # body[r].target
        BY <1>1, <4>1, RevokedTouch DEF SessionsOf
      <4>3. OldOf(r)' = {} /\ pc'[r] = "audit"
        BY <1>1, <1>3, <3>0, <4>1, <4>2, AwaitGoes DEF OldOf, SessionsOf, AuthTyped
      <4> QED BY <1>1, <1>3, <2>4, <3>0, <4>3 DEF Setting
    <3>2. CASE pc[r] = "audit"
      <4>1. OldOf(r)' = {}
        BY <2>0, <3>0, <3>2
      <4>2. pc'[r] \in {"sign-out", "audit", "done", "failed"}
        <5>1. pc'[r] \in {"done", "failed", "enter", "change", "sign-out", "audit"}
              /\ pc'[r] # "enter" /\ pc'[r] # "change"
          BY <1>1, <2>4, <3>2 DEF Staged, Here, Enters, Authenticate, FindAdmin
        <5> QED BY <5>1
      <4> QED BY <1>1, <1>3, <2>4, <3>0, <4>1, <4>2 DEF Setting
    <3> QED BY <3>0, <3>1, <3>2
  <2> QED BY <1>1, <1>3, <2>1, <2>2, <2>3, <2>4 DEF Setting
<1>4. CASE auth'.set[r] = Nothing
  BY <1>4 DEF Setting
<1> QED BY <1>2, <1>3, <1>4
(* Time and the steps of nobody.                                           *)
LEMMA OldQuietStep ==
    ASSUME OldInv, UNCHANGED requests, AuthTyped', \A t \in AuthTables \ {"session"} : Kept(t),
           \A s \in DOMAIN auth.session :
                /\ s \in Request => auth'.session[s] = auth.session[s]
                /\ auth'.session[s] # Nothing =>
                      /\ auth.session[s] # Nothing
                      /\ auth'.session[s].user = auth.session[s].user
                      /\ auth'.session[s].since = auth.session[s].since
    PROVE  OldInv'
<1>1. AuthTyped /\ LinkInv /\ DOMAIN auth'.session = DOMAIN auth.session /\ Request \subseteq DOMAIN auth.session
  BY AuthAssumption DEF OldInv, ViewInv, LinkInv, AuthTyped
<1>2. /\ auth'.link = auth.link /\ auth'.set = auth.set
      /\ auth'.status = auth.status /\ auth'.role = auth.role
      /\ body' = body /\ pc' = pc /\ mem' = mem /\ lock' = lock
  BY DEF Kept, AuthTables, requests
<1>3. LinkInv'
  <2>1. Requested' /\ Linked'
    BY <1>1, <1>2 DEF LinkInv, Requested, Framed, Apart, Bodied, Staged, Here, Linked
  <2> QED BY <1>1, <1>2, <2>1 DEF LinkInv, Linking
<1>4. ASSUME NEW r \in Request PROVE Ruling(r)' /\ Viewing(r)' /\ Acting(r)'
  <2>1. auth'.session[r] = auth.session[r] /\ Ruling(r) /\ Viewing(r) /\ Acting(r)
    BY <1>1 DEF OldInv, ViewInv
  <2> QED BY <1>2, <2>1 DEF Ruling, Viewing, Acting, IsOwner, IsAdmin, IsAdminRole
<1>5. ASSUME NEW r \in Request PROVE Setting(r)'
  <2>1. OldOf(r)' \subseteq OldOf(r)
    BY <1>1, <1>2 DEF OldOf, SessionsOf
  <2> HIDE DEF OldOf
  <2>2. Setting(r)
    BY DEF OldInv
  <2> QED BY <1>2, <2>1, <2>2 DEF Setting
<1> QED BY <1>3, <1>4, <1>5 DEF OldInv, ViewInv

LEMMA OldInvariant == PeopleSpec => []OldInv
<1>1. OldInv /\ [PeopleNext]_peopleVars => OldInv'
  <2> SUFFICES ASSUME OldInv, [PeopleNext]_peopleVars PROVE OldInv'
    OBVIOUS
  <2>0. AuthTyped
    BY DEF OldInv, ViewInv, LinkInv
  <2>1. CASE UNCHANGED peopleVars
    BY <2>0, <2>1, OldQuietStep DEF peopleVars, Kept, AuthTyped
  <2>2. ASSUME NEW r \in Request, AccountStep(r) PROVE OldInv'
    <3>1. ViewInv'
      BY <2>2, ViewStep DEF OldInv
    <3>2. \A q \in Request : Setting(q)'
      BY <2>2, OwnSetting, OthersSetting
    <3> QED BY <3>1, <3>2 DEF OldInv
  <2>3. CASE \/ \E u \in User : Age(u) /\ UNCHANGED <<auth, admin>>
             \/ \E s \in DOMAIN auth.session : Expire(s)
    BY <2>0, <2>3, TimeKeeps, OldQuietStep
  <2> QED BY <2>1, <2>2, <2>3 DEF PeopleNext
<1>2. RequestsInit /\ AuthInit => OldInv
  <2> SUFFICES ASSUME RequestsInit, AuthInit PROVE OldInv
    OBVIOUS
  <2>1. \A r \in Request : auth.set[r] = Nothing
    BY AuthAssumption DEF AuthInit
  <2> QED BY <2>1, ViewStarts DEF OldInv, Setting
<1> QED BY <1>1, <1>2, PTL DEF PeopleSpec

(* "This is a read-only support view": no session that was opened for an   *)
(* admin to view an account gets past the guard to change it.              *)
THEOREM ViewsOnlyRead == PeopleSpec => []ViewsReadOnly
<1>1. OldInv => ViewsReadOnly
  BY DEF OldInv, ViewInv, Acting, ViewsReadOnly
<1> QED BY <1>1, OldInvariant, PTL

(* Once a new password has been answered for, the sessions opened before   *)
(* it are gone but for the one that asked, whatever ran meanwhile.         *)
THEOREM NewPasswordsEndSessions == PeopleSpec => []OldSessionsEnd
<1>1. OldInv => OldSessionsEnd
  <2> SUFFICES ASSUME OldInv, NEW r \in Request, pc[r] = "done", auth.set[r] # Nothing
               PROVE  Cardinality(OldOf(r)) <= (IF body[r].op = "change" THEN 1 ELSE 0)
    BY DEF OldSessionsEnd, OldOf
  <2>1. \/ body[r].op = "change" /\ \E mine : OldOf(r) \subseteq {mine}
        \/ OldOf(r) = {}
    BY DEF OldInv, Setting
  <2> HIDE DEF OldOf
  <2>2. Cardinality({}) = 0
    BY FS_EmptySet
  <2>3. ASSUME NEW mine, OldOf(r) \subseteq {mine} PROVE Cardinality(OldOf(r)) <= 1
    <3>1. OldOf(r) = {} \/ OldOf(r) = {mine}
      BY <2>3
    <3>2. Cardinality({mine}) = 1
      BY FS_Singleton
    <3> QED BY <3>1, <3>2, <2>2
  <2> QED BY <2>1, <2>2, <2>3
<1> QED BY <1>1, OldInvariant, PTL
(***************************************************************************)
(* The office: Support, Platform and Watch together, beside customers and  *)
(* admins who do anything to the accounts but take back that somebody is a *)
(* customer or an admin (RolesStay, above, is that nobody can).            *)
(***************************************************************************)
AppOps == PlatformOps \cup {"app"}
CheckOps == WatchOps \cup {"refused"}
OfficeOps == SupportOps \cup AppOps \cup CheckOps

officeTables == <<desk, platform, watch>>

(* What the rest of the back end does meanwhile.                           *)
Elsewhere ==
    /\ body' = body /\ Framed'
    /\ \A r \in Request : body[r].op \in OfficeOps => pc'[r] = pc[r] /\ mem'[r] = mem[r]
    /\ DOMAIN auth' = AuthTables
    /\ \A u \in User : (IsOwner(u) => IsOwner(u)') /\ (IsAdmin(u) => IsAdmin(u)')
    /\ UNCHANGED officeTables

OfficeStep(r) ==
    \/ SupportStep(r) /\ UNCHANGED <<platform, watch>>
    \/ PlatformStep(r) /\ UNCHANGED watch
    \/ WatchStep(r)
    \/ Audit(r) /\ UNCHANGED officeTables
    \/ Abort(r) /\ UNCHANGED <<referralTables, auth, admin, officeTables>>

OfficeNext ==
    \/ \E r \in Request : OfficeStep(r)
    \/ Lapse /\ UNCHANGED watch
    \/ Hour
    \/ Elsewhere

officeVars == <<requests, referralTables, auth, admin, officeTables>>

OfficeSpec ==
    /\ RequestsInit /\ AuthInit /\ SupportInit /\ PlatformInit /\ WatchInit
    /\ [][OfficeNext]_officeVars

(* Every step moves a request of the service it is of.                     *)
LEMMA SupportMoves ==
    ASSUME NEW r \in Request, SupportStep(r)
    PROVE  Moves(r) /\ ~Ended(r) /\ body[r].op \in SupportOps /\ auth' = auth
<1> USE FinishMoves, AwaitMoves, KeepMoves DEF At, Ended, SupportOps, TicketOps, DeskOnly, DeskReads
<1>1. CASE Authenticate(r, SupportOps)
  BY <1>1 DEF Authenticate, AuthReads
<1>2. CASE FindCustomer(r) \/ OpenTicket(r)
  BY <1>2 DEF FindCustomer, OpenTicket
<1>3. CASE RequireTicket(r)
  BY <1>3 DEF RequireTicket
<1>4. CASE RequireAssignable(r) \/ Assign(r)
  BY <1>4 DEF RequireAssignable, Assign
<1>5. CASE UpdateTicket(r)
  BY <1>5 DEF UpdateTicket
<1>6. CASE AddMessage(r) \/ TakeUp(r)
  BY <1>6 DEF AddMessage, TakeUp
<1>7. CASE CreateBanner(r) \/ ReadBanner(r) \/ EditBanner(r)
  BY <1>7 DEF CreateBanner, ReadBanner, EditBanner
<1>8. CASE CreateCampaign(r) \/ SendCampaign(r) \/ RequireCampaign(r) \/ CancelCampaign(r)
  BY <1>8 DEF CreateCampaign, SendCampaign, RequireCampaign, CancelCampaign
<1>9. CASE UpdateTemplate(r) \/ UpdateFeature(r)
  BY <1>9 DEF UpdateTemplate, UpdateFeature
<1> QED BY <1>1, <1>2, <1>3, <1>4, <1>5, <1>6, <1>7, <1>8, <1>9 DEF SupportStep

RolesKept ==
    DOMAIN auth' = AuthTables /\ auth'.status = auth.status /\ auth'.role = auth.role

LEMMA AuditKeepsRoles ==
    ASSUME DOMAIN auth = AuthTables, NEW r, auth' = AuditedAs(auth, r) \/ auth' = auth
    PROVE  RolesKept
BY DEF RolesKept, AuditedAs, AuthTables

LEMMA PlatformMoves ==
    ASSUME DOMAIN auth = AuthTables, NEW r \in Request, PlatformStep(r)
    PROVE  Moves(r) /\ ~Ended(r) /\ body[r].op \in AppOps /\ desk' = desk /\ RolesKept
<1> USE FinishMoves, AwaitMoves, KeepMoves
    DEF At, Ended, AppOps, PlatformOps, PlatformOnly, PlatformReads, DeskOnly
<1>0. Moves(r) /\ ~Ended(r) /\ body[r].op \in AppOps /\ desk' = desk
      /\ (auth' = AuditedAs(auth, r) \/ auth' = auth)
  <2>1. CASE Authenticate(r, PlatformOps) /\ UNCHANGED <<platform, desk, admin>>
    BY <2>1 DEF Authenticate, AuthReads
  <2>2. CASE ReadBefore(r) \/ SaveSettings(r) \/ ClearCache(r)
    BY <2>2 DEF ReadBefore, SaveSettings, ClearCache
  <2>3. CASE Ask(r) \/ Get(r) \/ FillCache(r)
    BY <2>3 DEF Ask, Get, FillCache
  <2>4. CASE FindFlag(r) \/ InsertFlag(r) \/ UpdateFlag(r)
    BY <2>4 DEF FindFlag, InsertFlag, UpdateFlag
  <2> QED BY <2>1, <2>2, <2>3, <2>4 DEF PlatformStep
<1> QED BY <1>0, AuditKeepsRoles

LEMMA WatchMoves ==
    ASSUME DOMAIN auth = AuthTables, NEW r \in Request, WatchStep(r)
    PROVE  /\ Moves(r) /\ ~Ended(r) /\ body[r].op \in CheckOps
           /\ desk' = desk /\ platform' = platform /\ RolesKept
<1> USE FinishMoves, AwaitMoves, KeepMoves
    DEF At, Ended, CheckOps, WatchOps, WatchOnly, WatchReads, PlatformOnly, DeskOnly
<1>0. /\ Moves(r) /\ ~Ended(r) /\ body[r].op \in CheckOps
      /\ desk' = desk /\ platform' = platform /\ (auth' = AuditedAs(auth, r) \/ auth' = auth)
  <2>1. CASE Authenticate(r, WatchOps) /\ UNCHANGED <<watch, platform, desk, admin>>
    BY <2>1 DEF Authenticate, AuthReads
  <2>2. CASE CountRefusals(r) \/ RecordRefusal(r)
    BY <2>2 DEF CountRefusals, RecordRefusal
  <2>3. CASE ReadFailures(r) \/ LookForFlag(r) \/ RaiseFlag(r)
    BY <2>3 DEF ReadFailures, LookForFlag, RaiseFlag
  <2>4. CASE RequireFlag(r) \/ ReviewFlag(r)
    BY <2>4 DEF RequireFlag, ReviewFlag
  <2> QED BY <2>1, <2>2, <2>3, <2>4 DEF WatchStep
<1> QED BY <1>0, AuditKeepsRoles

LEMMA OfficeMoves ==
    ASSUME DOMAIN auth = AuthTables, NEW r \in Request, OfficeStep(r)
    PROVE  Moves(r) /\ ~Ended(r) /\ RolesKept
<1>1. CASE Audit(r)
  BY <1>1, AuditKeepsRoles, FinishMoves DEF Audit, Ended
<1>2. CASE Abort(r) /\ auth' = auth
  BY <1>2, AuditKeepsRoles, AbortMoves DEF Abort, Ended
<1>3. CASE SupportStep(r)
  BY <1>3, SupportMoves, AuditKeepsRoles
<1> QED BY <1>1, <1>2, <1>3, PlatformMoves, WatchMoves DEF OfficeStep

(***************************************************************************)
(* Tickets and announcements                                               *)
(***************************************************************************)
DeskTables == {"ticket", "crossed", "banner", "campaign", "feature", "template"}

DeskTyped ==
    /\ DOMAIN auth = AuthTables
    /\ DOMAIN desk = DeskTables
    /\ desk.ticket \in [TicketIds -> TicketRow \cup {Nothing}]
    /\ desk.banner \in [BannerIds -> BannerRow \cup {Nothing}]

(* A ticket is from a customer, and is assigned to an admin.               *)
Known(row) == IsOwner(row.user) /\ (row.admin # Nothing => IsAdmin(row.admin))

TicketsKnown == \A t \in Tickets : Known(desk.ticket[t])

(* What a handler has found out still holds when it writes.                *)
Handling(r) ==
    LET b == body[r]
    IN  /\ b.op = "open-ticket" /\ pc[r] = "insert-ticket" => IsOwner(b.target)
        /\ b.op \in TicketOps /\ pc[r] \in {"say", "take-up", "assignee", "save-ticket"} =>
              b.ticket \in Tickets
        /\ b.op \in {"ticket", "assign"} /\ pc[r] = "save-ticket" /\ b.admin # Nothing => IsAdmin(b.admin)
        /\ b.op = "reply" /\ pc[r] = "take-up" => mem[r].status = "OPEN"
        /\ b.op = "edit-banner" /\ pc[r] = "save-banner" => b.banner \in Banners

DeskInv ==
    /\ Framed /\ DeskTyped /\ (\A r \in Request : SupportBodyFits(body[r]))
    /\ TicketsKnown /\ StampsFollow
    /\ \A r \in Request : Handling(r)

RolesStand == \A u \in User : (IsOwner(u) => IsOwner(u)') /\ (IsAdmin(u) => IsAdmin(u)')

LEMMA KeptStand == ASSUME RolesKept PROVE RolesStand
BY DEF RolesKept, RolesStand, IsOwner, IsAdmin, IsAdminRole

(* Rows are only added, and what is on them stays right.                   *)
RowsStay == Tickets \subseteq Tickets' /\ Banners \subseteq Banners'

LEMMA HandlingStays ==
    ASSUME DeskInv, RolesStand, RowsStay, body' = body, NEW r \in Request,
           pc'[r] = pc[r], mem'[r] = mem[r]
    PROVE  Handling(r)'
BY DEF DeskInv, Handling, RolesStand, RowsStay, SupportBodyFits, TicketOps

LEMMA TablesStay ==
    ASSUME DeskInv, RolesStand, desk' = desk
    PROVE  TicketsKnown' /\ StampsFollow' /\ RowsStay
<1>1. \A t \in Tickets : desk.ticket[t] \in TicketRow
  BY DEF DeskInv, DeskTyped, Tickets
<1>2. \A t \in Tickets : Known(desk.ticket[t])'
  BY <1>1 DEF DeskInv, TicketsKnown, Known, RolesStand, TicketRow
<1> QED BY <1>2 DEF DeskInv, TicketsKnown, StampsFollow, Tickets, Banners, RowsStay

(* One ticket is written.                                                  *)
Writes(t) ==
    /\ DOMAIN desk' = DeskTables /\ desk'.ticket = [i \in TicketIds |-> desk'.ticket[i]]
    /\ t \in TicketIds /\ desk'.ticket[t] \in TicketRow
    /\ \A i \in TicketIds \ {t} : desk'.ticket[i] = desk.ticket[i]
    /\ desk'.banner = desk.banner /\ desk.crossed \subseteq desk'.crossed

LEMMA TicketWritten ==
    ASSUME DeskInv, RolesKept, NEW t, Writes(t), Known(desk'.ticket[t]),
           \/ t \in desk'.crossed
           \/ desk'.ticket[t].stamped <=> desk'.ticket[t].status \in Resolved
    PROVE  DeskTyped' /\ TicketsKnown' /\ StampsFollow' /\ RowsStay
<1>0. DeskTyped /\ TicketRow = TicketRow' /\ Nothing \notin TicketRow
  BY SupportAssumption DEF DeskInv, TicketRow
<1>1. \A i \in TicketIds : desk'.ticket[i] \in TicketRow \cup {Nothing}
  BY <1>0 DEF DeskTyped, Writes
<1>2. DeskTyped'
  <2>1. desk'.ticket \in [TicketIds -> TicketRow \cup {Nothing}]
    <3>1. desk'.ticket = [i \in TicketIds |-> desk'.ticket[i]]
      BY DEF Writes
    <3> QED BY <1>1, <3>1
  <2> QED BY <1>0, <2>1 DEF DeskTyped, Writes, RolesKept
<1>3. Tickets' = Tickets \cup {t}
  BY <1>0, <1>2 DEF DeskTyped, Writes, Tickets
<1>4. \A row : Known(row) => Known(row)'
  <2> TAKE row
  <2> QED BY DEF Known, IsOwner, IsAdmin, IsAdminRole, RolesKept
<1>5. ASSUME NEW i \in TicketIds, i \in Tickets' PROVE Known(desk.ticket[i])'
  <2>0. PICK row : row = desk'.ticket[i]
    OBVIOUS
  <2>1. Known(row)
    <3>1. CASE i = t
      BY <2>0, <3>1
    <3>2. CASE i # t
      <4>1. i \in Tickets /\ row = desk.ticket[i]
        <5>1. desk'.ticket[i] = desk.ticket[i]
          BY <3>2 DEF Writes
        <5>2. i \in Tickets
          BY <1>3, <1>5, <3>2
        <5> QED BY <2>0, <5>1, <5>2
      <4> QED BY <4>1 DEF DeskInv, TicketsKnown
    <3> QED BY <3>1, <3>2
  <2>2. Known(row)'
    BY <2>1, <1>4
  <2> QED BY <2>0, <2>2 DEF Known, IsOwner, IsAdmin, IsAdminRole
<1>6. TicketsKnown'
  <2>1. \A i \in Tickets' : i \in TicketIds
    BY <1>2 DEF DeskTyped, Tickets
  <2> QED BY <1>5, <2>1 DEF TicketsKnown
<1>7. StampsFollow'
  <2> SUFFICES ASSUME NEW i \in Tickets', i \notin desk'.crossed
               PROVE  desk'.ticket[i].stamped <=> desk'.ticket[i].status \in Resolved
    BY DEF StampsFollow
  <2>1. CASE i = t
    BY <2>1
  <2>2. CASE i # t
    <3>1. i \in Tickets \ desk.crossed /\ desk'.ticket[i] = desk.ticket[i]
      BY <1>0, <1>3, <2>2 DEF Tickets, DeskTyped, Writes
    <3> QED BY <3>1 DEF DeskInv, StampsFollow
  <2> QED BY <2>1, <2>2
<1>8. Banners' = Banners
  BY DEF Writes, Banners
<1> QED BY <1>2, <1>3, <1>6, <1>7, <1>8 DEF RowsStay

LEMMA OpenTicketWrites ==
    ASSUME DeskInv, RolesKept, NEW r \in Request, OpenTicket(r)
    PROVE  Writes(r) /\ Known(desk'.ticket[r])
           /\ (desk'.ticket[r].stamped <=> desk'.ticket[r].status \in Resolved)
<1> DEFINE new == [user |-> body[r].target, status |-> "OPEN", admin |-> Nothing,
                   urgent |-> body[r].urgent, stamped |-> FALSE, said |-> <<"USER">>]
<1>1. desk' = [desk EXCEPT !.ticket[r] = new] /\ body[r].op = "open-ticket" /\ pc[r] = "insert-ticket"
  BY DEF OpenTicket, At
<1>2. IsOwner(body[r].target) /\ body[r].target \in User /\ body[r].urgent \in BOOLEAN
  BY <1>1 DEF DeskInv, Handling, SupportBodyFits
<1>3. r \in TicketIds /\ new \in TicketRow
  <2>1. <<"USER">> \in Seq({"USER", "ADMIN"})
    OBVIOUS
  <2> QED BY <1>2, <2>1, SupportAssumption DEF TicketRow, TicketStatus, StatusGroups
<1>4. /\ DOMAIN desk = DeskTables /\ desk.ticket \in [TicketIds -> TicketRow \cup {Nothing}]
  BY DEF DeskInv, DeskTyped
<1>5. new.user = body[r].target /\ new.admin = Nothing /\ new.stamped = FALSE /\ new.status = "OPEN"
  OBVIOUS
<1> HIDE DEF new
<1>6. DOMAIN desk' = DeskTables /\ desk'.ticket = [desk.ticket EXCEPT ![r] = new]
      /\ desk'.banner = desk.banner /\ desk'.crossed = desk.crossed
  BY <1>1, <1>4 DEF DeskTables
<1>7. desk'.ticket[r] = new /\ Writes(r)
  BY <1>3, <1>4, <1>6 DEF Writes
<1> QED BY <1>2, <1>5, <1>7 DEF Known, Resolved

(* What is written of a ticket leaves whom it is from.                     *)
LEMMA UpdateTicketWrites ==
    ASSUME DeskInv, RolesKept, NEW r \in Request, UpdateTicket(r)
    PROVE  LET t == body[r].ticket
           IN  /\ Writes(t) /\ Known(desk'.ticket[t])
               /\ \/ t \in desk'.crossed
                  \/ desk'.ticket[t].stamped <=> desk'.ticket[t].status \in Resolved
<1> DEFINE t == body[r].ticket
           now == desk.ticket[t]
           to == body[r].status
           mine == IF body[r].admin = Nothing THEN now.admin ELSE body[r].admin
           stamp == Stamp(to, mem[r], now)
<1>0. /\ desk' = [desk EXCEPT !.ticket[t].status = to, !.ticket[t].admin = mine,
                              !.ticket[t].stamped = stamp, !.crossed = @ \cup Crossing(r)]
      /\ body[r].op = "ticket" /\ pc[r] = "save-ticket"
  BY DEF UpdateTicket, At
<1>1. t \in Tickets /\ (body[r].admin # Nothing => IsAdmin(body[r].admin))
      /\ to \in TicketStatus /\ body[r].admin \in User \cup {Nothing}
  BY <1>0 DEF DeskInv, Handling, SupportBodyFits, TicketOps
<1>2. /\ DOMAIN desk = DeskTables /\ desk.ticket \in [TicketIds -> TicketRow \cup {Nothing}]
      /\ t \in TicketIds /\ now \in TicketRow /\ Known(now)
  BY <1>1 DEF DeskInv, DeskTyped, TicketsKnown, Tickets
<1>3. mine \in User \cup {Nothing} /\ (mine # Nothing => IsAdmin(mine))
  BY <1>1, <1>2 DEF Known, TicketRow
<1>4. stamp \in BOOLEAN
  <2>1. stamp = now.stamped \/ stamp = (to \in Resolved)
    BY DEF Stamp
  <2>2. now.stamped \in BOOLEAN /\ (to \in Resolved) \in BOOLEAN
    BY <1>2 DEF TicketRow
  <2> QED BY <2>1, <2>2
<1>5. t \in Crossing(r) \/ now.status = mem[r].status
  BY DEF Crossing
<1>6. t \notin desk.crossed => (now.stamped <=> now.status \in Resolved)
  BY <1>1 DEF DeskInv, StampsFollow
<1>7. t \notin desk.crossed \cup Crossing(r) => (stamp <=> to \in Resolved)
  BY <1>5, <1>6, <1>2 DEF Stamp, TicketRow
<1> HIDE DEF mine, stamp
<1> DEFINE new == [[[now EXCEPT !.status = to] EXCEPT !.admin = mine] EXCEPT !.stamped = stamp]
<1>8. new \in TicketRow /\ new.status = to /\ new.admin = mine /\ new.stamped = stamp /\ new.user = now.user
  BY <1>1, <1>2, <1>3, <1>4 DEF TicketRow
<1>9. /\ DOMAIN desk' = DeskTables /\ desk'.banner = desk.banner
      /\ desk'.crossed = desk.crossed \cup Crossing(r)
      /\ desk'.ticket[t] = new /\ desk'.ticket = [i \in TicketIds |-> desk'.ticket[i]]
      /\ \A i \in TicketIds \ {t} : desk'.ticket[i] = desk.ticket[i]
  BY <1>0, <1>2 DEF DeskTables
<1> HIDE DEF new
<1>10. Writes(t)
  BY <1>2, <1>8, <1>9 DEF Writes
<1>11. Known(new)
  BY <1>2, <1>3, <1>8 DEF Known
<1> QED BY <1>7, <1>8, <1>9, <1>10, <1>11

LEMMA AssignWrites ==
    ASSUME DeskInv, RolesKept, NEW r \in Request, Assign(r)
    PROVE  LET t == body[r].ticket
           IN  /\ Writes(t) /\ Known(desk'.ticket[t])
               /\ \/ t \in desk'.crossed
                  \/ desk'.ticket[t].stamped <=> desk'.ticket[t].status \in Resolved
<1> DEFINE t == body[r].ticket
           now == desk.ticket[t]
           mine == body[r].admin
<1>0. desk' = [desk EXCEPT !.ticket[t].admin = mine] /\ body[r].op = "assign" /\ pc[r] = "save-ticket"
  BY DEF Assign, At
<1>1. t \in Tickets /\ (mine # Nothing => IsAdmin(mine)) /\ mine \in User \cup {Nothing}
  BY <1>0 DEF DeskInv, Handling, SupportBodyFits, TicketOps
<1>2. /\ DOMAIN desk = DeskTables /\ desk.ticket \in [TicketIds -> TicketRow \cup {Nothing}]
      /\ t \in TicketIds /\ now \in TicketRow /\ Known(now)
  BY <1>1 DEF DeskInv, DeskTyped, TicketsKnown, Tickets
<1>3. t \notin desk.crossed => (now.stamped <=> now.status \in Resolved)
  BY <1>1 DEF DeskInv, StampsFollow
<1> DEFINE new == [now EXCEPT !.admin = mine]
<1>4. /\ new \in TicketRow /\ new.status = now.status /\ new.admin = mine
      /\ new.stamped = now.stamped /\ new.user = now.user
  BY <1>1, <1>2 DEF TicketRow
<1>5. /\ DOMAIN desk' = DeskTables /\ desk'.banner = desk.banner /\ desk'.crossed = desk.crossed
      /\ desk'.ticket[t] = new /\ desk'.ticket = [i \in TicketIds |-> desk'.ticket[i]]
      /\ \A i \in TicketIds \ {t} : desk'.ticket[i] = desk.ticket[i]
  BY <1>0, <1>2 DEF DeskTables
<1> HIDE DEF new
<1>6. Writes(t)
  BY <1>2, <1>4, <1>5 DEF Writes
<1>7. Known(new)
  BY <1>1, <1>2, <1>4 DEF Known
<1> QED BY <1>3, <1>4, <1>5, <1>6, <1>7

LEMMA ReplyWrites ==
    ASSUME DeskInv, RolesKept, NEW r \in Request, AddMessage(r) \/ TakeUp(r)
    PROVE  LET t == body[r].ticket
           IN  /\ Writes(t) /\ Known(desk'.ticket[t])
               /\ \/ t \in desk'.crossed
                  \/ desk'.ticket[t].stamped <=> desk'.ticket[t].status \in Resolved
<1> DEFINE t == body[r].ticket
           now == desk.ticket[t]
<1>0. body[r].op = "reply" /\ pc[r] \in {"say", "take-up"}
  BY DEF AddMessage, TakeUp, At
<1>1. t \in Tickets
  BY <1>0 DEF DeskInv, Handling, TicketOps
<1>2. /\ DOMAIN desk = DeskTables /\ desk.ticket \in [TicketIds -> TicketRow \cup {Nothing}]
      /\ t \in TicketIds /\ now \in TicketRow /\ Known(now)
  BY <1>1 DEF DeskInv, DeskTyped, TicketsKnown, Tickets
<1>3. t \notin desk.crossed => (now.stamped <=> now.status \in Resolved)
  BY <1>1 DEF DeskInv, StampsFollow
<1>4. CASE AddMessage(r)
  <2> DEFINE line == Append(now.said, "ADMIN")
             new == [now EXCEPT !.said = line]
  <2>0. desk' = [desk EXCEPT !.ticket[t].said = line]
    BY <1>2, <1>4 DEF AddMessage, DeskTables
  <2>1. line \in Seq({"USER", "ADMIN"})
    BY <1>2 DEF TicketRow
  <2> HIDE DEF line
  <2>2. /\ new \in TicketRow /\ new.status = now.status /\ new.admin = now.admin
        /\ new.stamped = now.stamped /\ new.user = now.user
    BY <1>2, <2>1 DEF TicketRow
  <2>3. /\ DOMAIN desk' = DeskTables /\ desk'.banner = desk.banner /\ desk'.crossed = desk.crossed
        /\ desk'.ticket[t] = new /\ desk'.ticket = [i \in TicketIds |-> desk'.ticket[i]]
        /\ \A i \in TicketIds \ {t} : desk'.ticket[i] = desk.ticket[i]
    BY <1>2, <2>0 DEF DeskTables
  <2> HIDE DEF new
  <2>4. Writes(t) /\ Known(new)
    BY <1>2, <2>2, <2>3 DEF Writes, Known
  <2> QED BY <1>3, <2>2, <2>3, <2>4
<1>5. CASE TakeUp(r)
  <2> DEFINE new == [now EXCEPT !.status = "IN_PROGRESS"]
  <2>0. desk' = [desk EXCEPT !.ticket[t].status = "IN_PROGRESS", !.crossed = @ \cup Crossing(r)]
        /\ mem[r].status = "OPEN"
    BY <1>5 DEF TakeUp, At, DeskInv, Handling
  <2>1. t \notin Crossing(r) => now.status = "OPEN"
    BY <2>0 DEF Crossing
  <2>2. /\ new \in TicketRow /\ new.status = "IN_PROGRESS" /\ new.admin = now.admin
        /\ new.stamped = now.stamped /\ new.user = now.user
    BY <1>2 DEF TicketRow, TicketStatus, StatusGroups
  <2>3. /\ DOMAIN desk' = DeskTables /\ desk'.banner = desk.banner
        /\ desk'.crossed = desk.crossed \cup Crossing(r)
        /\ desk'.ticket[t] = new /\ desk'.ticket = [i \in TicketIds |-> desk'.ticket[i]]
        /\ \A i \in TicketIds \ {t} : desk'.ticket[i] = desk.ticket[i]
    BY <1>2, <2>0 DEF DeskTables
  <2> HIDE DEF new
  <2>4. Writes(t) /\ Known(new)
    BY <1>2, <2>2, <2>3 DEF Writes, Known
  <2>5. t \notin desk'.crossed => (new.stamped <=> new.status \in Resolved)
    BY <1>3, <2>1, <2>2, <2>3 DEF Resolved
  <2> QED BY <2>3, <2>4, <2>5
<1> QED BY <1>4, <1>5

LEMMA MergedBanner ==
    ASSUME NEW row \in BannerRow, NEW b, SupportBodyFits(b), b.op = "edit-banner"
    PROVE  Merged(row, b.set) \in BannerRow
<1> DEFINE m == Merged(row, b.set)
<1>0. /\ DOMAIN b.set \subseteq {"on", "from", "until", "plan"}
      /\ "on" \in DOMAIN b.set => b.set.on \in BOOLEAN
      /\ \A f \in {"from", "until"} \cap DOMAIN b.set : b.set[f] \in Int
      /\ "plan" \in DOMAIN b.set => b.set.plan \in STRING \cup {Nothing}
  BY DEF SupportBodyFits
<1>1. DOMAIN row = {"on", "from", "until", "plan"}
  BY DEF BannerRow
<1>2. m = [f \in {"on", "from", "until", "plan"} |-> IF f \in DOMAIN b.set THEN b.set[f] ELSE row[f]]
  BY <1>0, <1>1 DEF Merged
<1>3. m.on \in BOOLEAN /\ m.from \in Int /\ m.until \in Int /\ m.plan \in STRING \cup {Nothing}
  BY <1>0, <1>2 DEF BannerRow
<1> QED BY <1>2, <1>3 DEF BannerRow

(* Of the announcements, one is written.                                   *)
LEMMA BannerWritten ==
    ASSUME DeskInv, RolesKept, NEW n \in BannerIds, NEW row \in BannerRow,
           desk' = [desk EXCEPT !.banner[n] = row]
    PROVE  DeskTyped' /\ TicketsKnown' /\ StampsFollow' /\ RowsStay
<1>1. /\ DOMAIN desk = DeskTables /\ desk.banner \in [BannerIds -> BannerRow \cup {Nothing}]
      /\ DOMAIN auth' = AuthTables
  BY DEF DeskInv, DeskTyped, RolesKept
<1>2. /\ DOMAIN desk' = DeskTables /\ desk'.ticket = desk.ticket /\ desk'.crossed = desk.crossed
      /\ desk'.banner = [desk.banner EXCEPT ![n] = row]
  BY <1>1 DEF DeskTables
<1>3. DeskTyped' /\ Tickets' = Tickets
  BY <1>1, <1>2 DEF DeskInv, DeskTyped, Tickets
<1>4. RowsStay
  BY <1>1, <1>2, <1>3, SupportAssumption DEF RowsStay, Banners
<1>5. \A t \in Tickets : Known(desk.ticket[t])'
  <2>1. \A r : Known(r) => Known(r)'
    BY DEF Known, IsOwner, IsAdmin, IsAdminRole, RolesKept
  <2> QED BY <1>2, <2>1 DEF DeskInv, TicketsKnown, Known, IsOwner, IsAdmin, IsAdminRole, RolesKept
<1> QED BY <1>2, <1>3, <1>4, <1>5 DEF DeskInv, TicketsKnown, StampsFollow

(* The campaigns, templates and feature requests are apart.                *)
LEMMA OtherDeskWritten ==
    ASSUME DeskInv, RolesKept, DOMAIN desk' = DeskTables,
           desk'.ticket = desk.ticket, desk'.banner = desk.banner, desk'.crossed = desk.crossed
    PROVE  DeskTyped' /\ TicketsKnown' /\ StampsFollow' /\ RowsStay
<1>1. DeskTyped' /\ Tickets' = Tickets /\ Banners' = Banners
  BY DEF DeskInv, DeskTyped, RolesKept, Tickets, Banners
<1>2. \A t \in Tickets : Known(desk.ticket[t])'
  BY DEF DeskInv, TicketsKnown, Known, IsOwner, IsAdmin, IsAdminRole, RolesKept
<1> QED BY <1>1, <1>2 DEF DeskInv, TicketsKnown, StampsFollow, RowsStay

LEMMA TicketStep ==
    ASSUME DeskInv, RolesKept, NEW r \in Request,
           OpenTicket(r) \/ UpdateTicket(r) \/ Assign(r) \/ AddMessage(r) \/ TakeUp(r)
    PROVE  DeskTyped' /\ TicketsKnown' /\ StampsFollow' /\ RowsStay
<1>1. CASE OpenTicket(r)
  BY <1>1, OpenTicketWrites, TicketWritten
<1>2. CASE ~OpenTicket(r)
  <2>1. PICK t : t = body[r].ticket
    OBVIOUS
  <2>2. /\ Writes(t) /\ Known(desk'.ticket[t])
        /\ \/ t \in desk'.crossed
           \/ desk'.ticket[t].stamped <=> desk'.ticket[t].status \in Resolved
    BY <1>2, <2>1, UpdateTicketWrites, AssignWrites, ReplyWrites
  <2> QED BY <2>2, TicketWritten
<1> QED BY <1>1, <1>2

LEMMA BannerStep ==
    ASSUME DeskInv, RolesKept, NEW r \in Request, CreateBanner(r) \/ EditBanner(r)
    PROVE  DeskTyped' /\ TicketsKnown' /\ StampsFollow' /\ RowsStay
<1>0. SupportBodyFits(body[r]) /\ DeskTyped /\ RolesStand
  BY KeptStand DEF DeskInv
<1>1. CASE CreateBanner(r)
  <2>1. body[r].banner \in BannerRow /\ r \in BannerIds
    BY <1>0, <1>1, SupportAssumption DEF CreateBanner, At, SupportBodyFits
  <2>2. desk' = desk \/ desk' = [desk EXCEPT !.banner[r] = body[r].banner]
    BY <1>1 DEF CreateBanner
  <2>3. CASE desk' = desk
    BY <1>0, <2>3, TablesStay DEF DeskTyped, RolesKept
  <2>4. CASE desk' = [desk EXCEPT !.banner[r] = body[r].banner]
    BY <2>1, <2>4, BannerWritten
  <2> QED BY <2>2, <2>3, <2>4
<1>2. CASE EditBanner(r)
  <2> DEFINE n == body[r].banner
             row == Merged(desk.banner[n], body[r].set)
  <2>1. n \in Banners /\ body[r].op = "edit-banner"
    BY <1>2 DEF EditBanner, At, DeskInv, Handling
  <2>2. n \in BannerIds /\ desk.banner[n] \in BannerRow /\ DOMAIN desk = DeskTables
    BY <1>0, <2>1 DEF DeskTyped, Banners
  <2>3. desk' = [desk EXCEPT !.banner[n] = row]
    BY <1>2, <2>2 DEF EditBanner, DeskTables, DeskTyped
  <2>4. row \in BannerRow
    BY <1>0, <2>1, <2>2, MergedBanner
  <2> HIDE DEF row
  <2> QED BY <2>2, <2>3, <2>4, BannerWritten
<1> QED BY <1>1, <1>2

LEMMA SupportTables ==
    ASSUME DeskInv, NEW r \in Request, SupportStep(r)
    PROVE  DeskTyped' /\ TicketsKnown' /\ StampsFollow' /\ RowsStay
<1>0. DeskTyped /\ DOMAIN desk = DeskTables /\ auth' = auth
  BY SupportMoves DEF DeskInv, DeskTyped
<1>1. RolesKept /\ RolesStand
  BY <1>0, AuditKeepsRoles, KeptStand DEF DeskTyped
<1>2. CASE OpenTicket(r) \/ UpdateTicket(r) \/ Assign(r) \/ AddMessage(r) \/ TakeUp(r)
  BY <1>1, <1>2, TicketStep
<1>3. CASE CreateBanner(r) \/ EditBanner(r)
  BY <1>1, <1>3, BannerStep
<1>4. CASE desk' = desk
  BY <1>0, <1>1, <1>4, TablesStay DEF DeskTyped, RolesKept
<1>5. CASE CreateCampaign(r) \/ CancelCampaign(r) \/ UpdateTemplate(r) \/ UpdateFeature(r)
  <2>1. DOMAIN desk' = DeskTables /\ desk'.ticket = desk.ticket
        /\ desk'.banner = desk.banner /\ desk'.crossed = desk.crossed
    BY <1>0, <1>5 DEF CreateCampaign, CancelCampaign, UpdateTemplate, UpdateFeature, DeskTables
  <2> QED BY <1>1, <2>1, OtherDeskWritten
<1>6. \/ OpenTicket(r) \/ UpdateTicket(r) \/ Assign(r) \/ AddMessage(r) \/ TakeUp(r)
      \/ CreateBanner(r) \/ EditBanner(r)
      \/ CreateCampaign(r) \/ CancelCampaign(r) \/ UpdateTemplate(r) \/ UpdateFeature(r)
      \/ desk' = desk
  BY DEF SupportStep, FindCustomer, RequireTicket, RequireAssignable, ReadBanner, SendCampaign,
         RequireCampaign, DeskReads
<1> QED BY <1>2, <1>3, <1>4, <1>5, <1>6

LEMMA SupportHandles ==
    ASSUME DeskInv, NEW r \in Request, SupportStep(r), RowsStay
    PROVE  Handling(r)'
<1> USE FinishGoes, AwaitGoes, KeepGoes DEF At, TicketOps
<1>0. /\ Framed /\ body' = body
      /\ \A u : (IsOwner(u) <=> IsOwner(u)') /\ (IsAdmin(u) <=> IsAdmin(u)')
      /\ Tickets \subseteq Tickets' /\ Banners \subseteq Banners'
  <2>1. auth' = auth /\ Moves(r)
    BY SupportMoves
  <2> QED BY <2>1 DEF DeskInv, Moves, IsOwner, IsAdmin, IsAdminRole, RowsStay
<1>1. CASE pc'[r] \in {"enter", "audit", "done", "save-campaign"}
  BY <1>0, <1>1 DEF Handling
<1>2. CASE FindCustomer(r)
  BY <1>0, <1>2 DEF FindCustomer, Handling
<1>3. CASE RequireTicket(r)
  <2>1. CASE body[r].ticket \in Tickets
    <3>1. PICK l : /\ pc'[r] = l
                   /\ l = CASE body[r].op = "reply" -> "say"
                            [] body[r].op # "reply" /\ body[r].admin # Nothing -> "assignee"
                            [] OTHER -> "save-ticket"
      BY <1>0, <1>3, <2>1 DEF RequireTicket
    <3>2. l \in {"say", "assignee", "save-ticket"} /\ (l = "save-ticket" => body[r].admin = Nothing)
      BY <3>1
    <3> QED BY <1>0, <1>3, <2>1, <3>1, <3>2 DEF Handling, RequireTicket
  <2>2. CASE body[r].ticket \notin Tickets
    BY <1>0, <1>1, <1>3, <2>2 DEF RequireTicket
  <2> QED BY <2>1, <2>2
<1>4. CASE RequireAssignable(r)
  <2>1. body[r].op \in TicketOps /\ pc[r] = "assignee" /\ body[r].ticket \in Tickets
    BY <1>4 DEF RequireAssignable, DeskInv, Handling
  <2>2. \/ pc'[r] = "done"
        \/ pc'[r] = "save-ticket" /\ IsAdminRole(body[r].admin) /\ auth.status[body[r].admin] = "ACTIVE"
    BY <1>0, <1>4 DEF RequireAssignable
  <2>3. pc'[r] = "save-ticket" => IsAdmin(body[r].admin)
    BY <2>2 DEF IsAdmin
  <2> QED BY <1>0, <2>1, <2>2, <2>3 DEF Handling
<1>5. CASE AddMessage(r)
  <2>1. body[r].op = "reply" /\ body[r].ticket \in Tickets
    BY <1>5 DEF AddMessage, DeskInv, Handling
  <2>2. \/ pc'[r] = "done"
        \/ pc'[r] = "take-up" /\ mem' = mem /\ mem[r].status = "OPEN"
    <3>1. IF mem[r].status = "OPEN" THEN Await(r, "take-up") ELSE Finish(r)
      BY <1>5 DEF AddMessage
    <3> QED BY <1>0, <3>1
  <2> QED BY <1>0, <2>1, <2>2 DEF Handling
<1>6. CASE ReadBanner(r)
  BY <1>0, <1>6 DEF ReadBanner, Handling
<1>7. CASE OpenTicket(r) \/ UpdateTicket(r) \/ Assign(r) \/ TakeUp(r) \/ CreateBanner(r) \/ EditBanner(r)
  BY <1>0, <1>1, <1>7 DEF OpenTicket, UpdateTicket, Assign, TakeUp, CreateBanner, EditBanner
<1>8. CASE \/ CreateCampaign(r) \/ SendCampaign(r) \/ RequireCampaign(r) \/ CancelCampaign(r)
           \/ UpdateTemplate(r) \/ UpdateFeature(r)
  BY <1>0, <1>1, <1>8 DEF CreateCampaign, SendCampaign, RequireCampaign, CancelCampaign, UpdateTemplate, UpdateFeature
<1>9. CASE Authenticate(r, SupportOps)
  BY <1>0, <1>1, <1>9 DEF Authenticate
<1> QED BY <1>2, <1>3, <1>4, <1>5, <1>6, <1>7, <1>8, <1>9 DEF SupportStep

(* A step of another service, of an audit, or the end of a request.        *)
LEMMA HandlingElsewhere ==
    ASSUME DeskInv, RowsStay, RolesStand, NEW r \in Request, OfficeStep(r), ~SupportStep(r)
    PROVE  Handling(r)'
<1>0. DOMAIN auth = AuthTables /\ Framed
  BY DEF DeskInv, DeskTyped
<1>1. body' = body
  BY <1>0, OfficeMoves DEF Moves
<1>2. CASE Audit(r) \/ Abort(r)
  <2>1. pc'[r] \in {"done", "failed"}
    BY <1>0, <1>2, FinishGoes, AbortGoes DEF Audit
  <2> QED BY <2>1 DEF Handling
<1>3. CASE PlatformStep(r) \/ WatchStep(r)
  <2>1. body[r].op \in AppOps \cup CheckOps
    BY <1>0, <1>3, PlatformMoves, WatchMoves
  <2> QED BY <1>1, <2>1 DEF Handling, AppOps, CheckOps, PlatformOps, WatchOps, TicketOps
<1> QED BY <1>2, <1>3 DEF OfficeStep

LEMMA DeskStep ==
    ASSUME DeskInv, NEW r \in Request, OfficeStep(r)
    PROVE  DeskInv'
<1>0. Framed /\ DeskTyped /\ DOMAIN auth = AuthTables
  BY DEF DeskInv, DeskTyped
<1>1. Moves(r) /\ RolesKept /\ RolesStand
  BY <1>0, OfficeMoves, KeptStand
<1>2. /\ Framed' /\ body' = body
      /\ \A q \in Request \ {r} : pc'[q] = pc[q] /\ mem'[q] = mem[q]
  BY <1>0, <1>1, OthersStay
<1>3. DeskTyped' /\ TicketsKnown' /\ StampsFollow' /\ RowsStay
  <2>1. CASE SupportStep(r)
    BY <2>1, SupportTables
  <2>2. CASE ~SupportStep(r)
    <3>1. desk' = desk
      BY <1>0, <2>2, PlatformMoves, WatchMoves DEF OfficeStep, officeTables
    <3> QED BY <1>0, <1>1, <3>1, TablesStay DEF DeskTyped, RolesKept
  <2> QED BY <2>1, <2>2
<1>4. Handling(r)'
  BY <1>1, <1>3, SupportHandles, HandlingElsewhere
<1>5. \A q \in Request \ {r} : Handling(q)'
  BY <1>1, <1>2, <1>3, HandlingStays
<1> QED BY <1>2, <1>3, <1>4, <1>5 DEF DeskInv

LEMMA DeskQuiet ==
    ASSUME DeskInv, Elsewhere \/ Lapse \/ Hour \/ UNCHANGED officeVars
    PROVE  DeskInv'
<1>0. /\ body' = body /\ Framed' /\ desk' = desk /\ DOMAIN auth' = AuthTables /\ RolesStand
      /\ \A r \in Request : body[r].op \in OfficeOps => pc'[r] = pc[r] /\ mem'[r] = mem[r]
  <2>1. CASE Elsewhere
    BY <2>1 DEF Elsewhere, RolesStand, officeTables
  <2>2. CASE ~Elsewhere
    <3>1. UNCHANGED requests /\ auth' = auth /\ desk' = desk
      BY <2>2 DEF Lapse, Hour, WatchOnly, PlatformOnly, DeskOnly, officeVars, officeTables
    <3>2. RolesStand
      BY <3>1 DEF RolesStand, IsOwner, IsAdmin, IsAdminRole
    <3> QED BY <3>1, <3>2 DEF DeskInv, DeskTyped, requests, Framed
  <2> QED BY <2>1, <2>2
<1>1. TicketsKnown' /\ StampsFollow' /\ RowsStay
  BY <1>0, TablesStay
<1>2. ASSUME NEW r \in Request PROVE Handling(r)'
  <2>1. CASE body[r].op \in OfficeOps
    BY <1>0, <1>1, <2>1, HandlingStays
  <2>2. CASE body[r].op \notin OfficeOps
    BY <1>0, <2>2 DEF Handling, OfficeOps, SupportOps, TicketOps
  <2> QED BY <2>1, <2>2
<1> QED BY <1>0, <1>1, <1>2 DEF DeskInv, DeskTyped

LEMMA DeskStarts == RequestsInit /\ AuthInit /\ SupportInit => DeskInv
<1> SUFFICES ASSUME RequestsInit, AuthInit, SupportInit PROVE DeskInv
  OBVIOUS
<1>1. Framed /\ \A r \in Request : pc[r] \in {"start", "done"}
  BY RequestsStart
<1>2. DeskTyped
  BY AuthAssumption, SupportAssumption
     DEF DeskTyped, AuthInit, SupportInit, AuthTables, DeskTables, TicketIds, BannerIds
<1>3. \A r \in Request : SupportBodyFits(body[r])
  <2> TAKE r \in Request
  <2>1. CASE body[r] = NoBody
    BY <2>1 DEF NoBody, SupportBodyFits
  <2>2. CASE body[r] # NoBody
    BY <2>2, RequestsStart, SupportBodies
  <2> QED BY <2>1, <2>2
<1>4. TicketsKnown
  <2>1. \A t \in Tickets : t \in TicketIds /\ desk.ticket[t] = SupportStart.ticket[t] /\ desk.ticket[t] # Nothing
    BY DEF SupportInit, Tickets, TicketIds
  <2> QED BY <2>1, SupportAssumption
          DEF TicketsKnown, Known, IsOwner, IsAdmin, IsAdminRole, AuthInit
<1>5. StampsFollow
  <2>1. \A t \in Tickets : t \in TicketIds /\ desk.ticket[t] = SupportStart.ticket[t] /\ desk.ticket[t] # Nothing
    BY DEF SupportInit, Tickets, TicketIds
  <2> QED BY <2>1, SupportAssumption DEF StampsFollow
<1>6. \A r \in Request : Handling(r)
  BY <1>1 DEF Handling
<1> QED BY <1>1, <1>2, <1>3, <1>4, <1>5, <1>6 DEF DeskInv

LEMMA DeskInvariant == OfficeSpec => []DeskInv
<1>1. DeskInv /\ [OfficeNext]_officeVars => DeskInv'
  BY DeskStep, DeskQuiet DEF OfficeNext
<1> QED BY <1>1, DeskStarts, PTL DEF OfficeSpec

(* The three figures of the queue add up to it.                            *)
LEMMA QueueAddsUp ==
    ASSUME DeskInv
    PROVE  LET count(s) == Cardinality(WithStatus(s))
           IN  count("OPEN") + count("IN_PROGRESS") + count("WAITING_ON_USER")
                   = Cardinality(ListTickets("IN_QUEUE"))
<1> DEFINE A == WithStatus("OPEN")
           B == WithStatus("IN_PROGRESS")
           C == WithStatus("WAITING_ON_USER")
<1>0. IsFiniteSet(Tickets)
  <2>1. Tickets \subseteq TicketIds
    BY DEF DeskInv, DeskTyped, Tickets
  <2> QED BY <2>1, SupportAssumption, FS_Subset
<1>1. A \subseteq Tickets /\ B \subseteq Tickets /\ C \subseteq Tickets
  BY DEF WithStatus
<1>2. IsFiniteSet(A) /\ IsFiniteSet(B) /\ IsFiniteSet(C)
  BY <1>0, <1>1, FS_Subset
<1>3. A \cap B = {} /\ (A \cup B) \cap C = {}
  BY DEF WithStatus
<1>4. ListTickets("IN_QUEUE") = (A \cup B) \cup C
  BY DEF ListTickets, WithStatus, StatusGroups
<1> HIDE DEF A, B, C
<1>5. IsFiniteSet(A \cup B) /\ Cardinality(A \cup B) = Cardinality(A) + Cardinality(B) - Cardinality(A \cap B)
  BY <1>2, FS_Union
<1>6. Cardinality((A \cup B) \cup C)
        = Cardinality(A \cup B) + Cardinality(C) - Cardinality((A \cup B) \cap C)
  BY <1>2, <1>5, FS_Union
<1>7. Cardinality(A \cap B) = 0 /\ Cardinality((A \cup B) \cap C) = 0
  BY <1>3, FS_EmptySet
<1>8. Cardinality(A) \in Nat /\ Cardinality(B) \in Nat /\ Cardinality(C) \in Nat
  BY <1>2, FS_CardinalityType
<1>9. Cardinality(A) + Cardinality(B) + Cardinality(C) = Cardinality((A \cup B) \cup C)
  BY <1>5, <1>6, <1>7, <1>8
<1> QED BY <1>4, <1>9 DEF A, B, C

LEMMA BannersShown ==
    ASSUME DeskInv, NEW n \in Banners, NEW plans, n \in BannersFor(plans)
    PROVE  n \in ActiveBanners
<1>1. desk.banner[n] \in BannerRow /\ Today \in Int
  BY SupportAssumption DEF DeskInv, DeskTyped, Banners
<1>2. desk.banner[n].on /\ desk.banner[n].from <= Today
      /\ (desk.banner[n].until = 0 \/ desk.banner[n].until > Today)
  BY DEF BannersFor
<1>3. ~(Today < desk.banner[n].from)
      /\ ~(desk.banner[n].until # 0 /\ Today > desk.banner[n].until)
  BY <1>1, <1>2 DEF BannerRow
<1>4. BannerStatus(desk.banner[n]) = "ACTIVE"
  BY <1>2, <1>3 DEF BannerStatus
<1> QED BY <1>4 DEF ActiveBanners

(* The figures, tabs and names of the support page fit the tickets in      *)
(* whatever order they are answered, assigned and closed, the time of      *)
(* solving follows the status, and what customers are shown is active.     *)
THEOREM DeskStaysSound == OfficeSpec => []DeskSound
<1>1. ASSUME DeskInv PROVE DeskSound
  <2>0. \A t \in Tickets : desk.ticket[t] \in TicketRow /\ Known(desk.ticket[t])
    BY <1>1 DEF DeskInv, DeskTyped, Tickets, TicketsKnown
  <2>1. StampsFollow
    BY <1>1 DEF DeskInv
  <2> DEFINE queue == ListTickets("IN_QUEUE")
             done == ListTickets("DONE")
             assigned == {t \in Tickets : desk.ticket[t].admin # Nothing}
  <2>2. queue \cap done = {} /\ queue \cup done = Tickets
    BY <2>0 DEF ListTickets, StatusGroups, TicketRow, TicketStatus
  <2>3. Stats.open + Stats.inProgress + Stats.waiting = Cardinality(queue)
    BY <1>1, QueueAddsUp DEF Stats
  <2>4. Stats.urgent = Cardinality({t \in queue : desk.ticket[t].urgent})
    <3>1. {t \in Tickets : desk.ticket[t].urgent /\ desk.ticket[t].status \notin Resolved}
            = {t \in queue : desk.ticket[t].urgent}
      BY <2>0 DEF ListTickets, StatusGroups, TicketRow, TicketStatus, Resolved
    <3> QED BY <3>1 DEF Stats
  <2>5. desk.crossed = {} => Stats.solved = Cardinality(done)
    <3>1. desk.crossed = {} => {t \in Tickets : desk.ticket[t].stamped} = done
      BY <2>1 DEF StampsFollow, ListTickets, StatusGroups, Resolved
    <3> QED BY <3>1 DEF Stats
  <2>6. \A t \in Tickets : RequesterTickets(t).solved = RequesterTickets(t).total \cap done
    BY DEF RequesterTickets, ListTickets, StatusGroups, Resolved
  <2>7. Requesters({desk.ticket[t].user : t \in Tickets}) = {desk.ticket[t].user : t \in Tickets}
    BY <2>0 DEF Requesters, Known
  <2>8. AssignedAdmins({desk.ticket[t].admin : t \in assigned}) = {desk.ticket[t].admin : t \in assigned}
    BY <2>0 DEF AssignedAdmins, Known, IsAdmin
  <2>9. TabsAgree
    BY <2>2, <2>3, <2>4, <2>5, <2>6, <2>7, <2>8 DEF TabsAgree
  <2>10. BannersAgree
    <3> DEFINE all == BannersFor({desk.banner[n].plan : n \in Banners})
    <3>1. all \subseteq ActiveBanners
      BY <1>1, BannersShown DEF BannersFor
    <3>2. ASSUME NEW n \in ActiveBanners, n \notin all PROVE desk.banner[n].until = Today
      <4>0. n \in Banners /\ desk.banner[n] \in BannerRow /\ Today \in Int
        BY <1>1, SupportAssumption DEF DeskInv, DeskTyped, Banners, ActiveBanners
      <4>1. BannerStatus(desk.banner[n]) = "ACTIVE"
        BY DEF ActiveBanners
      <4>2. /\ desk.banner[n].on /\ ~(Today < desk.banner[n].from)
            /\ ~(desk.banner[n].until # 0 /\ Today > desk.banner[n].until)
        <5> DEFINE b == desk.banner[n]
        <5>1. b.on \in BOOLEAN /\ b.from \in Int /\ b.until \in Int
          BY <4>0 DEF BannerRow
        <5>2. CASE ~b.on
          BY <4>1, <5>2 DEF BannerStatus
        <5>3. CASE b.on /\ Today < b.from
          BY <4>1, <5>3 DEF BannerStatus
        <5>4. CASE b.on /\ ~(Today < b.from) /\ b.until # 0 /\ Today > b.until
          <6>1. Today >= b.from
            BY <4>0, <5>1, <5>4
          <6> QED BY <4>1, <5>4, <6>1 DEF BannerStatus
        <5> QED BY <5>1, <5>2, <5>3, <5>4
      <4>3. desk.banner[n].plan \in {desk.banner[m].plan : m \in Banners}
        BY <4>0
      <4>4. ~(desk.banner[n].from <= Today /\ (desk.banner[n].until = 0 \/ desk.banner[n].until > Today))
        <5>1. PICK plans : plans = {desk.banner[m].plan : m \in Banners}
          OBVIOUS
        <5>2. n \notin BannersFor(plans) /\ desk.banner[n].plan \in plans
          BY <3>2, <4>3, <5>1
        <5> QED BY <4>0, <4>2, <5>2 DEF BannersFor
      <4> QED BY <4>0, <4>2, <4>4 DEF BannerRow
    <3> QED BY <3>1, <3>2 DEF BannersAgree
  <2> QED BY <2>1, <2>9, <2>10 DEF DeskSound
<1> QED BY <1>1, DeskInvariant, PTL

(***************************************************************************)
(* The settings and their cached copy                                      *)
(***************************************************************************)
CacheTyped ==
    /\ DOMAIN platform = {"closed", "cache", "flag"}
    /\ platform.cache # Nothing => DOMAIN platform.cache = {"closed", "fresh", "crossed"}

SettingsInv == DeskInv /\ CacheTyped /\ CacheFollows

(* A change that has been made and not been told is still there.           *)
Changing == {r \in Request : body[r].op = "settings" /\ pc[r] \in {"clear-cache", "failed"}}

LEMMA FollowsMeans ==
    CacheFollows <=> \/ ~Cached \/ platform.cache.crossed \/ platform.cache.closed = platform.closed
                     \/ Changing # {}
BY DEF CacheFollows, Changing

LEMMA ChangingStays ==
    ASSUME DeskInv, NEW r \in Request, OfficeStep(r), ~ClearCache(r)
    PROVE  Changing \subseteq Changing'
<1>0. DOMAIN auth = AuthTables /\ Framed
  BY DEF DeskInv, DeskTyped
<1>1. body' = body /\ ~Ended(r) /\ \A q \in Request \ {r} : pc'[q] = pc[q]
  BY <1>0, OfficeMoves, OthersStay
<1>2. CASE body[r].op = "settings" /\ pc[r] = "clear-cache"
  <2>1. ~SupportStep(r) /\ ~WatchStep(r) /\ ~Audit(r)
    BY <1>0, <1>2, SupportMoves, WatchMoves DEF SupportOps, TicketOps, CheckOps, WatchOps, Audit
  <2>2. ~PlatformStep(r)
    BY <1>2 DEF PlatformStep, At, Authenticate, ReadBefore, SaveSettings, Ask, Get, FillCache,
                FindFlag, InsertFlag, UpdateFlag
  <2>3. pc'[r] = "failed"
    BY <1>0, <2>1, <2>2, AbortGoes DEF OfficeStep
  <2> QED BY <1>1, <2>3 DEF Changing
<1>3. CASE ~(body[r].op = "settings" /\ pc[r] = "clear-cache")
  <2>1. r \notin Changing
    BY <1>1, <1>3 DEF Changing, Ended
  <2> QED BY <1>1, <2>1 DEF Changing
<1> QED BY <1>2, <1>3

LEMMA SettingsStep ==
    ASSUME SettingsInv, NEW r \in Request, OfficeStep(r)
    PROVE  CacheTyped' /\ CacheFollows'
<1>0. DOMAIN auth = AuthTables /\ Framed /\ CacheTyped /\ DeskInv
  BY DEF SettingsInv, DeskInv, DeskTyped
<1>1. CASE ClearCache(r)
  <2>1. DOMAIN platform' = {"closed", "cache", "flag"} /\ platform'.cache = Nothing
    BY <1>0, <1>1 DEF ClearCache, CacheTyped
  <2> QED BY <2>1 DEF CacheTyped, CacheFollows, Cached
<1>2. CASE SaveSettings(r)
  <2>1. DOMAIN platform' = {"closed", "cache", "flag"} /\ platform'.cache = platform.cache
    BY <1>0, <1>2 DEF SaveSettings, CacheTyped
  <2>2. body'[r].op = "settings" /\ pc'[r] = "clear-cache"
    BY <1>0, <1>2, AwaitGoes DEF SaveSettings, At
  <2> QED BY <1>0, <2>1, <2>2 DEF CacheTyped, CacheFollows
<1>3. CASE FillCache(r)
  <2> DEFINE copy == [closed |-> mem[r].closed, fresh |-> TRUE, crossed |-> mem[r].closed # platform.closed]
  <2>1. platform' = [platform EXCEPT !.cache = copy]
    BY <1>3 DEF FillCache
  <2>2. DOMAIN copy = {"closed", "fresh", "crossed"} /\ (copy.crossed \/ copy.closed = platform.closed)
    OBVIOUS
  <2> HIDE DEF copy
  <2>3. /\ DOMAIN platform' = {"closed", "cache", "flag"}
        /\ platform'.cache = copy /\ platform'.closed = platform.closed
    BY <1>0, <2>1 DEF CacheTyped
  <2> QED BY <2>2, <2>3 DEF CacheTyped, CacheFollows
<1>4. CASE ~ClearCache(r) /\ ~SaveSettings(r) /\ ~FillCache(r)
  <2>1. /\ DOMAIN platform' = DOMAIN platform
        /\ platform'.cache = platform.cache /\ platform'.closed = platform.closed
    <3>1. CASE (SupportStep(r) /\ UNCHANGED <<platform, watch>>) \/ WatchStep(r) \/ UNCHANGED officeTables
      BY <1>0, <3>1, WatchMoves DEF officeTables
    <3>2. CASE PlatformStep(r)
      <4>1. CASE platform' = platform
        BY <4>1
      <4>2. CASE InsertFlag(r)
        BY <1>0, <4>2 DEF InsertFlag, CacheTyped
      <4>3. CASE UpdateFlag(r)
        BY <1>0, <4>3 DEF UpdateFlag, CacheTyped
      <4> QED BY <1>4, <3>2, <4>1, <4>2, <4>3
              DEF PlatformStep, ReadBefore, Ask, Get, FindFlag, PlatformReads
    <3> QED BY <3>1, <3>2 DEF OfficeStep, officeTables
  <2>2. Changing \subseteq Changing'
    BY <1>0, <1>4, ChangingStays
  <2>3. CacheTyped'
    BY <1>0, <2>1 DEF CacheTyped
  <2>4. ~Cached' \/ platform.cache.crossed \/ platform.cache.closed = platform.closed \/ Changing' # {}
    BY <2>1, <2>2, FollowsMeans DEF SettingsInv, Cached
  <2>5. CacheFollows'
    BY <2>1, <2>4 DEF CacheFollows, Changing
  <2> QED BY <2>3, <2>5
<1> QED BY <1>1, <1>2, <1>3, <1>4

LEMMA SettingsQuiet ==
    ASSUME SettingsInv, Elsewhere \/ Lapse \/ Hour \/ UNCHANGED officeVars
    PROVE  CacheTyped' /\ CacheFollows'
<1>1. CASE Lapse
  <2>0. DOMAIN platform = {"closed", "cache", "flag"} /\ platform.cache # Nothing
        /\ DOMAIN platform.cache = {"closed", "fresh", "crossed"}
    BY <1>1 DEF Lapse, Cached, SettingsInv, CacheTyped
  <2>1. /\ DOMAIN platform' = {"closed", "cache", "flag"}
        /\ DOMAIN platform'.cache = {"closed", "fresh", "crossed"} /\ platform'.cache.fresh = FALSE
    BY <1>1, <2>0 DEF Lapse
  <2> QED BY <2>1 DEF CacheTyped, CacheFollows, Cached
<1>2. CASE ~Lapse
  <2>1. platform' = platform /\ body' = body
        /\ \A r \in Request : body[r].op \in OfficeOps => pc'[r] = pc[r]
    BY <1>2 DEF Elsewhere, Hour, WatchOnly, officeVars, officeTables, requests
  <2>2. "settings" \in OfficeOps
    BY DEF OfficeOps, AppOps, PlatformOps
  <2>3. Changing \subseteq Changing'
    BY <2>1, <2>2 DEF Changing
  <2>4. ~Cached' \/ platform.cache.crossed \/ platform.cache.closed = platform.closed \/ Changing' # {}
    BY <2>1, <2>3, FollowsMeans DEF SettingsInv, Cached
  <2>5. CacheFollows'
    BY <2>1, <2>4 DEF CacheFollows, Changing
  <2> QED BY <2>1, <2>5 DEF SettingsInv, CacheTyped
<1> QED BY <1>1, <1>2

LEMMA SettingsInvariant == OfficeSpec => []SettingsInv
<1>1. SettingsInv /\ [OfficeNext]_officeVars => SettingsInv'
  BY DeskStep, DeskQuiet, SettingsStep, SettingsQuiet DEF OfficeNext, SettingsInv
<1>2. RequestsInit /\ AuthInit /\ SupportInit /\ PlatformInit => SettingsInv
  BY DeskStarts, PlatformAssumption DEF PlatformInit, SettingsInv, CacheTyped, CacheFollows, Cached
<1> QED BY <1>1, <1>2, PTL DEF OfficeSpec

(* "update() clears it, so this process sees its own changes at once":     *)
(* requests are answered from the settings as they are, but while a change *)
(* is being made or after a read that it overtook; and customers are shown *)
(* only announcements that are active and meant for them.                  *)
THEOREM SettingsAreHeard == OfficeSpec => []SettingsHeard
<1>1. ASSUME SettingsInv PROVE SettingsHeard
  <2>1. CacheFollows /\ DeskInv
    BY <1>1 DEF SettingsInv
  <2>2. ASSUME NEW u \in User, NEW n \in ForCustomer(u).announcements
        PROVE  n \in ActiveBanners /\ (desk.banner[n].plan # Nothing => workspaces[u] > 0)
    <3>1. n \in Banners /\ n \in BannersFor(PlansOf(u))
      BY DEF ForCustomer, BannersFor
    <3>2. n \in ActiveBanners
      BY <2>1, <3>1, BannersShown
    <3>3. desk.banner[n].plan \in PlansOf(u) \cup {Nothing}
      BY <3>1 DEF BannersFor
    <3> QED BY <3>2, <3>3 DEF PlansOf
  <2> QED BY <2>1, <2>2 DEF SettingsHeard, ShownSound
<1> QED BY <1>1, SettingsInvariant, PTL

(***************************************************************************)
(* The sign-in monitor                                                     *)
(***************************************************************************)
LEMMA NewestIsOne ==
    ASSUME NEW len \in Nat, NEW S \in SUBSET (1..len), S # {}
    PROVE  Newest(S) \in S
<1> DEFINE before == OpToRel(<, Nat)
           T == {len - i : i \in S}
<1>1. IsWellFoundedOn(before, Nat)
  BY NatLessThanWellFounded
<1>2. T \subseteq Nat /\ T # {}
  <2>1. ASSUME NEW i \in S PROVE i \in Int /\ len - i \in Nat
    <3>1. i \in Int /\ i <= len
      OBVIOUS
    <3> QED BY <3>1
  <2> QED BY <2>1
<1> HIDE DEF before
<1>3. PICK x \in T : \A y \in T : ~(<<y, x>> \in before)
  BY <1>1, <1>2, WFMin
<1>4. ASSUME NEW y \in T PROVE x <= y
  <2>0. x \in Nat /\ y \in Nat
    BY <1>2
  <2>1. y < x => <<y, x>> \in before
    BY <2>0 DEF before, OpToRel
  <2>2. ~(y < x)
    BY <1>3, <2>1
  <2> HIDE DEF T
  <2> QED BY <2>0, <2>2
<1>5. PICK i \in S : x = len - i
  BY <1>3
<1>6. \A j \in S : j <= i
  <2> TAKE j \in S
  <2>1. len - i <= len - j
    BY <1>4, <1>5
  <2> QED BY <2>1
<1> QED BY <1>6 DEF Newest

WatchTyped ==
    /\ Framed /\ DOMAIN auth = AuthTables /\ (\A r \in Request : WatchBodyFits(body[r]))
    /\ DOMAIN watch = {"tries", "flag", "found"}
    /\ watch.tries \in Seq(TryRow) /\ watch.flag \in Seq(FlagRow)
    /\ watch.found \in [Request -> SUBSET Network]

(* A network that a check has found is flagged, or it is still to look.    *)
Checking(r) ==
    IF body[r].op # "check"
    THEN /\ watch.found[r] = {}
         /\ body[r].op = "review" /\ pc[r] = "save-flag" => body[r].flag \in DOMAIN watch.flag
    ELSE /\ pc[r] \in {"start", "enter", "look-for-flag", "raise-flag", "audit", "done", "failed"}
         /\ pc[r] \in {"start", "enter"} => watch.found[r] = {}
         /\ pc[r] \in {"look-for-flag", "raise-flag"} => mem[r].left \subseteq Network
         /\ pc[r] = "raise-flag" => mem[r].net \in Network
         /\ pc[r] # "failed" =>
              \A n \in watch.found[r] :
                  \/ Recent(n) # {}
                  \/ pc[r] \in {"look-for-flag", "raise-flag"} /\ n \in mem[r].left
                  \/ pc[r] = "raise-flag" /\ n = mem[r].net

WatchInv == WatchTyped /\ \A r \in Request : Checking(r)

FlagsStay ==
    /\ DOMAIN watch.flag \subseteq DOMAIN watch'.flag
    /\ \A n \in Network : Recent(n) # {} => Recent(n)' # {}

LEMMA CheckingStays ==
    ASSUME WatchInv, NEW r \in Request, FlagsStay, body' = body,
           pc'[r] = pc[r], mem'[r] = mem[r], watch'.found[r] = watch.found[r]
    PROVE  Checking(r)'
<1>1. watch.found[r] \subseteq Network /\ Checking(r)
  BY DEF WatchInv, WatchTyped
<1>2. ASSUME NEW n \in watch.found[r], Recent(n) # {} PROVE Recent(n)' # {}
  BY <1>1, <1>2 DEF FlagsStay
<1> HIDE DEF Recent
<1> QED BY <1>1, <1>2 DEF Checking, FlagsStay

LEMMA SameWatch ==
    ASSUME WatchTyped, Framed', body' = body, DOMAIN auth' = AuthTables, watch' = watch
    PROVE  WatchTyped' /\ FlagsStay /\ \A q \in Request : watch'.found[q] = watch.found[q]
BY DEF WatchTyped, FlagsStay, Recent, FlagsOf

(* What each of its own steps writes.                                      *)
LEMMA RefusalWrites ==
    ASSUME WatchTyped, NEW r \in Request, RecordRefusal(r), Framed', body' = body, DOMAIN auth' = AuthTables
    PROVE  WatchTyped' /\ FlagsStay /\ \A q \in Request : watch'.found[q] = watch.found[q]
<1> DEFINE try == [net |-> body[r].net, user |-> body[r].user, why |-> "rate_limited", age |-> "now"]
<1>1. try \in TryRow
  BY DEF WatchTyped, WatchBodyFits, RecordRefusal, At, TryRow
<1>2. watch' = [watch EXCEPT !.tries = Append(@, try)]
  BY DEF RecordRefusal
<1> HIDE DEF try
<1>3. /\ DOMAIN watch' = {"tries", "flag", "found"} /\ watch'.tries = Append(watch.tries, try)
      /\ watch'.flag = watch.flag /\ watch'.found = watch.found
  BY <1>2 DEF WatchTyped
<1>4. watch'.tries \in Seq(TryRow)
  BY <1>1, <1>3 DEF WatchTyped
<1> QED BY <1>3, <1>4 DEF WatchTyped, FlagsStay, Recent, FlagsOf

LEMMA FindingWrites ==
    ASSUME WatchTyped, NEW r \in Request, ReadFailures(r), Framed', body' = body, DOMAIN auth' = AuthTables
    PROVE  /\ WatchTyped' /\ FlagsStay
           /\ watch'.found[r] = OverThreshold /\ OverThreshold \subseteq Network
           /\ \A q \in Request \ {r} : watch'.found[q] = watch.found[q]
<1> DEFINE over == OverThreshold
<1>1. over \subseteq Network
  BY DEF OverThreshold
<1>2. watch' = [watch EXCEPT !.found[r] = over]
  BY DEF ReadFailures
<1> HIDE DEF over
<1>3. /\ DOMAIN watch' = {"tries", "flag", "found"} /\ watch'.tries = watch.tries
      /\ watch'.flag = watch.flag /\ watch'.found = [watch.found EXCEPT ![r] = over]
  BY <1>2 DEF WatchTyped
<1>4. watch'.found \in [Request -> SUBSET Network] /\ watch'.found[r] = over
      /\ \A q \in Request \ {r} : watch'.found[q] = watch.found[q]
  BY <1>1, <1>3 DEF WatchTyped
<1>5. WatchTyped' /\ FlagsStay
  BY <1>3, <1>4 DEF WatchTyped, FlagsStay, Recent, FlagsOf
<1> QED BY <1>1, <1>4, <1>5 DEF over

LEMMA FlagWrites ==
    ASSUME WatchTyped, NEW r \in Request, RaiseFlag(r), mem[r].net \in Network,
           Framed', body' = body, DOMAIN auth' = AuthTables
    PROVE  /\ WatchTyped' /\ FlagsStay /\ Recent(mem[r].net)' # {}
           /\ \A q \in Request : watch'.found[q] = watch.found[q]
<1> DEFINE f == [net |-> mem[r].net, status |-> "OPEN", age |-> "hour"]
           l == Len(watch.flag)
<1>1. f \in FlagRow
  BY DEF FlagRow, FlagStatus
<1>2. watch' = [watch EXCEPT !.flag = Append(@, f)] /\ mem' = mem
  BY DEF RaiseFlag, Await
<1>3. f.net = mem[r].net /\ f.age = "hour"
  OBVIOUS
<1> HIDE DEF f
<1>4. /\ DOMAIN watch' = {"tries", "flag", "found"} /\ watch'.tries = watch.tries
      /\ watch'.flag = Append(watch.flag, f) /\ watch'.found = watch.found
  BY <1>2 DEF WatchTyped
<1>5. /\ watch'.flag \in Seq(FlagRow) /\ l \in Nat
      /\ DOMAIN watch.flag = 1..l /\ DOMAIN watch'.flag = 1..(l + 1)
      /\ watch'.flag[l + 1] = f /\ \A i \in 1..l : watch'.flag[i] = watch.flag[i]
  BY <1>1, <1>4 DEF WatchTyped
<1> HIDE DEF l
<1>6. FlagsStay
  BY <1>5 DEF FlagsStay, Recent, FlagsOf
<1>7. l + 1 \in Recent(mem[r].net)'
  BY <1>2, <1>3, <1>5 DEF Recent, FlagsOf
<1> QED BY <1>4, <1>5, <1>6, <1>7 DEF WatchTyped

LEMMA ReviewWrites ==
    ASSUME WatchTyped, NEW r \in Request, ReviewFlag(r), body[r].flag \in DOMAIN watch.flag,
           Framed', body' = body, DOMAIN auth' = AuthTables
    PROVE  WatchTyped' /\ FlagsStay /\ \A q \in Request : watch'.found[q] = watch.found[q]
<1> DEFINE i == body[r].flag
           new == [watch.flag[i] EXCEPT !.status = body[r].status]
           l == Len(watch.flag)
<1>0. l \in Nat /\ DOMAIN watch.flag = 1..l /\ watch.flag \in [1..l -> FlagRow] /\ i \in 1..l
  BY DEF WatchTyped
<1>1. /\ new \in FlagRow /\ new.net = watch.flag[i].net /\ new.age = watch.flag[i].age
  BY <1>0 DEF WatchTyped, WatchBodyFits, ReviewFlag, At, FlagRow
<1>2. watch' = [watch EXCEPT !.flag[i].status = body[r].status]
  BY DEF ReviewFlag
<1>3. /\ DOMAIN watch' = {"tries", "flag", "found"} /\ watch'.tries = watch.tries
      /\ watch'.flag = [watch.flag EXCEPT ![i] = new] /\ watch'.found = watch.found
  BY <1>2 DEF WatchTyped
<1> HIDE DEF new, l
<1>4. /\ watch'.flag \in [1..l -> FlagRow] /\ DOMAIN watch'.flag = 1..l
      /\ \A k \in 1..l : watch'.flag[k].net = watch.flag[k].net /\ watch'.flag[k].age = watch.flag[k].age
  BY <1>0, <1>1, <1>3
<1>5. watch'.flag \in Seq(FlagRow)
  BY <1>0, <1>4
<1>6. FlagsStay
  BY <1>0, <1>4 DEF FlagsStay, Recent, FlagsOf
<1> QED BY <1>3, <1>5, <1>6 DEF WatchTyped

LEMMA WatchTables ==
    ASSUME WatchInv, NEW r \in Request, OfficeStep(r)
    PROVE  /\ WatchTyped' /\ FlagsStay /\ Framed' /\ body' = body
           /\ \A q \in Request \ {r} :
                pc'[q] = pc[q] /\ mem'[q] = mem[q] /\ watch'.found[q] = watch.found[q]
           /\ ~ReadFailures(r) => watch'.found[r] = watch.found[r]
<1>0. WatchTyped /\ Framed /\ DOMAIN auth = AuthTables /\ Checking(r)
  BY DEF WatchInv, WatchTyped
<1>1. Moves(r) /\ DOMAIN auth' = AuthTables
  BY <1>0, OfficeMoves DEF RolesKept
<1>2. /\ Framed' /\ body' = body
      /\ \A q \in Request \ {r} : pc'[q] = pc[q] /\ mem'[q] = mem[q]
  BY <1>0, <1>1, OthersStay
<1>3. CASE watch' = watch
  BY <1>0, <1>1, <1>2, <1>3, SameWatch
<1>4. CASE RecordRefusal(r)
  BY <1>0, <1>1, <1>2, <1>4, RefusalWrites
<1>5. CASE ReadFailures(r)
  BY <1>0, <1>1, <1>2, <1>5, FindingWrites
<1>6. CASE RaiseFlag(r)
  <2>1. mem[r].net \in Network
    BY <1>0, <1>6 DEF RaiseFlag, At, Checking
  <2> QED BY <1>0, <1>1, <1>2, <1>6, <2>1, FlagWrites
<1>7. CASE ReviewFlag(r)
  <2>1. body[r].flag \in DOMAIN watch.flag
    BY <1>0, <1>7 DEF ReviewFlag, At, Checking
  <2> QED BY <1>0, <1>1, <1>2, <1>7, <2>1, ReviewWrites
<1> QED BY <1>3, <1>4, <1>5, <1>6, <1>7
        DEF OfficeStep, officeTables, WatchStep, WatchReads, CountRefusals, LookForFlag, RequireFlag

LEMMA ChecksGoOn ==
    ASSUME WatchInv, NEW r \in Request, WatchStep(r)
    PROVE  Checking(r)'
<1> USE FinishGoes, AwaitGoes, KeepGoes DEF At
<1>0. /\ WatchTyped /\ Framed /\ Framed' /\ body' = body /\ Checking(r) /\ FlagsStay
      /\ watch.found[r] \subseteq Network
      /\ ~ReadFailures(r) => watch'.found[r] = watch.found[r]
  BY WatchTables DEF WatchInv, WatchTyped, OfficeStep
<1>1. CASE Authenticate(r, WatchOps)
  <2>1. pc[r] = "start" /\ pc'[r] \in {"enter", "done"} /\ body[r].op \in WatchOps
    BY <1>0, <1>1 DEF Authenticate
  <2>2. watch'.found[r] = {}
    BY <1>0, <2>1 DEF Checking, ReadFailures
  <2> QED BY <1>0, <2>1, <2>2 DEF Checking
<1>2. CASE CountRefusals(r) \/ RecordRefusal(r) \/ RequireFlag(r) \/ ReviewFlag(r)
  <2>1. body[r].op \in {"refused", "review"} /\ ~ReadFailures(r)
    BY <1>2 DEF CountRefusals, RecordRefusal, RequireFlag, ReviewFlag, ReadFailures
  <2>2. body[r].op = "review" /\ pc'[r] = "save-flag" => body[r].flag \in DOMAIN watch.flag
    BY <1>0, <1>2 DEF CountRefusals, RecordRefusal, RequireFlag, ReviewFlag
  <2> QED BY <1>0, <2>1, <2>2 DEF Checking, FlagsStay
<1>3. CASE ReadFailures(r)
  <2>1. /\ body[r].op = "check" /\ pc'[r] = "look-for-flag"
        /\ mem'[r] = [left |-> OverThreshold, net |-> Nothing]
    BY <1>0, <1>3 DEF ReadFailures
  <2>2. watch'.found[r] = OverThreshold /\ OverThreshold \subseteq Network
    <3>1. DOMAIN auth' = AuthTables
      BY <1>0, WatchMoves DEF WatchTyped, RolesKept
    <3> QED BY <1>0, <1>3, <3>1, FindingWrites
  <2>3. mem'[r].left = OverThreshold
    BY <2>1
  <2> HIDE DEF OverThreshold, Recent
  <2> QED BY <1>0, <2>1, <2>2, <2>3 DEF Checking
<1>4. CASE LookForFlag(r)
  <2>0. /\ body[r].op = "check" /\ pc[r] = "look-for-flag" /\ ~ReadFailures(r) /\ watch' = watch
        /\ mem[r].left \subseteq Network
    BY <1>0, <1>4 DEF LookForFlag, ReadFailures, WatchReads, Checking
  <2>1. \A n \in watch.found[r] : Recent(n) # {} \/ n \in mem[r].left
    BY <1>0, <2>0 DEF Checking
  <2>2. \A n \in watch'.found[r] : (Recent(n)' # {} \/ n \in mem[r].left)
    BY <1>0, <2>0, <2>1 DEF FlagsStay
  <2>3. CASE mem[r].left = {}
    <3>1. pc'[r] = "audit"
      BY <1>0, <1>4, <2>3 DEF LookForFlag
    <3> HIDE DEF Recent
    <3> QED BY <1>0, <2>0, <2>2, <2>3, <3>1 DEF Checking
  <2>4. CASE mem[r].left # {}
    <3>1. PICK m \in mem[r].left :
            Keep(r, IF Recent(m) = {} THEN "raise-flag" ELSE "look-for-flag",
                 [left |-> mem[r].left \ {m}, net |-> m])
      BY <1>4, <2>4 DEF LookForFlag
    <3>2. /\ pc'[r] = IF Recent(m) = {} THEN "raise-flag" ELSE "look-for-flag"
          /\ mem'[r].left = mem[r].left \ {m} /\ mem'[r].net = m
      BY <1>0, <3>1
    <3>3. m \in Network /\ (Recent(m) # {} => Recent(m)' # {})
      BY <1>0, <2>0 DEF FlagsStay
    <3> HIDE DEF Recent
    <3> QED BY <1>0, <2>0, <2>2, <3>2, <3>3 DEF Checking
  <2> QED BY <2>3, <2>4
<1>5. CASE RaiseFlag(r)
  <2>0. body[r].op = "check" /\ pc[r] = "raise-flag" /\ ~ReadFailures(r)
        /\ pc'[r] = "look-for-flag" /\ mem' = mem
        /\ mem[r].left \subseteq Network /\ mem[r].net \in Network
    BY <1>0, <1>5 DEF RaiseFlag, ReadFailures, Checking
  <2>1. Recent(mem[r].net)' # {}
    <3>1. DOMAIN auth' = AuthTables
      BY <1>0, WatchMoves DEF WatchTyped, RolesKept
    <3> QED BY <1>0, <1>5, <2>0, <3>1, FlagWrites
  <2>2. \A n \in watch.found[r] : Recent(n) # {} \/ n \in mem[r].left \/ n = mem[r].net
    BY <1>0, <2>0 DEF Checking
  <2>3. \A n \in watch'.found[r] : (Recent(n)' # {} \/ n \in mem[r].left)
    BY <1>0, <2>0, <2>1, <2>2 DEF FlagsStay
  <2> HIDE DEF Recent
  <2> QED BY <1>0, <2>0, <2>3 DEF Checking
<1> QED BY <1>1, <1>2, <1>3, <1>4, <1>5 DEF WatchStep

LEMMA ChecksElsewhere ==
    ASSUME WatchInv, NEW r \in Request, OfficeStep(r), ~WatchStep(r)
    PROVE  Checking(r)'
<1>0. /\ Framed /\ DOMAIN auth = AuthTables /\ body' = body /\ Checking(r) /\ FlagsStay
      /\ watch' = watch /\ watch.found[r] \subseteq Network
  BY WatchTables DEF WatchInv, WatchTyped, OfficeStep, officeTables
<1>1. CASE Abort(r)
  BY <1>0, <1>1, AbortGoes DEF Checking
<1>2. CASE Audit(r)
  <2>1. pc[r] = "audit" /\ pc'[r] = "done"
    BY <1>0, <1>2, FinishGoes DEF Audit
  <2>2. body[r].op = "check" => \A n \in watch.found[r] : Recent(n)' # {}
    BY <1>0, <2>1 DEF Checking, FlagsStay
  <2> HIDE DEF Recent
  <2> QED BY <1>0, <2>1, <2>2 DEF Checking
<1>3. CASE SupportStep(r) \/ PlatformStep(r)
  <2>1. body[r].op \notin CheckOps
    BY <1>0, <1>3, SupportMoves, PlatformMoves
       DEF CheckOps, WatchOps, SupportOps, TicketOps, AppOps, PlatformOps
  <2> QED BY <1>0, <2>1 DEF Checking, CheckOps, WatchOps
<1> QED BY <1>1, <1>2, <1>3 DEF OfficeStep

LEMMA HourPasses ==
    ASSUME WatchInv, Hour
    PROVE  WatchInv'
<1>0. WatchTyped /\ UNCHANGED requests /\ auth' = auth
      /\ \A r \in Request : body[r].op = "check" => pc[r] \in {"start", "done", "failed"}
  BY DEF Hour, WatchInv, WatchOnly, PlatformOnly, DeskOnly
<1> DEFINE tries == [t \in DOMAIN watch.tries |-> [watch.tries[t] EXCEPT !.age = "week"]]
           flag == [f \in DOMAIN watch.flag |-> [watch.flag[f] EXCEPT !.age = "old"]]
<1>1. /\ DOMAIN watch' = {"tries", "flag", "found"} /\ watch'.tries = tries
      /\ watch'.flag = flag /\ watch'.found = [r \in Request |-> {}]
  BY DEF Hour
<1>2. tries \in Seq(TryRow)
  <2>1. Len(watch.tries) \in Nat /\ DOMAIN watch.tries = 1..Len(watch.tries)
        /\ \A t \in DOMAIN watch.tries : watch.tries[t] \in TryRow
    BY <1>0 DEF WatchTyped
  <2>2. \A t \in DOMAIN watch.tries : [watch.tries[t] EXCEPT !.age = "week"] \in TryRow
    BY <2>1 DEF TryRow
  <2> QED BY <2>1, <2>2
<1>3. flag \in Seq(FlagRow) /\ DOMAIN flag = DOMAIN watch.flag
  <2>1. Len(watch.flag) \in Nat /\ DOMAIN watch.flag = 1..Len(watch.flag)
        /\ \A t \in DOMAIN watch.flag : watch.flag[t] \in FlagRow
    BY <1>0 DEF WatchTyped
  <2>2. \A t \in DOMAIN watch.flag : [watch.flag[t] EXCEPT !.age = "old"] \in FlagRow
    BY <2>1 DEF FlagRow
  <2> QED BY <2>1, <2>2
<1> HIDE DEF tries, flag
<1>4. WatchTyped'
  BY <1>0, <1>1, <1>2, <1>3 DEF WatchTyped, requests, Framed
<1>5. ASSUME NEW r \in Request PROVE Checking(r)'
  <2>1. Checking(r) /\ watch'.found[r] = {} /\ body' = body /\ pc' = pc
    BY <1>0, <1>1 DEF WatchInv, requests
  <2> QED BY <1>0, <1>1, <1>3, <2>1 DEF Checking
<1> QED BY <1>4, <1>5 DEF WatchInv

LEMMA WatchQuiet ==
    ASSUME WatchInv, Elsewhere \/ (Lapse /\ UNCHANGED watch) \/ UNCHANGED officeVars
    PROVE  WatchInv'
<1>0. /\ body' = body /\ Framed' /\ watch' = watch /\ DOMAIN auth' = AuthTables
      /\ \A r \in Request : body[r].op \in OfficeOps => pc'[r] = pc[r] /\ mem'[r] = mem[r]
  <2>1. CASE Elsewhere
    BY <2>1 DEF Elsewhere, officeTables
  <2>2. CASE Lapse /\ UNCHANGED watch
    BY <2>2 DEF Lapse, PlatformOnly, DeskOnly, WatchInv, WatchTyped, requests, Framed
  <2>3. CASE UNCHANGED officeVars
    BY <2>3 DEF officeVars, officeTables, WatchInv, WatchTyped, requests, Framed
  <2> QED BY <2>1, <2>2, <2>3
<1>1. WatchTyped' /\ FlagsStay /\ \A q \in Request : watch'.found[q] = watch.found[q]
  BY <1>0, SameWatch DEF WatchInv
<1>2. ASSUME NEW r \in Request PROVE Checking(r)'
  <2>1. CASE body[r].op \in OfficeOps
    BY <1>0, <1>1, <2>1, CheckingStays
  <2>2. CASE body[r].op \notin OfficeOps
    BY <1>0, <2>2 DEF WatchInv, Checking, OfficeOps, CheckOps, WatchOps
  <2> QED BY <2>1, <2>2
<1> QED BY <1>1, <1>2 DEF WatchInv

LEMMA WatchStarts == RequestsInit /\ AuthInit /\ WatchInit => WatchInv
<1> SUFFICES ASSUME RequestsInit, AuthInit, WatchInit PROVE WatchInv
  OBVIOUS
<1>1. Framed /\ \A r \in Request : pc[r] \in {"start", "done"}
  BY RequestsStart
<1>2. \A r \in Request : WatchBodyFits(body[r])
  <2> TAKE r \in Request
  <2>1. CASE body[r] = NoBody
    BY <2>1 DEF NoBody, WatchBodyFits
  <2>2. CASE body[r] # NoBody
    BY <2>2, RequestsStart, WatchBodies
  <2> QED BY <2>1, <2>2
<1>3. WatchTyped /\ \A r \in Request : watch.found[r] = {}
  BY <1>1, <1>2, AuthAssumption, WatchAssumption DEF WatchTyped, AuthInit, WatchInit, AuthTables
<1>4. \A r \in Request : Checking(r)
  BY <1>1, <1>3 DEF Checking
<1> QED BY <1>3, <1>4 DEF WatchInv

LEMMA WatchInvariant == OfficeSpec => []WatchInv
<1>1. ASSUME WatchInv, NEW r \in Request, OfficeStep(r) PROVE WatchInv'
  <2>1. /\ WatchTyped' /\ FlagsStay /\ body' = body
        /\ \A q \in Request \ {r} :
              pc'[q] = pc[q] /\ mem'[q] = mem[q] /\ watch'.found[q] = watch.found[q]
    BY <1>1, WatchTables
  <2>2. \A q \in Request \ {r} : Checking(q)'
    BY <1>1, <2>1, CheckingStays
  <2>3. Checking(r)'
    BY <1>1, ChecksGoOn, ChecksElsewhere
  <2> QED BY <2>1, <2>2, <2>3 DEF WatchInv
<1>2. WatchInv /\ [OfficeNext]_officeVars => WatchInv'
  BY <1>1, WatchQuiet, HourPasses DEF OfficeNext
<1> QED BY <1>2, WatchStarts, PTL DEF OfficeSpec

(* Every network that an answered check has found over the threshold has a *)
(* flag of this hour, whichever check raised it; and the page shows each   *)
(* network whose sign-ins are refused once, with a try and a flag it has.  *)
THEOREM ChecksRaiseFlags == OfficeSpec => []CheckedFlagged
<1>1. ASSUME WatchInv PROVE CheckedFlagged
  <2>0. WatchTyped
    BY <1>1 DEF WatchInv
  <2>1. ASSUME NEW r \in Request, pc[r] = "done", NEW n \in watch.found[r]
        PROVE  \E f \in FlagsOf(n) : watch.flag[f].age = "hour"
    <3>1. Checking(r)
      BY <1>1 DEF WatchInv
    <3>2. Recent(n) # {}
      BY <2>1, <3>1 DEF Checking
    <3> QED BY <3>2 DEF Recent
  <2>2. Len(watch.tries) \in Nat /\ DOMAIN watch.tries = 1..Len(watch.tries)
        /\ Len(watch.flag) \in Nat /\ DOMAIN watch.flag = 1..Len(watch.flag)
    BY <2>0 DEF WatchTyped
  <2>3. ASSUME NEW n, Refusals(n) # {}
        PROVE  /\ Newest(Refusals(n)) \in Failures(n, {"now", "week"})
               /\ watch.tries[Newest(Refusals(n))].net = n
    <3>1. Refusals(n) \in SUBSET (1..Len(watch.tries))
      BY <2>2 DEF Refusals, Failures
    <3>2. Newest(Refusals(n)) \in Refusals(n)
      BY <2>2, <2>3, <3>1, NewestIsOne
    <3> QED BY <3>2 DEF Refusals, Failures
  <2>4. ASSUME NEW p \in Paused
        PROVE  /\ Refusals(p.net) # {} /\ p = watch.tries[Newest(Refusals(p.net))]
               /\ Newest(Refusals(p.net)) \in Failures(p.net, {"now", "week"})
    <3>1. PICK n \in Network : Refusals(n) # {} /\ p = watch.tries[Newest(Refusals(n))]
      BY DEF Paused
    <3>2. p.net = n
      BY <2>3, <3>1
    <3> QED BY <2>3, <3>1, <3>2
  <2>5. \A p, q \in Paused : p.net = q.net => p = q
    BY <2>4
  <2>6. ASSUME NEW p \in Paused
        PROVE  FailedOn(p.net) > 0 /\ p.user \in Described(p.net).emails
    <3> DEFINE failed == Failures(p.net, {"now", "week"})
    <3>1. failed # {} /\ failed \subseteq 1..Len(watch.tries)
      BY <2>2, <2>4 DEF Failures
    <3>2. \E t \in failed : p = watch.tries[t]
      BY <2>4
    <3>3. Described(p.net).emails = {watch.tries[t].user : t \in failed}
      BY DEF Described
    <3>4. p.user \in Described(p.net).emails
      BY <3>2, <3>3
    <3> HIDE DEF failed
    <3>5. IsFiniteSet(1..Len(watch.tries))
      BY <2>2, FS_Interval
    <3>6. IsFiniteSet(failed)
      BY <3>1, <3>5, FS_Subset
    <3>7. Cardinality(failed) \in Nat /\ Cardinality(failed) # 0
      BY <3>1, <3>6, FS_CardinalityType, FS_EmptySet
    <3> QED BY <3>4, <3>7 DEF FailedOn, failed
  <2>7. ASSUME NEW n \in Network, Described(n).flag \in {"OPEN", "REVIEWING"}
        PROVE  FlagsOf(n) \cap NeedsALook # {}
    <3>1. Described(n).flag = IF FlagsOf(n) = {} THEN Nothing ELSE watch.flag[Newest(FlagsOf(n))].status
      BY DEF Described
    <3>2. FlagsOf(n) # {}
      BY <2>7, <3>1, WatchAssumption DEF FlagStatus
    <3>3. FlagsOf(n) \in SUBSET (1..Len(watch.flag))
      BY <2>2 DEF FlagsOf
    <3>4. Newest(FlagsOf(n)) \in FlagsOf(n)
      BY <2>2, <3>2, <3>3, NewestIsOne
    <3>5. watch.flag[Newest(FlagsOf(n))].status \in {"OPEN", "REVIEWING"}
      BY <2>7, <3>1, <3>2
    <3> QED BY <3>4, <3>5 DEF NeedsALook, FlagsOf
  <2> QED BY <2>1, <2>5, <2>6, <2>7 DEF CheckedFlagged
<1> QED BY <1>1, WatchInvariant, PTL
=============================================================================
