------------------------------ MODULE Support ------------------------------
(***************************************************************************)
(* What the support and content admins keep: tickets, announcements,       *)
(* notification campaigns and templates, feature requests.  The routes are *)
(* behind the guards of Sessions.  Sending a campaign is refused, so       *)
(* nothing writes the notification log.                                    *)
(***************************************************************************)
EXTENDS Administration, Sequences

CONSTANTS SupportStart, Today  \* Today: the day of every request

TicketIds == DOMAIN SupportStart.ticket
BannerIds == DOMAIN SupportStart.banner

StatusGroups == [IN_QUEUE |-> {"OPEN", "IN_PROGRESS", "WAITING_ON_USER"}, DONE |-> {"RESOLVED", "CLOSED"}]
TicketStatus == StatusGroups.IN_QUEUE \cup StatusGroups.DONE
Resolved == {"RESOLVED", "CLOSED"}

TicketRow == [user : User, status : TicketStatus, admin : User \cup {Nothing},
              urgent : BOOLEAN, stamped : BOOLEAN, said : Seq({"USER", "ADMIN"})]
BannerRow == [on : BOOLEAN, from : Int, until : Int, plan : STRING \cup {Nothing}]

ASSUME SupportAssumption ==
    LET ticket == SupportStart.ticket
        known(u) == AuthStart.status[u] # "NONE"
    IN  /\ DOMAIN SupportStart = {"ticket", "crossed", "banner", "campaign", "feature", "template"}
        /\ ticket \in [TicketIds -> TicketRow \cup {Nothing}]
        /\ SupportStart.banner \in [BannerIds -> BannerRow \cup {Nothing}]
        /\ Nothing \notin TicketRow \cup BannerRow \cup User
        /\ IsFiniteSet(TicketIds) /\ Request \subseteq TicketIds \cap BannerIds
        /\ Today \in Int
        /\ \A t \in TicketIds : ticket[t] # Nothing =>
              /\ ticket[t].stamped <=> ticket[t].status \in Resolved
              /\ known(ticket[t].user) /\ AuthStart.role[ticket[t].user] = "USER"
              /\ ticket[t].admin # Nothing =>
                    known(ticket[t].admin) /\ AuthStart.role[ticket[t].admin] # "USER"

(* What a request says fits the tables.                                    *)
SupportBodyFits(b) ==
    /\ b.op = "open-ticket" => b.target \in User /\ b.urgent \in BOOLEAN
    /\ b.op = "ticket" => b.status \in TicketStatus
    /\ b.op \in {"ticket", "assign"} => b.admin \in User \cup {Nothing}
    /\ b.op = "announce" => b.banner \in BannerRow
    /\ b.op = "edit-banner" =>
          /\ DOMAIN b.set \subseteq {"on", "from", "until", "plan"}
          /\ "on" \in DOMAIN b.set => b.set.on \in BOOLEAN
          /\ \A f \in {"from", "until"} \cap DOMAIN b.set : b.set[f] \in Int
          /\ "plan" \in DOMAIN b.set => b.set.plan \in STRING \cup {Nothing}

ASSUME SupportBodies == \A s \in Scenario : \A b \in s.bodies : SupportBodyFits(b)

VARIABLE desk  \* ticket: [user, status, admin, urgent, stamped, said] by id;
               \*   stamped: has a time of solving, said: who wrote, in order
               \* crossed: the tickets a handler wrote when their status was
               \*   no longer the one it had read
               \* banner: announcements, [on, from, until, plan] by id
               \* campaign, feature, template: the status, or who edited it

SupportInit == desk = SupportStart

DeskOnly == UNCHANGED <<auth, admin, referralTables>>
DeskReads == UNCHANGED desk /\ DeskOnly

Tickets == {t \in DOMAIN desk.ticket : desk.ticket[t] # Nothing}
Banners == {n \in DOMAIN desk.banner : desk.banner[n] # Nothing}

(***************************************************************************)
(* TicketsService                                                          *)
(***************************************************************************)
FindCustomer(r) ==
    /\ At(r, "open-ticket", "enter")
    /\ IF IsOwner(body[r].target) THEN Await(r, "insert-ticket") ELSE Finish(r)
    /\ DeskReads

OpenTicket(r) ==
    /\ At(r, "open-ticket", "insert-ticket")
    /\ desk' = [desk EXCEPT !.ticket[r] =
                  [user |-> body[r].target, status |-> "OPEN", admin |-> Nothing,
                   urgent |-> body[r].urgent, stamped |-> FALSE, said |-> <<"USER">>]]
    /\ Finish(r)
    /\ DeskOnly

TicketOps == {"ticket", "assign", "reply"}

RequireTicket(r) ==
    LET b == body[r]
    IN  /\ b.op \in TicketOps /\ pc[r] = "enter"
        /\ IF b.ticket \in Tickets
           THEN Keep(r, CASE b.op = "reply" -> "say"
                          [] b.op # "reply" /\ b.admin # Nothing -> "assignee"
                          [] OTHER -> "save-ticket", desk.ticket[b.ticket])
           ELSE Finish(r)
        /\ DeskReads

RequireAssignable(r) ==
    LET a == body[r].admin
    IN  /\ body[r].op \in TicketOps /\ pc[r] = "assignee"
        /\ IF IsAdminRole(a) /\ auth.status[a] = "ACTIVE" THEN Await(r, "save-ticket") ELSE Finish(r)
        /\ DeskReads

(* Bug: reopening a ticket leaves the time.                                *)
StampKept(to, read, now) == now.stamped \/ (to # read.status /\ to \in Resolved)

(* The time of solving: set when the status the handler read is left for a *)
(* solved one, cleared when it is left for another, else untouched.        *)
Stamp(to, read, now) == IF to = read.status THEN now.stamped ELSE to \in Resolved

Crossing(r) == IF desk.ticket[body[r].ticket].status = mem[r].status THEN {} ELSE {body[r].ticket}

UpdateTicket(r) ==
    LET b == body[r]
        now == desk.ticket[b.ticket]
    IN  /\ At(r, "ticket", "save-ticket")
        /\ desk' = [desk EXCEPT
                      !.ticket[b.ticket].status = b.status,
                      !.ticket[b.ticket].admin = IF b.admin = Nothing THEN now.admin ELSE b.admin,
                      !.ticket[b.ticket].stamped = Stamp(b.status, mem[r], now),
                      !.crossed = @ \cup Crossing(r)]
        /\ IF b.status # mem[r].status THEN Await(r, "audit") ELSE Finish(r)
        /\ DeskOnly

Assign(r) ==
    /\ At(r, "assign", "save-ticket")
    /\ desk' = [desk EXCEPT !.ticket[body[r].ticket].admin = body[r].admin]
    /\ Finish(r)
    /\ DeskOnly

AddMessage(r) ==
    /\ At(r, "reply", "say")
    /\ desk' = [desk EXCEPT !.ticket[body[r].ticket].said = Append(@, "ADMIN")]
    /\ IF mem[r].status = "OPEN" THEN Await(r, "take-up") ELSE Finish(r)
    /\ DeskOnly

TakeUp(r) ==
    /\ At(r, "reply", "take-up")
    /\ desk' = [desk EXCEPT !.ticket[body[r].ticket].status = "IN_PROGRESS",
                            !.crossed = @ \cup Crossing(r)]
    /\ Finish(r)
    /\ DeskOnly

(* The pages.                                                              *)
ListTickets(tab) == {t \in Tickets : desk.ticket[t].status \in StatusGroups[tab]}

RequesterTickets(t) ==
    LET others == {o \in Tickets \ {t} : desk.ticket[o].user = desk.ticket[t].user}
    IN  [total |-> others, solved |-> {o \in others : desk.ticket[o].status \in Resolved}]

WithStatus(s) == {t \in Tickets : desk.ticket[t].status = s}

Stats ==
    [open |-> Cardinality(WithStatus("OPEN")),
     inProgress |-> Cardinality(WithStatus("IN_PROGRESS")),
     waiting |-> Cardinality(WithStatus("WAITING_ON_USER")),
     unassigned |-> Cardinality({t \in WithStatus("OPEN") : desk.ticket[t].admin = Nothing}),
     urgent |-> Cardinality({t \in Tickets : desk.ticket[t].urgent /\ desk.ticket[t].status \notin Resolved}),
     solved |-> Cardinality({t \in Tickets : desk.ticket[t].stamped})]

Requesters(ids) == {u \in ids : IsOwner(u)}
AssignedAdmins(ids) == {u \in ids : IsAdminRole(u)}

(***************************************************************************)
(* AnnouncementsService                                                    *)
(***************************************************************************)
Fits(n) == n.until = 0 \/ n.until > n.from

CreateBanner(r) ==
    /\ At(r, "announce", "enter")
    /\ desk' = IF Fits(body[r].banner) THEN [desk EXCEPT !.banner[r] = body[r].banner] ELSE desk
    /\ Finish(r)
    /\ DeskOnly

ReadBanner(r) ==
    /\ At(r, "edit-banner", "enter")
    /\ IF body[r].banner \in Banners /\ Fits(Merged(desk.banner[body[r].banner], body[r].set))
       THEN Await(r, "save-banner") ELSE Finish(r)
    /\ DeskReads

(* Only the fields that were sent.                                         *)
EditBanner(r) ==
    /\ At(r, "edit-banner", "save-banner")
    /\ desk' = [desk EXCEPT !.banner[body[r].banner] = Merged(@, body[r].set)]
    /\ Finish(r)
    /\ DeskOnly

BannerStatus(n) ==
    CASE ~n.on -> "DISABLED"
      [] n.on /\ Today < n.from -> "SCHEDULED"
      [] n.on /\ Today >= n.from /\ n.until # 0 /\ Today > n.until -> "EXPIRED"
      [] OTHER -> "ACTIVE"

ActiveBanners == {n \in Banners : BannerStatus(desk.banner[n]) = "ACTIVE"}

BannersFor(plans) ==
    {n \in Banners :
        LET row == desk.banner[n]
        IN  row.on /\ row.from <= Today /\ (row.until = 0 \/ row.until > Today)
              /\ row.plan \in plans \cup {Nothing}}

(***************************************************************************)
(* Campaigns, templates and feature requests                               *)
(***************************************************************************)
Sendable == {"DRAFT", "SCHEDULED"}

(* Its template must exist; templates are never deleted.                   *)
CreateCampaign(r) ==
    /\ At(r, "campaign", "enter")
    /\ desk' = [desk EXCEPT !.campaign[r] = IF body[r].later THEN "SCHEDULED" ELSE "DRAFT"]
    /\ Finish(r)
    /\ DeskOnly

SendCampaign(r) == At(r, "send", "enter") /\ Finish(r) /\ DeskReads

RequireCampaign(r) ==
    /\ At(r, "cancel", "enter")
    /\ IF desk.campaign[body[r].campaign] \in Sendable THEN Await(r, "save-campaign") ELSE Finish(r)
    /\ DeskReads

CancelCampaign(r) ==
    /\ At(r, "cancel", "save-campaign")
    /\ desk' = [desk EXCEPT !.campaign[body[r].campaign] = "CANCELLED"]
    /\ Await(r, "audit")
    /\ DeskOnly

UpdateTemplate(r) ==
    /\ At(r, "template", "enter")
    /\ desk' = [desk EXCEPT !.template = r]
    /\ Await(r, "audit")
    /\ DeskOnly

UpdateFeature(r) ==
    /\ At(r, "feature", "enter")
    /\ desk' = [desk EXCEPT !.feature = body[r].status]
    /\ Finish(r)
    /\ DeskOnly

SupportOps == TicketOps \cup {"open-ticket", "announce", "edit-banner", "campaign", "send",
                              "cancel", "template", "feature"}

SupportStep(r) ==
    \/ Authenticate(r, SupportOps) /\ UNCHANGED <<desk, admin>>
    \/ FindCustomer(r) \/ OpenTicket(r) \/ RequireTicket(r) \/ RequireAssignable(r)
    \/ UpdateTicket(r) \/ Assign(r) \/ AddMessage(r) \/ TakeUp(r)
    \/ CreateBanner(r) \/ ReadBanner(r) \/ EditBanner(r)
    \/ CreateCampaign(r) \/ SendCampaign(r) \/ RequireCampaign(r) \/ CancelCampaign(r)
    \/ UpdateTemplate(r) \/ UpdateFeature(r)

(***************************************************************************)
(* Properties                                                              *)
(***************************************************************************)

(* A ticket has a time of solving exactly while it is solved, unless a     *)
(* handler wrote it after somebody else had changed the status it read.    *)
StampsFollow ==
    \A t \in Tickets \ desk.crossed :
        desk.ticket[t].stamped <=> desk.ticket[t].status \in Resolved

(* The admin page's tabs, the figures above them and the figures on each   *)
(* ticket count the same tickets, and each names whom it is from and whom  *)
(* it is assigned to.                                                      *)
TabsAgree ==
    LET queue == ListTickets("IN_QUEUE")
        done == ListTickets("DONE")
        assigned == {t \in Tickets : desk.ticket[t].admin # Nothing}
    IN  /\ queue \cap done = {} /\ queue \cup done = Tickets
        /\ Stats.open + Stats.inProgress + Stats.waiting = Cardinality(queue)
        /\ Stats.urgent = Cardinality({t \in queue : desk.ticket[t].urgent})
        /\ desk.crossed = {} => Stats.solved = Cardinality(done)
        /\ \A t \in Tickets :
              RequesterTickets(t).solved = RequesterTickets(t).total \cap done
        /\ Requesters({desk.ticket[t].user : t \in Tickets}) = {desk.ticket[t].user : t \in Tickets}
        /\ AssignedAdmins({desk.ticket[t].admin : t \in assigned}) = {desk.ticket[t].admin : t \in assigned}

(* What customers see is what the admin page calls active; but for the day *)
(* an announcement ends on, it is all of that.                             *)
BannersAgree ==
    LET all == BannersFor({desk.banner[n].plan : n \in Banners})
    IN  /\ all \subseteq ActiveBanners
        /\ \A n \in ActiveBanners \ all : desk.banner[n].until = Today

DeskSound == StampsFollow /\ TabsAgree /\ BannersAgree
=============================================================================
