----------------------------- MODULE OrgReads -----------------------------
(***************************************************************************)
(* The reads of org.service.ts, each filtered by the caller's grants: what *)
(* a list shows, and whether a single read answers or refuses.             *)
(*                                                                         *)
(* Accounts and campaigns are read through the rows of AccessGrants.       *)
(* Offices, teams and staff are read through cohort grants (all, active,   *)
(* one by one) that another application writes: any set of them may be     *)
(* held, so they are an argument here, a set G of the usable ones.         *)
(*                                                                         *)
(* Abstracted: what a row shows (its columns, and the current state put    *)
(* together from its change log) and the order of a list.                  *)
(***************************************************************************)
EXTENDS AccessGrants

CONSTANTS
  Offices, Teams,
  Staff,
  OfficeOf,     \* [Staff -> Offices \cup {None}]
  TeamsOf       \* [Staff -> SUBSET Teams]

\* A grant's type tells units of either kind and the wider cohorts apart.
ASSUME ReadAssumption ==
  /\ Offices \cap Teams = {}
  /\ {"staff_all", "staff_current"} \cap (Offices \cup Teams) = {}

VARIABLES
  open,         \* the offices and teams with isActive
  left          \* the staff whose status is neither 'active' nor 'on_leave'

worldVars == <<open, left>>

InitWorld == open = Offices \cup Teams /\ left = {}

-----------------------------------------------------------------------------
(* Accounts and campaigns.                                                 *)

GrantedResourceIds(u, type) == {k[2] : k \in {x \in Key : x[1] = type /\ Usable(u, x)}}

CheckAccess(u, k, admin) == admin \/ Usable(u, k)

ListAccounts(u, admin) == IF admin THEN Accounts ELSE GrantedResourceIds(u, "account")

GetAccount(u, a, admin) == IF CheckAccess(u, <<"account", a>>, admin) THEN "ok" ELSE "denied"

ListCampaigns(u, admin) ==
  IF admin THEN there ELSE there \cap GrantedResourceIds(u, "campaign")

\* "denied" for the list as a whole unless the account itself may be read.
ListCampaignsByAccount(u, a, admin) ==
  IF GetAccount(u, a, admin) = "denied" THEN {"denied"}
  ELSE {k \in CampaignsOf(a) : admin \/ k \in GrantedResourceIds(u, "campaign")}

GetCampaign(u, k, admin) ==
  IF k \notin there THEN "missing"
  ELSE IF CheckAccess(u, <<"campaign", k>>, admin) THEN "ok" ELSE "denied"

\* Any usable temporal grant opens history; which account it names is not asked.
TemporalCutoff(u, admin) ==
  IF admin \/ GrantedResourceIds(u, "func:temporal") # {} THEN "since" ELSE "current_only"

GetAccountHistory(u, a, admin) ==
  IF CheckAccess(u, <<"account", a>>, admin) /\ TemporalCutoff(u, admin) = "since"
  THEN "ok" ELSE "denied"

GetCampaignHistory(u, k, admin) ==
  IF CheckAccess(u, <<"campaign", k>>, admin) /\ TemporalCutoff(u, admin) = "since"
  THEN "ok" ELSE "denied"

\* The access audit that an agent may ask for: a grant that has expired still
\* counts as active there, since only its revocation is looked at.
StaffAccessSummary(u) == {k \in Key : Held(u, k)}

-----------------------------------------------------------------------------
(* Offices and teams.                                                      *)

\* Every grant a user may hold on units of one kind.
Cohort(units) == {"all", "active"} \cup units

\* No grant at all is told apart from grants that show nothing.
Visibility(G, units) ==
  [none |-> G = {}, allVisible |-> "all" \in G,
   activeOnly |-> "active" \in G, ids |-> G \cap units]

Listed(vis, units, admin, activeOnly) ==
  {o \in units :
     /\ \/ admin
        \/ ~vis.none /\ (vis.allVisible \/ (vis.activeOnly /\ o \in open) \/ o \in vis.ids)
     /\ activeOnly => o \in open}

\* Mutant: the grant on active units reads closed ones too.
MutReadable(vis, o, admin) ==
  IF ~admin /\ (vis.none \/ (~vis.allVisible /\ o \notin vis.ids /\ ~vis.activeOnly))
  THEN "denied" ELSE "ok"

Readable(vis, o, admin) ==
  IF /\ ~admin
     /\ \/ vis.none
        \/ ~vis.allVisible /\ o \notin vis.ids /\ ~(vis.activeOnly /\ o \in open)
  THEN "denied" ELSE "ok"

OfficeVisibility(G)               == Visibility(G, Offices)
ListOffices(G, admin, activeOnly) == Listed(OfficeVisibility(G), Offices, admin, activeOnly)
GetOffice(G, o, admin)            == Readable(OfficeVisibility(G), o, admin)
TeamVisibility(G)                 == Visibility(G, Teams)
ListTeams(G, admin, activeOnly)   == Listed(TeamVisibility(G), Teams, admin, activeOnly)
GetTeam(G, t, admin)              == Readable(TeamVisibility(G), t, admin)

-----------------------------------------------------------------------------
(* Staff: the union of what each grant shows.                              *)

StaffCohort == {"staff_all", "staff_current"} \cup Offices \cup Teams

Current == Staff \ left

ShownBy(g, activeOnly) ==
  LET among == IF activeOnly THEN Current ELSE Staff
  IN  CASE g = "staff_all"     -> among
        [] g = "staff_current" -> Current
        [] g \in Offices       -> {s \in among : OfficeOf[s] = g}
        [] g \in Teams         -> {s \in among : g \in TeamsOf[s]}

ListStaff(G, admin, activeOnly) ==
  IF admin \/ "staff_all" \in G THEN ShownBy("staff_all", activeOnly)
  ELSE UNION {ShownBy(g, activeOnly) : g \in G}

\* Ungated: the directory is open to every signed-in user.
GetStaffMember(s) == IF s \in Staff THEN "ok" ELSE "missing"

-----------------------------------------------------------------------------
(* The handlers of org.controller.ts: query parameters in, a status out.   *)

Query == {"true", "absent"}  \* "absent" stands for every other value

Status(result) == CASE result = "denied"  -> 403
                    [] result = "missing" -> 404
                    [] OTHER              -> 200

\* Leavers are shown on request; closed units unless asked otherwise.
StaffRoute(G, admin, all)          == ListStaff(G, admin, all # "true")
OfficesRoute(G, admin, activeOnly) == ListOffices(G, admin, activeOnly = "true")
TeamsRoute(G, admin, activeOnly)   == ListTeams(G, admin, activeOnly = "true")

-----------------------------------------------------------------------------
(* Another application closes and reopens units, and staff come and go.    *)

Reorganise(c) ==
  /\ call[c] = Unused
  /\ call' = [call EXCEPT ![c] = Done]
  /\ \/ \E o \in Offices \cup Teams :
          /\ open' = IF o \in open THEN open \ {o} ELSE open \cup {o}
          /\ UNCHANGED left
     \/ \E s \in Staff :
          /\ left' = IF s \in left THEN left \ {s} ELSE left \cup {s}
          /\ UNCHANGED open
  /\ UNCHANGED grantVars

-----------------------------------------------------------------------------
(* Properties                                                              *)

\* What has been granted is open.  Once a grant has been reported done, with no
\* revocation of that user's under way beside it, every resource it named is in
\* the user's lists, is read one by one, and has its history where that was
\* granted, until it expires or somebody starts to revoke it: whatever other
\* grants overlapped, and whatever had expired or been revoked before.
GrantedIsOpen == \A u \in Users : \A k \in opened[u] :
  CASE k[1] = "account" ->
         k[2] \in ListAccounts(u, FALSE) /\ GetAccount(u, k[2], FALSE) = "ok"
    [] k[1] = "campaign" ->
         /\ k[2] \in ListCampaigns(u, FALSE) /\ GetCampaign(u, k[2], FALSE) = "ok"
         /\ <<"account", AccountOf[k[2]]>> \in opened[u]
              => k[2] \in ListCampaignsByAccount(u, AccountOf[k[2]], FALSE)
    [] k[1] = "func:temporal" ->
         <<"account", k[2]>> \in opened[u] => GetAccountHistory(u, k[2], FALSE) = "ok"

\* What has been revoked is closed.  Once the removal of a user from an account
\* has been reported done, with no grant to that user under way beside it, the
\* user sees neither the account, nor any campaign of it, nor their history, and
\* an access audit lists none of it, until somebody starts to grant it again.
RevokedIsClosed == \A u \in Users : \A a \in closed[u] :
  /\ a \notin ListAccounts(u, FALSE)
  /\ \A k \in StaffAccessSummary(u) : AccountOfKey(k) # a
  /\ GetAccountHistory(u, a, FALSE) = "denied"
  /\ \A k \in CampaignsOf(a) : /\ k \notin ListCampaigns(u, FALSE)
                               /\ GetCampaign(u, k, FALSE) = "denied"
                               /\ GetCampaignHistory(u, k, FALSE) = "denied"

\* A list and a single read never disagree.  For administrators and others, an
\* account, campaign, office or team is in the list exactly when reading it by
\* its id answers 200; a campaign shown below its account is among all campaigns;
\* the list of active units is the active part of the list; holding one more
\* grant never hides a unit or anybody, nor does being an administrator; and
\* whoever is listed can be read.
ListedIffReadable ==
  /\ \A u \in Users, admin \in BOOLEAN :
       /\ \A a \in Accounts :
            a \in ListAccounts(u, admin) <=> Status(GetAccount(u, a, admin)) = 200
       /\ \A k \in Campaigns :
            k \in ListCampaigns(u, admin) <=> Status(GetCampaign(u, k, admin)) = 200
       /\ \A a \in Accounts :
            ListCampaignsByAccount(u, a, admin) \subseteq ListCampaigns(u, admin) \cup {"denied"}
  /\ \A G \in SUBSET Cohort(Offices), admin \in BOOLEAN :
       /\ \A o \in Offices : o \in OfficesRoute(G, admin, "absent")
                           <=> Status(GetOffice(G, o, admin)) = 200
       /\ \A q \in Query : LET shown == OfficesRoute(G, admin, q) IN
            /\ OfficesRoute(G, admin, "true") = shown \cap open
            /\ shown \subseteq OfficesRoute(G, TRUE, q)
            /\ \A g \in Cohort(Offices) \ G : shown \subseteq OfficesRoute(G \cup {g}, admin, q)
  /\ \A G \in SUBSET Cohort(Teams), admin \in BOOLEAN :
       /\ \A t \in Teams : t \in TeamsRoute(G, admin, "absent")
                         <=> Status(GetTeam(G, t, admin)) = 200
       /\ \A q \in Query : LET shown == TeamsRoute(G, admin, q) IN
            /\ TeamsRoute(G, admin, "true") = shown \cap open
            /\ shown \subseteq TeamsRoute(G, TRUE, q)
            /\ \A g \in Cohort(Teams) \ G : shown \subseteq TeamsRoute(G \cup {g}, admin, q)
  /\ \A G \in SUBSET StaffCohort, admin \in BOOLEAN :
       /\ StaffRoute(G, admin, "absent") = StaffRoute(G, admin, "true") \cap Current
       /\ \A q \in Query : LET shown == StaffRoute(G, admin, q) IN
            /\ \A s \in shown : Status(GetStaffMember(s)) = 200
            /\ shown \subseteq StaffRoute(G, TRUE, q)
            /\ \A g \in StaffCohort \ G : shown \subseteq StaffRoute(G \cup {g}, admin, q)
=============================================================================
