-------------------------------- MODULE Users ---------------------------------
(***************************************************************************)
(* Users with their roles and teams (services/users_service.py), and what  *)
(* role and team let them do with orders (core/access_control.py,          *)
(* api/v1/orders.py, api/v1/finance.py) and with the groups of customers   *)
(* and channels (services/customer_channel_service.py).                    *)
(*                                                                         *)
(* A request knows its user as the authentication read it.  That may end   *)
(* with a commit (the heartbeat), so the handler decides on a snapshot of  *)
(* its own; it locks nothing before it writes, and the ORM sends the       *)
(* columns that differ from what was read.                                 *)
(***************************************************************************)
EXTENDS Naturals, FiniteSets

CONSTANTS
  Requests,
  Roles,     \* the roles a user may be given
  MaxUsers,
  Teams,
  Orders, Groups,
  None, Gone, \* no row yet, a row deleted
  MaxWrites  \* bound on the requests that write

VARIABLES
  users,    \* id -> role, default team, list of teams, creator
  orders,   \* creator, salesperson, whether it is finished
  groups,   \* creator, whether it is deleted
  requests, \* the user as authenticated, and the snapshot
  writes,
  crossed   \* history: users whose teams come from updates that overlapped

vars == <<users, orders, groups, requests, writes, crossed>>

Ids == 1 .. MaxUsers
Admin == 1
Writers == {"super_admin", "manager", "sales"}
Single == {"sales", "finance", "market"}
Row == [role : Roles \cup {"super_admin"}, team : Teams, teams : SUBSET Teams,
        parent : Ids \cup {None}]

\* Ids are never used again.
Is(table, id) == table[id] \notin {None, Gone}
Snapshot == [users |-> users, orders |-> orders, groups |-> groups]

-----------------------------------------------------------------------------
\* _extract_user_team_names
TeamsOf(user) == (user.teams \cup {user.team}) \ {None}

\* _compile_user_access_bundle
Creatable(role) ==
  CASE role = "super_admin" -> Roles
    [] role = "manager" -> Single \cap Roles
    [] OTHER -> {}

Assignable(user) == IF user.role = "super_admin" THEN Teams ELSE TeamsOf(user)

\* Mutant: a manager's default team may be any.
MayAssign_AnyDefault(user, role, team, teams) ==
  IF role = "manager"
  THEN user.role = "super_admin" /\ teams # {}
  ELSE team \in Assignable(user) /\ teams = {}

\* _normalize_role_team_assignment
MayAssign(user, role, team, teams) ==
  IF role = "manager"
  THEN user.role = "super_admin" /\ teams # {} /\ team \in teams \cup {None}
  ELSE team \in Assignable(user) /\ teams = {}

\* Mutant: a manager without a default team stays without.
DefaultTeam_Kept(team, teams) == team

DefaultTeam(team, teams) == IF team = None THEN CHOOSE t \in teams : TRUE ELSE team

\* _ensure_manage_target_allowed
Manages(user, me, id, row) ==
  /\ row.role \in Creatable(user.role) /\ id # me
  /\ user.role = "manager" => row.parent = me

\* _build_user_list_scope_clauses: the users a manager sees
Lists(user, me, id, row) ==
  /\ Creatable(user.role) # {} /\ id # me
  /\ IF user.role = "manager" THEN row.parent = me ELSE row.role \in Roles

\* _build_user_row_meta: the buttons of a listed user
OffersManage(user, me, id, row) ==
  /\ user.role = "manager" => row.parent = me
  /\ id # me /\ row.role \in Creatable(user.role)

\* user_team_match_expr
InTeams(row, teams) == row.team \in teams \/ row.teams \cap teams # {}

\* require_team_for_non_super_admin, require_single_team_for_strict_roles
HasTeam(user) == TeamsOf(user) # {}
OneTeam(user) == Cardinality(TeamsOf(user)) = 1

\* ensure_order_read_acl_by_salesperson_id
Reaches(user, me, sales, table) ==
  \/ user.role = "super_admin"
  \/ /\ HasTeam(user)
     /\ CASE user.role = "sales" -> sales = me
          [] user.role = "manager" -> Is(table, sales) /\ InTeams(table[sales], TeamsOf(user))
          [] OTHER -> OneTeam(user) /\ Is(table, sales) /\ InTeams(table[sales], TeamsOf(user))

\* _load_order_out
OpensOrder(user, me, o, table) ==
  (user.role = "finance" => o.finished) /\ Reaches(user, me, o.sales, table)

\* Mutant: a manager may filter by any team.
ListsOrder_AnyFilter(user, me, o, table, filter) ==
  /\ user.role = "finance" => o.finished
  /\ CASE user.role = "super_admin" ->
            filter = {} \/ (Is(table, o.sales) /\ InTeams(table[o.sales], filter))
       [] user.role = "sales" -> o.sales = me
       [] OTHER ->
            LET scope == IF filter = {} THEN TeamsOf(user) ELSE filter IN
            Is(table, o.sales) /\ InTeams(table[o.sales], scope)

\* _resolve_orders_list_salesperson_ids, with the filter on a team if there is one
ListsOrder(user, me, o, table, filter) ==
  /\ user.role = "super_admin" \/ HasTeam(user)
  /\ user.role = "finance" => o.finished
  /\ user.role # "super_admin" => filter \subseteq TeamsOf(user)
  /\ CASE user.role = "super_admin" ->
            filter = {} \/ (Is(table, o.sales) /\ InTeams(table[o.sales], filter))
       [] user.role = "sales" -> o.sales = me
       [] user.role = "manager" ->
            LET scope == IF filter = {} THEN TeamsOf(user) ELSE filter IN
            Is(table, o.sales) /\ InTeams(table[o.sales], scope)
       [] OTHER -> OneTeam(user) /\ Is(table, o.sales) /\ InTeams(table[o.sales], TeamsOf(user))

\* _apply_ocr_task_acl
ListsTask(user, me, o, table) ==
  \/ user.role = "super_admin"
  \/ /\ user.role # "market" /\ HasTeam(user)
     /\ user.role = "finance" => o.finished
     /\ user.role # "manager" => OneTeam(user)
     /\ Is(table, o.sales) /\ InTeams(table[o.sales], TeamsOf(user))
     /\ user.role = "sales" => o.sales = me

\* current_team_names_or_403
FinanceTeams(user) ==
  user.role = "super_admin" \/ (user.role # "sales" /\ HasTeam(user) /\ (user.role # "manager" => OneTeam(user)))

\* effective_team_filter_for_query with _build_finance_filter_clauses
ListsFinance(user, o, table, filter) ==
  /\ FinanceTeams(user) /\ o.finished
  /\ IF user.role = "super_admin"
     THEN filter = {} \/ (Is(table, o.sales) /\ InTeams(table[o.sales], filter))
     ELSE LET effective == IF filter = {} THEN TeamsOf(user) ELSE TeamsOf(user) \cap filter IN
          effective # {} /\ Is(table, o.sales) /\ InTeams(table[o.sales], effective)

\* _ensure_finance_order_access
OpensFinance(user, o, table) ==
  /\ FinanceTeams(user) /\ o.finished
  /\ user.role # "super_admin" => Is(table, o.sales) /\ InTeams(table[o.sales], TeamsOf(user))

\* compile_channel_group_acl_bundle and the buttons of a row
OffersGroup(user, me, g) ==
  (user.role \in {"super_admin", "manager", "market"} \/ (user.role = "sales" /\ g.by = me)) /\ ~g.deleted

\* _ensure_write_candidate_role and _ensure_edit_allowed
MayChangeGroup(user, me, g) ==
  /\ user.role \in Writers \cup {"market"} /\ ~g.deleted
  /\ user.role = "sales" => g.by = me

-----------------------------------------------------------------------------
Enter(r) ==
  /\ requests[r] = None /\ writes < MaxWrites
  /\ \E u \in Ids : Is(users, u) /\
       requests' = [requests EXCEPT ![r] = [me |-> u, user |-> users[u], view |-> None]]
  /\ UNCHANGED <<users, orders, groups, writes, crossed>>

Read(r) ==
  /\ requests[r] # None /\ requests[r].view = None /\ writes < MaxWrites
  /\ requests' = [requests EXCEPT ![r].view = Snapshot]
  /\ UNCHANGED <<users, orders, groups, writes, crossed>>

\* The request is refused, its commit fails, or it was about something else.
Leave(r) ==
  /\ requests[r] # None
  /\ requests' = [requests EXCEPT ![r] = None]
  /\ UNCHANGED <<users, orders, groups, writes, crossed>>

Handles(r) ==
  /\ requests[r] # None /\ requests[r].view # None /\ writes < MaxWrites
  /\ writes' = writes + 1
  /\ requests' = [requests EXCEPT ![r] = None]

\* create_user; the database wants the creator to be there.
CreateUser(r) ==
  LET my == requests[r] IN
  /\ Handles(r)
  /\ \E id \in Ids, role \in Creatable(my.user.role), team \in Teams \cup {None}, teams \in SUBSET Teams :
       /\ users[id] = None /\ \A other \in Ids : other < id => users[other] # None
       /\ MayAssign(my.user, role, team, teams)
       /\ Is(users, my.me)
       /\ users' = [users EXCEPT ![id] =
            [role |-> role, team |-> DefaultTeam(team, teams), teams |-> teams, parent |-> my.me]]
  /\ UNCHANGED <<orders, groups, crossed>>

\* What the UPDATE leaves: the columns that differ from what was loaded are sent.
Updated(row, loaded, new) == [c \in DOMAIN row |-> IF new[c] # loaded[c] THEN new[c] ELSE row[c]]

\* update_user; a team that is not given is validated as it was read.
UpdateUser(r) ==
  LET my == requests[r] IN
  /\ Handles(r)
  /\ \E id \in Ids :
       LET seen == my.view.users[id] IN
       /\ Is(my.view.users, id) /\ Manages(my.user, my.me, id, seen)
       /\ \E team \in {seen.team} \cup Teams \cup {None}, teams \in {seen.teams} \cup SUBSET Teams :
            LET new == [seen EXCEPT !.team = DefaultTeam(team, teams), !.teams = teams] IN
            /\ MayAssign(my.user, seen.role, team, teams)
            /\ new # seen /\ Is(users, id)
            /\ users' = [users EXCEPT ![id] = Updated(users[id], seen, new)]
            /\ crossed' = IF users[id] = seen THEN crossed \ {id} ELSE crossed \cup {id}
  /\ UNCHANGED <<orders, groups>>

\* Foreign keys without cascade.
Referenced(id) ==
  \/ \E u \in Ids : Is(users, u) /\ users[u].parent = id
  \/ \E o \in Orders : Is(orders, o) /\ id \in {orders[o].by, orders[o].sales}
  \/ \E g \in Groups : Is(groups, g) /\ groups[g].by = id

\* delete_user: the look for orders is at the snapshot, the database looks again.
DeleteUser(r) ==
  LET my == requests[r] IN
  /\ Handles(r)
  /\ \E id \in Ids :
       /\ Is(my.view.users, id) /\ Manages(my.user, my.me, id, my.view.users[id])
       /\ \A o \in Orders : Is(my.view.orders, o) =>
            id \notin {my.view.orders[o].by, my.view.orders[o].sales}
       /\ ~Referenced(id)
       /\ users' = [users EXCEPT ![id] = Gone]
  /\ UNCHANGED <<orders, groups, crossed>>

\* create_order_draft
CreateOrder(r) ==
  LET my == requests[r] IN
  /\ Handles(r)
  /\ my.user.role \in Writers
  /\ \E o \in Orders, sales \in IF my.user.role = "sales" THEN {my.me} ELSE Ids :
       /\ orders[o] = None
       /\ Is(my.view.users, sales) /\ Reaches(my.user, my.me, sales, my.view.users)
       /\ Is(users, my.me) /\ Is(users, sales)
       /\ orders' = [orders EXCEPT ![o] = [by |-> my.me, sales |-> sales, finished |-> FALSE]]
  /\ UNCHANGED <<users, groups, crossed>>

\* update_order_detail and update_order_status: another salesperson, or whether it is finished
ChangeOrder(r) ==
  LET my == requests[r] IN
  /\ Handles(r)
  /\ my.user.role \in Writers
  /\ \E o \in Orders :
       LET seen == my.view.orders[o] IN
       /\ Is(my.view.orders, o) /\ Reaches(my.user, my.me, seen.sales, my.view.users)
       /\ \/ \E sales \in Ids :
               /\ seen.finished => my.user.role # "sales"
               /\ Is(my.view.users, sales) /\ Reaches(my.user, my.me, sales, my.view.users)
               /\ Is(users, sales)
               /\ orders' = [orders EXCEPT ![o] = Updated(@, seen, [seen EXCEPT !.sales = sales])]
          \/ \E finished \in BOOLEAN :
               /\ seen.finished /\ ~finished => my.user.role # "sales"
               /\ orders' = [orders EXCEPT ![o] = Updated(@, seen, [seen EXCEPT !.finished = finished])]
  /\ UNCHANGED <<users, groups, crossed>>

CreateGroup(r) ==
  LET my == requests[r] IN
  /\ Handles(r)
  /\ my.user.role \in Writers \cup {"market"} /\ Is(users, my.me)
  /\ \E g \in Groups : groups[g] = None /\ groups' = [groups EXCEPT ![g] = [by |-> my.me, deleted |-> FALSE]]
  /\ UNCHANGED <<users, orders, crossed>>

DeleteGroup(r) ==
  LET my == requests[r] IN
  /\ Handles(r)
  /\ \E g \in Groups :
       /\ Is(my.view.groups, g) /\ MayChangeGroup(my.user, my.me, my.view.groups[g])
       /\ groups' = [groups EXCEPT ![g].deleted = TRUE]
  /\ UNCHANGED <<users, orders, crossed>>

\* seed_initial_data
Init ==
  /\ users = [id \in Ids |->
       IF id # Admin THEN None
       ELSE [role |-> "super_admin", team |-> CHOOSE t \in Teams : TRUE, teams |-> Teams, parent |-> None]]
  /\ orders = [o \in Orders |-> None] /\ groups = [g \in Groups |-> None]
  /\ requests = [r \in Requests |-> None]
  /\ writes = 0 /\ crossed = {}

Next ==
  \E r \in Requests :
    \/ Enter(r) \/ Read(r) \/ Leave(r)
    \/ CreateUser(r) \/ UpdateUser(r) \/ DeleteUser(r)
    \/ CreateOrder(r) \/ ChangeOrder(r) \/ CreateGroup(r) \/ DeleteGroup(r)

Spec == Init /\ [][Next]_vars

-----------------------------------------------------------------------------
TypeOK ==
  /\ \A id \in Ids : Is(users, id) => users[id] \in Row
  /\ \A o \in Orders : Is(orders, o) => orders[o] \in [by : Ids, sales : Ids, finished : BOOLEAN]
  /\ \A g \in Groups : Is(groups, g) => groups[g] \in [by : Ids, deleted : BOOLEAN]
  /\ \A r \in Requests : requests[r] # None => requests[r].me \in Ids /\ requests[r].user \in Row
  /\ writes \in 0 .. MaxWrites /\ crossed \subseteq Ids

Rank(role) == CASE role = "super_admin" -> 0 [] role = "manager" -> 1 [] OTHER -> 2

(* Every user was created by one who is still there and ranks above.  A manager has a list *)
(* of teams with the default team on it, anyone else one team and no list; only updates    *)
(* of one manager that overlap leave a default team off the list, as each sends the column *)
(* it changes.                                                                             *)
TeamsConsistent ==
  \A id \in Ids \ {Admin} : Is(users, id) =>
    LET user == users[id] IN
    /\ Is(users, user.parent) /\ Rank(users[user.parent].role) < Rank(user.role)
    /\ IF user.role = "manager" THEN user.teams # {} /\ (user.team \in user.teams \/ id \in crossed)
       ELSE user.team \in Teams /\ user.teams = {}

(* What a list shows or offers its reader, the endpoint behind it grants, and what a       *)
(* reader may open is on the unfiltered list: users, orders, recognition tasks, the        *)
(* finance pages and groups each state their rule twice.                                   *)
ListsMatch ==
  \A me \in Ids : Is(users, me) =>
    LET user == users[me] IN
    /\ \A id \in Ids : Is(users, id) /\ Lists(user, me, id, users[id]) =>
         (OffersManage(user, me, id, users[id]) <=> Manages(user, me, id, users[id]))
    /\ \A o \in Orders : Is(orders, o) =>
         LET it == orders[o] IN
         /\ ListsOrder(user, me, it, users, {}) <=> OpensOrder(user, me, it, users)
         /\ ListsFinance(user, it, users, {}) <=> OpensFinance(user, it, users)
         /\ \A t \in Teams : ListsOrder(user, me, it, users, {t}) => OpensOrder(user, me, it, users)
         /\ \A t \in Teams : ListsFinance(user, it, users, {t}) => OpensFinance(user, it, users)
         /\ OpensFinance(user, it, users) \/ ListsTask(user, me, it, users) => OpensOrder(user, me, it, users)
    /\ \A g \in Groups : Is(groups, g) =>
         (OffersGroup(user, me, groups[g]) <=> MayChangeGroup(user, me, groups[g]))
===============================================================================
