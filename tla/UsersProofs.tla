---------------------------- MODULE UsersProofs ----------------------------
(***************************************************************************)
(* Types, ranks and teams of users, and that lists and endpoints agree,    *)
(* for any number of users, teams, orders, groups and requests.  At the    *)
(* end, the theorem on the sessions of a user (UserSessions).              *)
(***************************************************************************)
EXTENDS Users, FiniteSetTheorems, WellFoundedInduction, TLAPS

OrderRow == [by : Ids, sales : Ids, finished : BOOLEAN]
GroupRow == [by : Ids, deleted : BOOLEAN]
People == [Ids -> Row \cup {None, Gone}]
View == [users : People, orders : [Orders -> OrderRow \cup {None}], groups : [Groups -> GroupRow \cup {None}]]
Request == [me : Ids, user : Row, view : View \cup {None}]

(* There is a team, the first administrator has an id, no user is made administrator, and  *)
(* the two marks of an absent row are no rows and no teams.                                *)
Setting ==
  /\ Teams # {} /\ None \notin Teams
  /\ MaxUsers \in Nat \ {0} /\ MaxWrites \in Nat
  /\ "super_admin" \notin Roles
  /\ None # Gone /\ {None, Gone} \cap (Row \cup OrderRow \cup GroupRow) = {}

\* Every row and every snapshot has its type.
Typing ==
  /\ users \in People
  /\ orders \in [Orders -> OrderRow \cup {None}]
  /\ groups \in [Groups -> GroupRow \cup {None}]
  /\ requests \in [Requests -> Request \cup {None}]
  /\ writes \in 0 .. MaxWrites /\ crossed \subseteq Ids

\* What a request knows is out of date in its teams at most: a user keeps role and creator,
\* and the id of one who is gone is not given away.
Known ==
  \A r \in Requests : requests[r] # None =>
    LET my == requests[r] IN
    /\ users[my.me] # None
    /\ Is(users, my.me) => users[my.me].role = my.user.role
    /\ my.view # None =>
         /\ \A id \in Ids : Is(my.view.users, id) =>
              /\ users[id] # None
              /\ Is(users, id) => /\ users[id].role = my.view.users[id].role
                                  /\ users[id].parent = my.view.users[id].parent
         /\ \A o \in Orders : Is(my.view.orders, o) => orders[o] # None
         /\ \A g \in Groups : Is(my.view.groups, g) => groups[g] # None

-----------------------------------------------------------------------------
\* What an UPDATE leaves of a user, column by column.
LEMMA RowUpdated ==
  ASSUME NEW row \in Row, NEW loaded \in Row, NEW new \in Row
  PROVE  /\ Updated(row, loaded, new) \in Row
         /\ \A c \in {"role", "team", "teams", "parent"} :
              Updated(row, loaded, new)[c] = IF new[c] # loaded[c] THEN new[c] ELSE row[c]
<1> DEFINE cols == {"role", "team", "teams", "parent"}
           out == Updated(row, loaded, new)
<1>1. out = [c \in cols |-> IF new[c] # loaded[c] THEN new[c] ELSE row[c]]
  BY DEF Row, Updated
<1>2. \A c \in cols : out[c] = IF new[c] # loaded[c] THEN new[c] ELSE row[c]
  BY <1>1
<1>3. out = [role |-> out.role, team |-> out.team, teams |-> out.teams, parent |-> out.parent]
  BY <1>1
<1>4. /\ out.role \in Roles \cup {"super_admin"} /\ out.team \in Teams
      /\ out.teams \in SUBSET Teams /\ out.parent \in Ids \cup {None}
  BY <1>2 DEF Row
<1> HIDE DEF out
<1>5. out \in Row
  BY <1>3, <1>4 DEF Row
<1> QED  BY <1>2, <1>5 DEF out

\* What an UPDATE leaves of an order is an order.
LEMMA OrderUpdated ==
  ASSUME NEW row \in OrderRow, NEW loaded \in OrderRow, NEW new \in OrderRow
  PROVE  Updated(row, loaded, new) \in OrderRow
<1> DEFINE cols == {"by", "sales", "finished"}
           out == Updated(row, loaded, new)
<1>1. out = [c \in cols |-> IF new[c] # loaded[c] THEN new[c] ELSE row[c]]
  BY DEF OrderRow, Updated
<1>2. \A c \in cols : out[c] = IF new[c] # loaded[c] THEN new[c] ELSE row[c]
  BY <1>1
<1>3. out = [by |-> out.by, sales |-> out.sales, finished |-> out.finished]
  BY <1>1
<1>4. out.by \in Ids /\ out.sales \in Ids /\ out.finished \in BOOLEAN
  BY <1>2 DEF OrderRow
<1> HIDE DEF out
<1> QED  BY <1>3, <1>4 DEF OrderRow, out

\* Whoever may create a role ranks above it.
LEMMA CreatorRanksAbove ==
  ASSUME Setting, NEW creator \in Roles \cup {"super_admin"}, NEW role \in Creatable(creator)
  PROVE  Rank(creator) < Rank(role) /\ role \in Roles
<1>1. CASE creator = "super_admin"
  BY <1>1 DEF Setting, Creatable, Rank
<1>2. CASE creator = "manager"
  BY <1>2 DEF Setting, Creatable, Rank, Single
<1>3. CASE creator \notin {"super_admin", "manager"}
  BY <1>3 DEF Creatable
<1> QED  BY <1>1, <1>2, <1>3

\* The teams that may be given: a manager a list with the default team on it, anyone else one
\* team.
LEMMA TeamsGiven ==
  ASSUME Setting, NEW user \in Row, NEW role, NEW team \in Teams \cup {None},
         NEW teams \in SUBSET Teams, MayAssign(user, role, team, teams)
  PROVE  /\ DefaultTeam(team, teams) \in Teams
         /\ IF role = "manager" THEN teams # {} /\ DefaultTeam(team, teams) \in teams ELSE teams = {}
<1>1. CASE role = "manager"
  <2>1. teams # {} /\ team \in teams \cup {None}
    BY <1>1 DEF MayAssign
  <2>2. DefaultTeam(team, teams) \in teams
    BY <2>1 DEF DefaultTeam
  <2> QED  BY <1>1, <2>1, <2>2
<1>2. CASE role # "manager"
  <2>1. team \in Assignable(user) /\ teams = {}
    BY <1>2 DEF MayAssign
  <2>2. team \in Teams
    BY <2>1 DEF Assignable, TeamsOf, Row
  <2> QED  BY <1>2, <2>1, <2>2 DEF Setting, DefaultTeam
<1> QED  BY <1>1, <1>2

\* A row that is there is a row.
LEMMA ThereIsRow ==
  ASSUME NEW table \in People, NEW id \in Ids, Is(table, id)
  PROVE  table[id] \in Row
  BY DEF People, Is

\* Everyone but the first administrator was created by somebody.
Created == \A id \in Ids \ {Admin} : Is(users, id) => users[id].parent \in Ids

Invariant == Typing /\ Known /\ Created /\ TeamsConsistent

\* What the requests know stays known when one of them ends, as long as those who are there
\* keep role and creator and nothing absent comes back.
LEMMA KnownKept ==
  ASSUME Typing, Known, NEW r \in Requests, requests' = [requests EXCEPT ![r] = None],
         \A id \in Ids : users[id] # None =>
           /\ users'[id] # None
           /\ Is(users', id) =>
                Is(users, id) /\ users'[id].role = users[id].role /\ users'[id].parent = users[id].parent,
         \A o \in Orders : orders[o] # None => orders'[o] # None,
         \A g \in Groups : groups[g] # None => groups'[g] # None
  PROVE  Known'
<1> SUFFICES ASSUME NEW q \in Requests, requests'[q] # None
    PROVE  LET my == requests'[q] IN
           /\ users'[my.me] # None
           /\ Is(users', my.me) => users'[my.me].role = my.user.role
           /\ my.view # None =>
                /\ \A id \in Ids : Is(my.view.users, id) =>
                     /\ users'[id] # None
                     /\ Is(users', id) => /\ users'[id].role = my.view.users[id].role
                                          /\ users'[id].parent = my.view.users[id].parent
                /\ \A o \in Orders : Is(my.view.orders, o) => orders'[o] # None
                /\ \A g \in Groups : Is(my.view.groups, g) => groups'[g] # None
  BY DEF Known
<1>1. requests'[q] = requests[q] /\ requests[q] # None
  BY DEF Typing
<1>2. requests[q] \in Request
  BY <1>1 DEF Typing
<1>3. requests[q].me \in Ids
  BY <1>2 DEF Request
<1> DEFINE my == requests[q]
<1>4. /\ users[my.me] # None
      /\ Is(users, my.me) => users[my.me].role = my.user.role
      /\ my.view # None =>
           /\ \A id \in Ids : Is(my.view.users, id) =>
                /\ users[id] # None
                /\ Is(users, id) => /\ users[id].role = my.view.users[id].role
                                    /\ users[id].parent = my.view.users[id].parent
           /\ \A o \in Orders : Is(my.view.orders, o) => orders[o] # None
           /\ \A g \in Groups : Is(my.view.groups, g) => groups[g] # None
  BY <1>1 DEF Known
<1>5. requests'[q] = my
  BY <1>1
<1>6. my.me \in Ids
  BY <1>3
<1> HIDE DEF my
<1> QED  BY <1>4, <1>5, <1>6

-----------------------------------------------------------------------------
LEMMA InitInvariant ==
  ASSUME Setting, Init
  PROVE  Invariant
<1> DEFINE admin == [role |-> "super_admin", team |-> CHOOSE t \in Teams : TRUE, teams |-> Teams, parent |-> None]
<1>1. admin \in Row
  BY DEF Setting, Row
<1>2. users = [id \in Ids |-> IF id # Admin THEN None ELSE admin]
  BY DEF Init
<1> HIDE DEF admin
<1>3. users \in People
  BY <1>1, <1>2 DEF People
<1>4. Typing
  BY <1>3 DEF Init, Typing, Setting
<1>5. Known
  BY DEF Init, Known
<1>6. \A id \in Ids \ {Admin} : ~Is(users, id)
  BY <1>2 DEF Is
<1> QED  BY <1>4, <1>5, <1>6 DEF Invariant, Created, TeamsConsistent

\* Who a request works for and what it has read are of their types.
LEMMA RequestTyped ==
  ASSUME Typing, NEW r \in Requests, requests[r] # None
  PROVE  /\ requests[r] \in Request
         /\ requests[r].me \in Ids /\ requests[r].user \in Row
         /\ requests[r].view # None => requests[r].view \in View
<1>1. requests[r] \in Request
  BY DEF Typing
<1> QED  BY <1>1 DEF Request

\* A new user fits who creates it and gets an id nobody had.
LEMMA CreateUserStep ==
  ASSUME Setting, Invariant, NEW r \in Requests, CreateUser(r)
  PROVE  Invariant'
<1> DEFINE my == requests[r]
<1>1. my.me \in Ids /\ my.user \in Row /\ Is(users, my.me) /\ users[my.me].role = my.user.role
  BY RequestTyped DEF CreateUser, Handles, Invariant, Known
<1>2. PICK id \in Ids, role \in Creatable(my.user.role), team \in Teams \cup {None}, teams \in SUBSET Teams :
        /\ users[id] = None
        /\ MayAssign(my.user, role, team, teams)
        /\ users' = [users EXCEPT ![id] =
             [role |-> role, team |-> DefaultTeam(team, teams), teams |-> teams, parent |-> my.me]]
  BY DEF CreateUser
<1> DEFINE new == [role |-> role, team |-> DefaultTeam(team, teams), teams |-> teams, parent |-> my.me]
<1>3. my.user.role \in Roles \cup {"super_admin"}
  BY <1>1 DEF Row
<1>4. Rank(my.user.role) < Rank(role) /\ role \in Roles
  BY <1>2, <1>3, CreatorRanksAbove
<1>5. /\ DefaultTeam(team, teams) \in Teams
      /\ IF role = "manager" THEN teams # {} /\ DefaultTeam(team, teams) \in teams ELSE teams = {}
  BY <1>1, <1>2, TeamsGiven
<1>6. new \in Row
  BY <1>1, <1>4, <1>5 DEF Row
<1>7. /\ new.role = role /\ new.team = DefaultTeam(team, teams) /\ new.teams = teams /\ new.parent = my.me
      /\ users' = [users EXCEPT ![id] = new]
  BY <1>2
<1> HIDE DEF new, my
<1>8. users \in People /\ users' \in People
  BY <1>6, <1>7 DEF Invariant, Typing, People
<1>9. users'[id] = new /\ \A other \in Ids \ {id} : users'[other] = users[other]
  BY <1>7, <1>8 DEF People
<1>10. new \notin {None, Gone}
  BY <1>6 DEF Setting
<1>11. /\ requests' = [requests EXCEPT ![r] = None] /\ writes' = writes + 1 /\ writes < MaxWrites
       /\ orders' = orders /\ groups' = groups /\ crossed' = crossed
  BY DEF CreateUser, Handles
<1>12. Typing'
  BY <1>8, <1>11 DEF Invariant, Typing, Setting
<1>13. Known'
  <2>1. \A other \in Ids : users[other] # None => other # id
    BY <1>2
  <2>2. \A other \in Ids : users[other] # None => users'[other] = users[other]
    BY <2>1, <1>9
  <2>3. \A other \in Ids : users[other] # None =>
           /\ users'[other] # None
           /\ Is(users', other) =>
                Is(users, other) /\ users'[other].role = users[other].role /\ users'[other].parent = users[other].parent
    BY <2>2 DEF Is
  <2> QED  BY <2>3, <1>11, KnownKept DEF Invariant
<1>14. my.me # id /\ users'[my.me] = users[my.me] /\ Is(users', my.me)
  BY <1>1, <1>2, <1>9 DEF Is
<1>15. Created'
  BY <1>1, <1>7, <1>9 DEF Invariant, Created, Is
<1>16. TeamsConsistent'
  <2> SUFFICES ASSUME NEW x \in Ids \ {Admin}, Is(users', x)
      PROVE  LET user == users'[x] IN
             /\ Is(users', user.parent) /\ Rank(users'[user.parent].role) < Rank(user.role)
             /\ IF user.role = "manager"
                THEN user.teams # {} /\ (user.team \in user.teams \/ x \in crossed')
                ELSE user.team \in Teams /\ user.teams = {}
    BY DEF TeamsConsistent
  <2>1. CASE x = id
    BY <2>1, <1>1, <1>4, <1>5, <1>7, <1>9, <1>14
  <2>2. CASE x # id
    <3>1. users'[x] = users[x] /\ Is(users, x)
      BY <2>2, <1>9 DEF Is
    <3> DEFINE p == users[x].parent
    <3>2. p \in Ids /\ Is(users, p)
      BY <3>1 DEF Invariant, Created, TeamsConsistent
    <3>3. p # id
      BY <3>2, <1>2 DEF Is
    <3>4. users'[p] = users[p] /\ Is(users', p)
      BY <3>2, <3>3, <1>9 DEF Is
    <3> QED  BY <3>1, <3>2, <3>4, <1>11 DEF Invariant, TeamsConsistent
  <2> QED  BY <2>1, <2>2
<1> QED  BY <1>12, <1>13, <1>15, <1>16 DEF Invariant

\* An update changes teams only, as the rules allow who loaded the row before.
LEMMA UpdateUserStep ==
  ASSUME Setting, Invariant, NEW r \in Requests, UpdateUser(r)
  PROVE  Invariant'
<1> DEFINE my == requests[r]
<1>1. my # None /\ my \in Request /\ my.user \in Row /\ my.view \in View /\ my.view # None
  BY RequestTyped, SMTT(30) DEF UpdateUser, Handles, Invariant
<1>2. PICK id \in Ids :
        LET seen == my.view.users[id] IN
        /\ Is(my.view.users, id) /\ Manages(my.user, my.me, id, seen)
        /\ \E team \in {seen.team} \cup Teams \cup {None}, teams \in {seen.teams} \cup SUBSET Teams :
             LET new == [seen EXCEPT !.team = DefaultTeam(team, teams), !.teams = teams] IN
             /\ MayAssign(my.user, seen.role, team, teams)
             /\ new # seen /\ Is(users, id)
             /\ users' = [users EXCEPT ![id] = Updated(users[id], seen, new)]
             /\ crossed' = IF users[id] = seen THEN crossed \ {id} ELSE crossed \cup {id}
  BY DEF UpdateUser
<1> DEFINE seen == my.view.users[id]
<1>3. seen \in Row
  BY <1>1, <1>2, ThereIsRow DEF View
<1>4. PICK team \in Teams \cup {None}, teams \in SUBSET Teams :
        LET new == [seen EXCEPT !.team = DefaultTeam(team, teams), !.teams = teams] IN
        /\ MayAssign(my.user, seen.role, team, teams)
        /\ Is(users, id)
        /\ users' = [users EXCEPT ![id] = Updated(users[id], seen, new)]
        /\ crossed' = IF users[id] = seen THEN crossed \ {id} ELSE crossed \cup {id}
  <2>1. seen.team \in Teams /\ seen.teams \in SUBSET Teams
    BY <1>3 DEF Row
  <2>2. {seen.team} \cup Teams \cup {None} = Teams \cup {None} /\ {seen.teams} \cup SUBSET Teams = SUBSET Teams
    BY <2>1
  <2> QED  BY <1>2, <2>2
<1>5. /\ DefaultTeam(team, teams) \in Teams
      /\ IF seen.role = "manager" THEN teams # {} /\ DefaultTeam(team, teams) \in teams ELSE teams = {}
  BY <1>1, <1>4, TeamsGiven
<1> DEFINE new == [seen EXCEPT !.team = DefaultTeam(team, teams), !.teams = teams]
           row == Updated(users[id], seen, new)
<1>6. /\ new \in Row /\ new.role = seen.role /\ new.parent = seen.parent
      /\ new.team = DefaultTeam(team, teams) /\ new.teams = teams
  BY <1>3, <1>5 DEF Row
<1>7. users[id] \in Row
  BY <1>4, ThereIsRow DEF Invariant, Typing
<1>8. users[id].role = seen.role /\ users[id].parent = seen.parent
  BY <1>1, <1>2, <1>4 DEF Invariant, Known
<1>9. users' = [users EXCEPT ![id] = row]
  BY <1>4
<1> HIDE DEF seen, new
<1>10. /\ row \in Row
       /\ row.role = users[id].role /\ row.parent = users[id].parent
       /\ row.team = IF new.team # seen.team THEN new.team ELSE users[id].team
       /\ row.teams = IF new.teams # seen.teams THEN new.teams ELSE users[id].teams
  BY <1>3, <1>6, <1>7, RowUpdated
<1> HIDE DEF row, my
<1>11. users \in People /\ users' \in People
  BY <1>9, <1>10 DEF Invariant, Typing, People
<1>12. users'[id] = row /\ \A other \in Ids \ {id} : users'[other] = users[other]
  BY <1>9, <1>11 DEF People
<1>13. row \notin {None, Gone}
  BY <1>10 DEF Setting
<1>14. Is(users, id) /\ Is(users', id)
  BY <1>4, <1>12, <1>13 DEF Is
<1>15. /\ requests' = [requests EXCEPT ![r] = None] /\ writes' = writes + 1 /\ writes < MaxWrites
       /\ orders' = orders /\ groups' = groups
  BY DEF UpdateUser, Handles
<1>16. crossed' = IF users[id] = seen THEN crossed \ {id} ELSE crossed \cup {id}
  BY <1>4 DEF seen
<1>17. Typing'
  BY <1>11, <1>15, <1>16 DEF Invariant, Typing, Setting
<1>18. \A other \in Ids : Is(users', other) =>
         /\ Is(users, other) /\ users'[other].role = users[other].role /\ users'[other].parent = users[other].parent
  BY <1>10, <1>12, <1>14 DEF Is
<1>19. \A other \in Ids : Is(users, other) => Is(users', other)
  BY <1>12, <1>14 DEF Is
<1>20. Known'
  <2>1. \A other \in Ids : users[other] # None => users'[other] # None
    BY <1>12, <1>13
  <2> QED  BY <2>1, <1>15, <1>18, KnownKept DEF Invariant
<1>21. Created'
  BY <1>18 DEF Invariant, Created
<1>22. TeamsConsistent'
  <2> SUFFICES ASSUME NEW x \in Ids \ {Admin}, Is(users', x)
      PROVE  LET user == users'[x] IN
             /\ Is(users', user.parent) /\ Rank(users'[user.parent].role) < Rank(user.role)
             /\ IF user.role = "manager"
                THEN user.teams # {} /\ (user.team \in user.teams \/ x \in crossed')
                ELSE user.team \in Teams /\ user.teams = {}
    BY DEF TeamsConsistent
  <2> DEFINE p == users[x].parent
  <2>1. Is(users, x) /\ users'[x].role = users[x].role /\ users'[x].parent = p
    BY <1>18
  <2>2. /\ p \in Ids /\ Is(users, p) /\ Rank(users[p].role) < Rank(users[x].role)
        /\ IF users[x].role = "manager"
           THEN users[x].teams # {} /\ (users[x].team \in users[x].teams \/ x \in crossed)
           ELSE users[x].team \in Teams /\ users[x].teams = {}
    BY <2>1 DEF Invariant, Created, TeamsConsistent
  <2>3. Is(users', p) /\ users'[p].role = users[p].role
    BY <2>2, <1>18, <1>19
  <2>4. CASE x # id
    BY <2>4, <2>1, <2>2, <2>3, <1>12, <1>16
  <2>5. CASE x = id /\ users[id].role # "manager"
    BY <2>5, <2>1, <2>2, <2>3, <1>5, <1>6, <1>8, <1>10, <1>12
  <2>6. CASE x = id /\ users[id].role = "manager"
    <3>1. row.teams # {}
      BY <2>2, <2>6, <1>5, <1>6, <1>8, <1>10
    <3>2. row.team \in row.teams \/ x \in crossed'
      <4>1. CASE users[id] = seen
        BY <4>1, <2>6, <1>5, <1>6, <1>8, <1>10
      <4>2. CASE users[id] # seen
        BY <4>2, <2>6, <1>16
      <4> QED  BY <4>1, <4>2
    <3> QED  BY <3>1, <3>2, <2>1, <2>2, <2>3, <2>6, <1>12
  <2> QED  BY <2>4, <2>5, <2>6
<1> QED  BY <1>17, <1>20, <1>21, <1>22 DEF Invariant

\* Who is deleted leaves a mark, and nobody's creator is deleted.
LEMMA DeleteUserStep ==
  ASSUME Setting, Invariant, NEW r \in Requests, DeleteUser(r)
  PROVE  Invariant'
<1>1. PICK id \in Ids : ~Referenced(id) /\ users' = [users EXCEPT ![id] = Gone]
  BY DEF DeleteUser
<1>2. users \in People /\ users' \in People
  BY <1>1 DEF Invariant, Typing, People
<1>3. users'[id] = Gone /\ \A other \in Ids \ {id} : users'[other] = users[other]
  BY <1>1, <1>2 DEF People
<1>4. \A other \in Ids : Is(users', other) => Is(users, other) /\ other # id /\ users'[other] = users[other]
  BY <1>3 DEF Is
<1>5. /\ requests' = [requests EXCEPT ![r] = None] /\ writes' = writes + 1 /\ writes < MaxWrites
      /\ orders' = orders /\ groups' = groups /\ crossed' = crossed
  BY DEF DeleteUser, Handles
<1>6. Typing'
  BY <1>2, <1>5 DEF Invariant, Typing, Setting
<1>7. Known'
  <2>1. \A other \in Ids : users[other] # None => users'[other] # None
    BY <1>3 DEF Setting
  <2> QED  BY <2>1, <1>4, <1>5, KnownKept DEF Invariant
<1>8. Created'
  BY <1>4 DEF Invariant, Created
<1>9. TeamsConsistent'
  <2> SUFFICES ASSUME NEW x \in Ids \ {Admin}, Is(users', x)
      PROVE  LET user == users'[x] IN
             /\ Is(users', user.parent) /\ Rank(users'[user.parent].role) < Rank(user.role)
             /\ IF user.role = "manager"
                THEN user.teams # {} /\ (user.team \in user.teams \/ x \in crossed')
                ELSE user.team \in Teams /\ user.teams = {}
    BY DEF TeamsConsistent
  <2> DEFINE p == users[x].parent
  <2>1. Is(users, x) /\ users'[x] = users[x]
    BY <1>4
  <2>2. p \in Ids /\ Is(users, p)
    BY <2>1 DEF Invariant, Created, TeamsConsistent
  <2>3. p # id
    BY <2>1, <1>1 DEF Referenced
  <2>4. users'[p] = users[p] /\ Is(users', p)
    BY <2>2, <2>3, <1>3 DEF Is
  <2> QED  BY <2>1, <2>2, <2>4, <1>5 DEF Invariant, TeamsConsistent
<1> QED  BY <1>6, <1>7, <1>8, <1>9 DEF Invariant

\* A request that leaves users alone and adds or changes one order or one group.
LEMMA OtherWrite ==
  ASSUME Setting, Invariant, NEW r \in Requests, Handles(r),
         orders' \in [Orders -> OrderRow \cup {None}], groups' \in [Groups -> GroupRow \cup {None}],
         \A o \in Orders : orders[o] # None => orders'[o] # None,
         \A g \in Groups : groups[g] # None => groups'[g] # None,
         UNCHANGED <<users, crossed>>
  PROVE  Invariant'
<1>1. requests' = [requests EXCEPT ![r] = None] /\ writes' = writes + 1 /\ writes < MaxWrites
  BY DEF Handles
<1>2. Typing'
  BY <1>1 DEF Invariant, Typing, Setting
<1>3. Known'
  BY <1>1, KnownKept DEF Invariant, Is
<1>4. Created' /\ TeamsConsistent'
  BY DEF Invariant, Created, TeamsConsistent, Is
<1> QED  BY <1>2, <1>3, <1>4 DEF Invariant

\* The requests on orders leave the users alone.
LEMMA OrderStep ==
  ASSUME Setting, Invariant, NEW r \in Requests, CreateOrder(r) \/ ChangeOrder(r)
  PROVE  Invariant'
<1> DEFINE my == requests[r]
<1>1. my # None /\ my \in Request /\ my.me \in Ids /\ my.view \in View /\ my.view # None
  BY RequestTyped DEF CreateOrder, ChangeOrder, Handles, Invariant
<1>2. orders \in [Orders -> OrderRow \cup {None}] /\ groups \in [Groups -> GroupRow \cup {None}]
  BY DEF Invariant, Typing
<1>3. Handles(r) /\ UNCHANGED <<users, groups, crossed>>
  BY DEF CreateOrder, ChangeOrder
<1>4. ASSUME NEW o \in Orders, NEW new \in OrderRow, orders' = [orders EXCEPT ![o] = new]
      PROVE  Invariant'
  <2>1. new # None
    BY DEF Setting
  <2>2. orders' \in [Orders -> OrderRow \cup {None}] /\ \A x \in Orders : orders[x] # None => orders'[x] # None
    BY <2>1, <1>2, <1>4
  <2> QED  BY <2>2, <1>2, <1>3, OtherWrite
<1>5. CASE CreateOrder(r)
  <2>1. PICK o \in Orders, sales \in IF my.user.role = "sales" THEN {my.me} ELSE Ids :
          orders' = [orders EXCEPT ![o] = [by |-> my.me, sales |-> sales, finished |-> FALSE]]
    BY <1>5 DEF CreateOrder
  <2>2. sales \in Ids
    BY <1>1, <2>1
  <2>3. [by |-> my.me, sales |-> sales, finished |-> FALSE] \in OrderRow
    BY <1>1, <2>2 DEF OrderRow
  <2> QED  BY <2>1, <2>3, <1>4
<1>6. CASE ChangeOrder(r)
  <2>1. PICK o \in Orders :
          LET seen == my.view.orders[o] IN
          /\ Is(my.view.orders, o)
          /\ \/ \E sales \in Ids : orders' = [orders EXCEPT ![o] = Updated(@, seen, [seen EXCEPT !.sales = sales])]
             \/ \E finished \in BOOLEAN :
                  orders' = [orders EXCEPT ![o] = Updated(@, seen, [seen EXCEPT !.finished = finished])]
    BY <1>6, ZenonT(40) DEF ChangeOrder
  <2> DEFINE seen == my.view.orders[o]
  <2>2. seen \in OrderRow
    BY <1>1, <2>1 DEF View, Is
  <2>3. orders[o] \in OrderRow
    BY <1>1, <1>2, <2>1 DEF Invariant, Known
  <2>4. \A new \in OrderRow : Updated(orders[o], seen, new) \in OrderRow
    BY <2>2, <2>3, OrderUpdated
  <2>5. PICK new \in OrderRow : orders' = [orders EXCEPT ![o] = Updated(@, seen, new)]
    <3>1. CASE \E sales \in Ids : orders' = [orders EXCEPT ![o] = Updated(@, seen, [seen EXCEPT !.sales = sales])]
      <4>1. PICK sales \in Ids : orders' = [orders EXCEPT ![o] = Updated(@, seen, [seen EXCEPT !.sales = sales])]
        BY <3>1
      <4>2. [seen EXCEPT !.sales = sales] \in OrderRow
        BY <2>2 DEF OrderRow
      <4> QED  BY <4>1, <4>2
    <3>2. CASE \E finished \in BOOLEAN :
                 orders' = [orders EXCEPT ![o] = Updated(@, seen, [seen EXCEPT !.finished = finished])]
      <4>1. PICK finished \in BOOLEAN :
              orders' = [orders EXCEPT ![o] = Updated(@, seen, [seen EXCEPT !.finished = finished])]
        BY <3>2
      <4>2. [seen EXCEPT !.finished = finished] \in OrderRow
        BY <2>2 DEF OrderRow
      <4> QED  BY <4>1, <4>2
    <3> QED  BY <2>1, <3>1, <3>2
  <2>6. orders' = [orders EXCEPT ![o] = Updated(orders[o], seen, new)]
    BY <2>5, <1>2
  <2> QED  BY <2>4, <2>5, <2>6, <1>4, ZenonT(40)
<1> QED  BY <1>5, <1>6

\* The requests on groups leave users and orders alone.
LEMMA GroupStep ==
  ASSUME Setting, Invariant, NEW r \in Requests, CreateGroup(r) \/ DeleteGroup(r)
  PROVE  Invariant'
<1> DEFINE my == requests[r]
<1>1. my # None /\ my \in Request /\ my.me \in Ids /\ my.view \in View /\ my.view # None
  BY RequestTyped DEF CreateGroup, DeleteGroup, Handles, Invariant
<1>2. orders \in [Orders -> OrderRow \cup {None}] /\ groups \in [Groups -> GroupRow \cup {None}]
  BY DEF Invariant, Typing
<1>3. Handles(r) /\ UNCHANGED <<users, orders, crossed>>
  BY DEF CreateGroup, DeleteGroup
<1>4. PICK g \in Groups, new \in GroupRow : groups' = [groups EXCEPT ![g] = new]
  <2>1. CASE CreateGroup(r)
    <3>1. [by |-> my.me, deleted |-> FALSE] \in GroupRow
      BY <1>1 DEF GroupRow
    <3> QED  BY <2>1, <3>1 DEF CreateGroup
  <2>2. CASE DeleteGroup(r)
    <3>1. PICK g \in Groups : Is(my.view.groups, g) /\ groups' = [groups EXCEPT ![g].deleted = TRUE]
      BY <2>2 DEF DeleteGroup
    <3>2. groups[g] \in GroupRow
      BY <1>1, <1>2, <3>1 DEF Invariant, Known
    <3>3. [groups[g] EXCEPT !.deleted = TRUE] \in GroupRow
      BY <3>2 DEF GroupRow
    <3>4. groups' = [groups EXCEPT ![g] = [groups[g] EXCEPT !.deleted = TRUE]]
      BY <3>1, <1>2
    <3> QED  BY <3>3, <3>4
  <2> QED  BY <2>1, <2>2
<1>5. new # None
  BY DEF Setting
<1>6. groups' \in [Groups -> GroupRow \cup {None}] /\ \A x \in Groups : groups[x] # None => groups'[x] # None
  BY <1>2, <1>4, <1>5
<1> QED  BY <1>2, <1>3, <1>6, OtherWrite

\* A request arrives, reads or leaves.
LEMMA RequestStep ==
  ASSUME Setting, Invariant, NEW r \in Requests, Enter(r) \/ Read(r) \/ Leave(r)
  PROVE  Invariant'
<1>1. UNCHANGED <<users, orders, groups, writes, crossed>>
  BY DEF Enter, Read, Leave
<1>2. Created' /\ TeamsConsistent'
  BY <1>1 DEF Invariant, Created, TeamsConsistent, Is
<1>3. users \in People /\ requests \in [Requests -> Request \cup {None}]
  BY DEF Invariant, Typing
<1>4. CASE Leave(r)
  <2>1. requests' = [requests EXCEPT ![r] = None]
    BY <1>4 DEF Leave
  <2>2. Typing'
    BY <1>1, <1>3, <2>1 DEF Invariant, Typing
  <2>3. Known'
    BY <1>1, <2>1, KnownKept DEF Invariant, Is
  <2> QED  BY <2>2, <2>3, <1>2 DEF Invariant
<1>5. CASE Enter(r)
  <2>1. PICK u \in Ids : Is(users, u) /\
          requests' = [requests EXCEPT ![r] = [me |-> u, user |-> users[u], view |-> None]]
    BY <1>5 DEF Enter
  <2> DEFINE new == [me |-> u, user |-> users[u], view |-> None]
  <2>2. users[u] \in Row /\ users[u] # None
    BY <2>1, <1>3, ThereIsRow DEF Is
  <2>3. new \in Request /\ new.me = u /\ new.user = users[u] /\ new.view = None
    BY <2>2 DEF Request
  <2>4. requests' = [requests EXCEPT ![r] = new]
    BY <2>1
  <2> HIDE DEF new
  <2>5. Typing'
    BY <1>1, <1>3, <2>3, <2>4 DEF Invariant, Typing
  <2>6. \A q \in Requests : requests'[q] = IF q = r THEN new ELSE requests[q]
    BY <1>3, <2>4
  <2>7. Known'
    BY <1>1, <2>2, <2>3, <2>6 DEF Invariant, Known, Is
  <2> QED  BY <2>5, <2>7, <1>2 DEF Invariant
<1>6. CASE Read(r)
  <2>1. requests[r] # None /\ requests[r].view = None /\ requests' = [requests EXCEPT ![r].view = Snapshot]
    BY <1>6 DEF Read
  <2> DEFINE my == requests[r]
             new == [my EXCEPT !.view = Snapshot]
  <2>2. my \in Request
    BY <2>1, RequestTyped DEF Invariant
  <2>3. Snapshot \in View
    BY DEF Snapshot, View, Invariant, Typing
  <2>4. new \in Request /\ new.me = my.me /\ new.user = my.user /\ new.view = Snapshot
    BY <2>2, <2>3 DEF Request
  <2>5. requests' = [requests EXCEPT ![r] = new]
    BY <2>1, <1>3
  <2> HIDE DEF new
  <2>6. Typing'
    BY <1>1, <1>3, <2>4, <2>5 DEF Invariant, Typing
  <2>7. \A q \in Requests : requests'[q] = IF q = r THEN new ELSE requests[q]
    BY <1>3, <2>5
  <2>8. Snapshot.users = users /\ Snapshot.orders = orders /\ Snapshot.groups = groups
    BY DEF Snapshot
  <2>9. Known'
    BY <1>1, <2>1, <2>4, <2>7, <2>8 DEF Invariant, Known, Is
  <2> QED  BY <2>6, <2>9, <1>2 DEF Invariant
<1> QED  BY <1>4, <1>5, <1>6

\* What the theorems on users rest on.
LEMMA SpecInvariant == Setting => (Spec => []Invariant)
<1> SUFFICES ASSUME Setting PROVE Spec => []Invariant
  OBVIOUS
<1>1. Init => Invariant
  BY InitInvariant
<1>2. Invariant /\ [Next]_vars => Invariant'
  <2> SUFFICES ASSUME Invariant, [Next]_vars  PROVE Invariant'
    OBVIOUS
  <2>1. CASE UNCHANGED vars
    BY <2>1 DEF vars, Invariant, Typing, Known, Created, TeamsConsistent, Is
  <2>2. CASE Next
    BY <2>2, RequestStep, CreateUserStep, UpdateUserStep, DeleteUserStep, OrderStep, GroupStep DEF Next
  <2> QED  BY <2>1, <2>2
<1> QED  BY <1>1, <1>2, PTL DEF Spec

\* What the rows are in every state follows from the invariant.
LEMMA InvariantTypes == Invariant => TypeOK
<1> SUFFICES ASSUME Invariant PROVE TypeOK
  OBVIOUS
<1>1. \A id \in Ids : Is(users, id) => users[id] \in Row
  BY ThereIsRow DEF Invariant, Typing
<1>2. \A o \in Orders : Is(orders, o) => orders[o] \in OrderRow
  BY DEF Invariant, Typing, Is
<1>3. \A g \in Groups : Is(groups, g) => groups[g] \in GroupRow
  BY DEF Invariant, Typing, Is
<1>4. \A r \in Requests : requests[r] # None => requests[r].me \in Ids /\ requests[r].user \in Row
  BY RequestTyped DEF Invariant
<1> QED  BY <1>1, <1>2, <1>3, <1>4 DEF Invariant, Typing, TypeOK, OrderRow, GroupRow

\* Every row and every request keeps its type.
THEOREM Typed == ASSUME Setting PROVE Spec => []TypeOK
  BY SpecInvariant, InvariantTypes, PTL

(* Every user was created by one who is still there and ranks above, and has the teams of  *)
(* the role, whatever requests decide on users as they were before others changed or       *)
(* deleted them (create_user, update_user, delete_user).                                   *)
THEOREM TeamsStayConsistent == ASSUME Setting PROVE Spec => []TeamsConsistent
  BY SpecInvariant, PTL DEF Invariant

-----------------------------------------------------------------------------
(* For any users, orders and groups, whatever has happened to them: the two places that    *)
(* state a rule agree.                                                                     *)
THEOREM ListsAlwaysMatch == ListsMatch
<1> SUFFICES ASSUME NEW me \in Ids, Is(users, me)
    PROVE  LET user == users[me] IN
      /\ \A id \in Ids : Is(users, id) /\ Lists(user, me, id, users[id]) =>
           (OffersManage(user, me, id, users[id]) <=> Manages(user, me, id, users[id]))
      /\ \A o \in Orders : Is(orders, o) =>
           LET it == orders[o] IN
           /\ ListsOrder(user, me, it, users, {}) <=> OpensOrder(user, me, it, users)
           /\ ListsFinance(user, it, users, {}) <=> OpensFinance(user, it, users)
           /\ \A t \in Teams : ListsOrder(user, me, it, users, {t}) => OpensOrder(user, me, it, users)
           /\ \A t \in Teams : ListsFinance(user, it, users, {t}) => OpensFinance(user, it, users)
           /\ OpensFinance(user, it, users) \/ ListsTask(user, me, it, users) => OpensOrder(user, me, it, users)
      /\ \A g \in Groups : Is(groups, g) =>
           (OffersGroup(user, me, groups[g]) <=> MayChangeGroup(user, me, groups[g]))
  BY DEF ListsMatch
<1> DEFINE user == users[me]
<1>1. ASSUME NEW id \in Ids
      PROVE  OffersManage(user, me, id, users[id]) <=> Manages(user, me, id, users[id])
  BY DEF OffersManage, Manages
<1>2. ASSUME NEW g \in Groups
      PROVE  OffersGroup(user, me, groups[g]) <=> MayChangeGroup(user, me, groups[g])
  BY DEF OffersGroup, MayChangeGroup, Writers
<1>3. ASSUME NEW row, NEW T, NEW S \in SUBSET T, InTeams(row, S)
      PROVE  InTeams(row, T)
  BY <1>3 DEF InTeams
<1>4. ASSUME NEW o \in Orders, Is(orders, o)
      PROVE  LET it == orders[o] IN
             /\ ListsOrder(user, me, it, users, {}) <=> OpensOrder(user, me, it, users)
             /\ ListsFinance(user, it, users, {}) <=> OpensFinance(user, it, users)
             /\ \A t \in Teams : ListsOrder(user, me, it, users, {t}) => OpensOrder(user, me, it, users)
             /\ \A t \in Teams : ListsFinance(user, it, users, {t}) => OpensFinance(user, it, users)
             /\ OpensFinance(user, it, users) \/ ListsTask(user, me, it, users) => OpensOrder(user, me, it, users)
  <2> DEFINE it == orders[o]
  <2> HIDE DEF user, it
  <2>1. ListsOrder(user, me, it, users, {}) <=> OpensOrder(user, me, it, users)
    BY DEF ListsOrder, OpensOrder, Reaches
  <2>2. ListsFinance(user, it, users, {}) <=> OpensFinance(user, it, users)
    BY DEF ListsFinance, OpensFinance, FinanceTeams, HasTeam, InTeams
  <2>3. ASSUME NEW t \in Teams, ListsOrder(user, me, it, users, {t})
        PROVE  OpensOrder(user, me, it, users)
    <3>1. user.role # "super_admin" => {t} \in SUBSET TeamsOf(user)
      BY <2>3 DEF ListsOrder
    <3>2. CASE user.role = "super_admin"
      BY <2>3, <3>2 DEF ListsOrder, OpensOrder, Reaches
    <3>3. CASE user.role = "sales"
      BY <2>3, <3>3 DEF ListsOrder, OpensOrder, Reaches
    <3>4. CASE user.role = "manager"
      BY <2>3, <3>1, <3>4, <1>3 DEF ListsOrder, OpensOrder, Reaches
    <3>5. CASE user.role \notin {"super_admin", "sales", "manager"}
      BY <2>3, <3>5 DEF ListsOrder, OpensOrder, Reaches
    <3> QED  BY <3>2, <3>3, <3>4, <3>5
  <2>4. ASSUME NEW t \in Teams, ListsFinance(user, it, users, {t})
        PROVE  OpensFinance(user, it, users)
    <3>1. TeamsOf(user) \cap {t} \in SUBSET TeamsOf(user)
      OBVIOUS
    <3> QED  BY <2>4, <3>1, <1>3 DEF ListsFinance, OpensFinance
  <2>5. ASSUME OpensFinance(user, it, users) PROVE OpensOrder(user, me, it, users)
    BY <2>5 DEF OpensFinance, FinanceTeams, OpensOrder, Reaches, HasTeam
  <2>6. ASSUME ListsTask(user, me, it, users) PROVE OpensOrder(user, me, it, users)
    BY <2>6 DEF ListsTask, OpensOrder, Reaches
  <2> QED  BY <2>1, <2>2, <2>3, <2>4, <2>5, <2>6 DEF it
<1> QED  BY <1>1, <1>2, <1>4

-----------------------------------------------------------------------------
(* The sessions of one user (UserSessions): they read no row of a team or an order.         *)
CONSTANTS Logins, Calls, MaxActive, Timeout, Heartbeat, Never, LastTime

VARIABLES rows, pc, view, call, now, begun, opened

Logged == INSTANCE UserSessions

\* The instance counts as this module does.
LEMMA CountsAlike == \A S : Logged!Cardinality(S) = Cardinality(S)
  BY DEF Logged!Cardinality, Cardinality

\* Logins are numbered, a user may have a session, the mark of an absent row is no row.
Limits ==
  /\ Logins \subseteq Nat /\ IsFiniteSet(Logins)
  /\ MaxActive \in Nat \ {0} /\ Timeout \in Nat /\ LastTime \in Nat
  /\ Never \notin Logged!Session

\* A function with values up to n has a greatest value.
LEMMA Peak ==
  ASSUME NEW S, S # {}, NEW n \in Nat, NEW f \in [S -> 0 .. n]
  PROVE  \E x \in S : \A y \in S : f[y] <= f[x]
<1> DEFINE T == {n - f[x] : x \in S}
<1>1. T \subseteq Nat /\ T # {}
  OBVIOUS
<1>2. \E i \in T : \A j \in T : ~(<<j, i>> \in OpToRel(<, Nat))
  BY <1>1, NatLessThanWellFounded, WFMin
<1>3. OpToRel(<, Nat) = {pair \in Nat \X Nat : pair[1] < pair[2]}
  BY Zenon DEF OpToRel
<1>4. PICK i \in T : \A j \in T : ~(j < i)
  BY <1>1, <1>2, <1>3
<1>5. PICK x \in S : i = n - f[x]
  OBVIOUS
<1>6. ASSUME NEW y \in S  PROVE f[y] <= f[x]
  <2>1. n - f[y] \in T
    OBVIOUS
  <2>2. ~(n - f[y] < n - f[x])
    BY <2>1, <1>4, <1>5
  <2> QED  BY <2>2
<1> QED  BY <1>6

\* In an order, at most k have fewer than k before them.
LEMMA FrontIsShort ==
  ASSUME NEW L, L \subseteq Nat, IsFiniteSet(L), NEW table, \A t \in L : table[t].active \in Nat, NEW k \in Nat,
         NEW S, S = {t \in L : Cardinality({s \in L : Logged!Before(table, s, t)}) < k}
  PROVE  IsFiniteSet(S) /\ Cardinality(S) <= k
<1> DEFINE ahead(t) == {s \in L : Logged!Before(table, s, t)}
           f == [t \in S |-> Cardinality(ahead(t))]
<1>1. IsFiniteSet(S) /\ Cardinality(S) \in Nat /\ Cardinality(L) \in Nat
  BY FS_Subset, FS_CardinalityType
<1>2. ASSUME NEW t  PROVE IsFiniteSet(ahead(t)) /\ Cardinality(ahead(t)) \in 0 .. Cardinality(L)
  BY <1>1, FS_Subset, FS_CardinalityType
<1>3. CASE S = {}
  <2>1. Cardinality(S) = 0
    BY <1>1, <1>3, FS_EmptySet
  <2> QED  BY <1>1, <2>1
<1>4. CASE S # {}
  <2>1. f \in [S -> 0 .. Cardinality(L)]
    BY <1>2
  <2>2. PICK x \in S : \A y \in S : f[y] <= f[x]
    BY <1>1, <1>4, <2>1, Peak
  <2>3. ASSUME NEW y \in S, y # x  PROVE y \in ahead(x)
    <3>1. SUFFICES ASSUME y \notin ahead(x)  PROVE FALSE
      OBVIOUS
    <3>2. x \in Nat /\ y \in Nat /\ table[x].active \in Nat /\ table[y].active \in Nat
      OBVIOUS
    <3>3. Logged!Before(table, x, y)
      BY <2>3, <3>1, <3>2 DEF Logged!Before
    <3>4. ahead(x) \cup {x} \subseteq ahead(y)
      <4>1. ASSUME NEW s \in ahead(x)  PROVE s \in ahead(y)
        <5>1. s \in Nat /\ table[s].active \in Nat /\ Logged!Before(table, s, x)
          OBVIOUS
        <5> QED  BY <5>1, <3>2, <3>3 DEF Logged!Before
      <4> QED  BY <4>1, <3>3
    <3>5. x \notin ahead(x)
      BY <3>2 DEF Logged!Before
    <3> HIDE DEF ahead
    <3>6. Cardinality(ahead(x) \cup {x}) = Cardinality(ahead(x)) + 1
      BY <1>2, <3>5, FS_AddElement
    <3>7. Cardinality(ahead(x) \cup {x}) <= Cardinality(ahead(y))
      BY <1>2, <3>4, FS_Subset
    <3> QED  BY <1>2, <2>2, <3>6, <3>7
  <2>4. S \ {x} \subseteq ahead(x)
    BY <2>3
  <2>5. Cardinality(ahead(x)) < k
    OBVIOUS
  <2> HIDE DEF ahead
  <2>6. Cardinality(S \ {x}) <= Cardinality(ahead(x)) /\ Cardinality(S \ {x}) = Cardinality(S) - 1
    BY <1>1, <1>2, <2>4, FS_Subset, FS_RemoveElement
  <2> QED  BY <1>1, <1>2, <2>5, <2>6
<1> QED  BY <1>3, <1>4

-----------------------------------------------------------------------------
Phases == {"none", "begun", "inserted", "done", "failed"}
CallRows == [session : Logins, row : Logged!Session, deed : {"touch", "expire", "serve"}, at : 0 .. LastTime]

SessionTypes ==
  /\ rows \in Logged!Tables /\ pc \in [Logins -> Phases] /\ view \in [Logins -> Logged!Tables \cup {Never}]
  /\ call \in [Calls -> CallRows \cup {Never}]
  /\ now \in 0 .. LastTime
  /\ begun \in [Logins -> SUBSET Logins] /\ opened \subseteq Logins

\* A session has a row once its login has committed, and rows were last active in the past.
Committed ==
  /\ \A s \in Logins : (rows[s] # Never <=> s \in opened) /\ (s \in opened <=> pc[s] = "done")
  /\ \A s \in opened : rows[s].active <= now
  /\ \A c \in Calls : call[c] # Never => call[c].session \in opened /\ call[c].at <= now

\* The sessions that had committed when a login began are older than it, and so are theirs.
Older ==
  /\ \A s \in Logins : begun[s] \subseteq opened
  /\ \A s \in Logins : s \notin begun[s] /\ \A t \in begun[s] : begun[t] \subseteq begun[s]

Counting(m) == pc[m] \in {"begun", "inserted"}

\* The snapshot of a login shows these, no more dead than they are, and none younger than its own.
Views ==
  \A m \in Logins : Counting(m) =>
    /\ view[m] \in Logged!Tables
    /\ \A t \in Logins \ {m} : view[m][t] # Never <=> t \in begun[m]
    /\ \A t \in begun[m] : view[m][t].active <= now /\ (view[m][t].expired => rows[t].expired)
    /\ pc[m] = "inserted" =>
         /\ view[m][m] # Never /\ ~view[m][m].expired /\ view[m][m].active <= now
         /\ \A t \in begun[m] : view[m][t].active <= view[m][m].active

\* Of the sessions a login has counted fewer are left than there may be.
Counted ==
  \A m \in Logged!Live(rows) : Cardinality(Logged!Live(rows) \cap begun[m]) <= MaxActive - 1

Inv == SessionTypes /\ Committed /\ Older /\ Views /\ Counted

-----------------------------------------------------------------------------
LEMMA SessionsAreFinite ==
  ASSUME Limits, NEW S \in SUBSET Logins
  PROVE  IsFiniteSet(S) /\ Cardinality(S) \in Nat
  BY FS_Subset, FS_CardinalityType DEF Limits

\* Live sessions are rows.
LEMMA LiveOnes ==
  ASSUME Limits, NEW table \in Logged!Tables
  PROVE  /\ Logged!Live(table) \in SUBSET Logins
         /\ \A s \in Logged!Live(table) : table[s] \in Logged!Session /\ table[s].active \in Nat /\ ~table[s].expired
<1>1. DOMAIN table = Logins /\ \A s \in Logins : table[s] \in Logged!Session \cup {Never}
  BY DEF Logged!Tables
<1> QED  BY <1>1 DEF Logged!Live, Logged!Session

\* Ended sessions and others that go only make room.
LEMMA CountedStays ==
  ASSUME Limits, Counted, rows \in Logged!Tables, rows' \in Logged!Tables, begun \in [Logins -> SUBSET Logins],
         Logged!Live(rows') \subseteq Logged!Live(rows), \A s \in Logged!Live(rows) : begun'[s] = begun[s]
  PROVE  Counted'
<1>1. ASSUME NEW m \in Logged!Live(rows')  PROVE Cardinality(Logged!Live(rows') \cap begun'[m]) <= MaxActive - 1
  <2>1. m \in Logged!Live(rows) /\ Logged!Live(rows) \in SUBSET Logins
    BY <1>1, LiveOnes
  <2>2. Cardinality(Logged!Live(rows') \cap begun'[m]) <= Cardinality(Logged!Live(rows) \cap begun[m])
    <3>1. IsFiniteSet(Logged!Live(rows) \cap begun[m])
      BY <2>1, SessionsAreFinite
    <3>2. Logged!Live(rows') \cap begun'[m] \subseteq Logged!Live(rows) \cap begun[m]
      BY <2>1
    <3> QED  BY <3>1, <3>2, FS_Subset
  <2>3. Cardinality(Logged!Live(rows) \cap begun[m]) \in Nat /\ Cardinality(Logged!Live(rows') \cap begun'[m]) \in Nat
    <3>1. Logged!Live(rows') \cap begun'[m] \in SUBSET Logins /\ Logged!Live(rows) \cap begun[m] \in SUBSET Logins
      BY <2>1
    <3> QED  BY <3>1, SessionsAreFinite
  <2>4. Cardinality(Logged!Live(rows) \cap begun[m]) <= MaxActive - 1
    BY <2>1 DEF Counted
  <2> QED  BY <2>2, <2>3, <2>4 DEF Limits
<1> QED  BY <1>1 DEF Counted

\* No row changes.
LEMMA BeginStep ==
  ASSUME Limits, Inv, NEW s \in Logins, Logged!BeginLogin(s)
  PROVE  Inv'
<1>1. /\ pc[s] = "none" /\ pc' = [pc EXCEPT ![s] = "begun"]
      /\ view' = [view EXCEPT ![s] = rows] /\ begun' = [begun EXCEPT ![s] = opened]
      /\ UNCHANGED <<rows, call, now, opened>>
  BY DEF Logged!BeginLogin
<1>2. s \notin opened /\ rows[s] = Never
  BY <1>1 DEF Inv, Committed
<1>3. SessionTypes'
  BY <1>1 DEF Inv, SessionTypes, Phases
<1>4. Committed'
  BY <1>1, <1>2 DEF Inv, SessionTypes, Committed
<1>5. Older'
  BY <1>1, <1>2 DEF Inv, SessionTypes, Older
<1>6. Views'
  <2>1. ASSUME NEW m \in Logins, Counting(m)', m # s
        PROVE  pc'[m] = pc[m] /\ view'[m] = view[m] /\ begun'[m] = begun[m]
    BY <1>1, <2>1 DEF Inv, SessionTypes
  <2>2. pc'[s] = "begun" /\ view'[s] = rows /\ begun'[s] = opened
    BY <1>1 DEF Inv, SessionTypes
  <2> QED  BY <1>1, <1>2, <2>1, <2>2 DEF Inv, SessionTypes, Views, Counting, Committed
<1>7. Counted'
  <2>1. \A t \in Logged!Live(rows) : begun'[t] = begun[t]
    BY <1>1, <1>2, LiveOnes DEF Inv, SessionTypes, Logged!Live
  <2> QED  BY <1>1, <2>1, CountedStays DEF Inv, SessionTypes
<1> QED  BY <1>3, <1>4, <1>5, <1>6, <1>7 DEF Inv

\* The new session is in the snapshot of its login alone.
LEMMA InsertStep ==
  ASSUME Limits, Inv, NEW s \in Logins, Logged!Insert(s)
  PROVE  Inv'
<1>1. /\ pc[s] = "begun" /\ pc' = [pc EXCEPT ![s] = "inserted"]
      /\ view' = [view EXCEPT ![s][s] = [active |-> now, expired |-> FALSE]]
      /\ UNCHANGED <<rows, call, now, begun, opened>>
  BY DEF Logged!Insert
<1> DEFINE own == [active |-> now, expired |-> FALSE]
<1>2. own \in Logged!Session /\ own # Never /\ own.active = now /\ ~own.expired /\ now \in Nat
  <2>1. own \in Logged!Session
    BY DEF Inv, SessionTypes, Logged!Session
  <2>2. Never \notin Logged!Session
    BY DEF Limits
  <2>3. now \in Nat
    BY DEF Inv, SessionTypes
  <2> QED  BY <2>1, <2>2, <2>3
<1> HIDE DEF own
<1>3. view[s] \in Logged!Tables
  BY <1>1 DEF Inv, Views, Counting
<1>4. view'[s] = [view[s] EXCEPT ![s] = own] /\ \A m \in Logins \ {s} : view'[m] = view[m]
  BY <1>1 DEF Inv, SessionTypes, own
<1>5. view'[s] \in Logged!Tables /\ view'[s][s] = own /\ \A t \in Logins \ {s} : view'[s][t] = view[s][t]
  BY <1>2, <1>3, <1>4 DEF Logged!Tables
<1>6. SessionTypes'
  <2>1. view' \in [Logins -> Logged!Tables \cup {Never}]
    BY <1>1, <1>4, <1>5 DEF Inv, SessionTypes
  <2> QED  BY <1>1, <2>1 DEF Inv, SessionTypes, Phases
<1>7. Committed' /\ Older'
  BY <1>1 DEF Inv, SessionTypes, Committed, Older
<1>8. Views'
  <2>1. ASSUME NEW m \in Logins, Counting(m)', m # s
        PROVE  pc'[m] = pc[m] /\ view'[m] = view[m] /\ begun'[m] = begun[m]
    BY <1>1, <1>4, <2>1 DEF Inv, SessionTypes
  <2>2. s \notin begun[s] /\ begun'[s] = begun[s] /\ begun[s] \subseteq Logins
    BY <1>1 DEF Inv, Older, SessionTypes
  <2>3. ASSUME NEW t \in begun[s]  PROVE view'[s][t].active <= now /\ (view'[s][t].expired => rows[t].expired)
    BY <1>1, <1>5, <2>2 DEF Inv, Views, Counting
  <2>4. \A t \in Logins \ {s} : view'[s][t] # Never <=> t \in begun[s]
    BY <1>1, <1>5 DEF Inv, Views, Counting
  <2>5. \A t \in begun[s] : view'[s][t].active <= view'[s][s].active
    BY <1>2, <1>5, <2>3
  <2>6. ASSUME NEW m \in Logins, Counting(m)', m # s
        PROVE  /\ view'[m] \in Logged!Tables
               /\ \A t \in Logins \ {m} : view'[m][t] # Never <=> t \in begun'[m]
               /\ \A t \in begun'[m] : view'[m][t].active <= now' /\ (view'[m][t].expired => rows'[t].expired)
               /\ pc'[m] = "inserted" =>
                    /\ view'[m][m] # Never /\ ~view'[m][m].expired /\ view'[m][m].active <= now'
                    /\ \A t \in begun'[m] : view'[m][t].active <= view'[m][m].active
    BY <1>1, <2>1, <2>6 DEF Inv, Views, Counting
  <2>7. /\ view'[s] \in Logged!Tables
        /\ \A t \in Logins \ {s} : view'[s][t] # Never <=> t \in begun'[s]
        /\ \A t \in begun'[s] : view'[s][t].active <= now' /\ (view'[s][t].expired => rows'[t].expired)
        /\ view'[s][s] # Never /\ ~view'[s][s].expired /\ view'[s][s].active <= now'
        /\ \A t \in begun'[s] : view'[s][t].active <= view'[s][s].active
    <3>1. \A t \in begun[s] : view'[s][t].active <= now' /\ (view'[s][t].expired => rows'[t].expired)
      BY <1>1, <2>3
    <3>2. view'[s][s] # Never /\ ~view'[s][s].expired /\ view'[s][s].active <= now'
      <4>1. now' = now
        BY <1>1
      <4> QED  BY <1>2, <1>5, <4>1
    <3>3. begun' = begun
      BY <1>1
    <3> QED  BY <1>5, <2>4, <2>5, <3>1, <3>2, <3>3
  <2> QED  BY <2>6, <2>7 DEF Views
<1>9. Counted'
  BY <1>1 DEF Inv, Counted
<1> QED  BY <1>6, <1>7, <1>8, <1>9 DEF Inv

\* A login that fails leaves the rows alone.
LEMMA FailStep ==
  ASSUME Limits, Inv, NEW s \in Logins, Logged!FailLogin(s)
  PROVE  Inv'
<1>1. /\ pc[s] \in {"begun", "inserted"} /\ pc' = [pc EXCEPT ![s] = "failed"]
      /\ view' = [view EXCEPT ![s] = Never]
      /\ UNCHANGED <<rows, call, now, begun, opened>>
  BY DEF Logged!FailLogin
<1>2. SessionTypes'
  BY <1>1 DEF Inv, SessionTypes, Phases
<1>3. Committed' /\ Older'
  BY <1>1 DEF Inv, SessionTypes, Committed, Older
<1>4. Views'
  <2>1. ASSUME NEW m \in Logins, Counting(m)'
        PROVE  m # s /\ pc'[m] = pc[m] /\ view'[m] = view[m]
    BY <1>1, <2>1 DEF Inv, SessionTypes, Counting
  <2> QED  BY <1>1, <2>1 DEF Inv, Views, Counting
<1>5. Counted'
  BY <1>1 DEF Inv, Counted
<1> QED  BY <1>2, <1>3, <1>4, <1>5 DEF Inv

\* A call changes one row, and it may only end it or say when it was used.
LEMMA RowChanges ==
  ASSUME Limits, Inv, NEW t \in opened, NEW new \in Logged!Session, new.active <= now, rows[t].expired => new.expired,
         rows' = [rows EXCEPT ![t] = new], UNCHANGED <<pc, view, now, begun, opened>>,
         call' \in [Calls -> CallRows \cup {Never}],
         \A c \in Calls : call'[c] # Never => call'[c] = call[c]
  PROVE  Inv'
<1>1. t \in Logins /\ rows[t] \in Logged!Session /\ new # Never
  BY DEF Inv, SessionTypes, Committed, Logged!Tables, Limits
<1>2. rows'[t] = new /\ \A u \in Logins \ {t} : rows'[u] = rows[u]
  BY <1>1 DEF Inv, SessionTypes, Logged!Tables
<1>3. SessionTypes'
  BY <1>1 DEF Inv, SessionTypes, Logged!Tables
<1>4. Committed'
  BY <1>1, <1>2 DEF Inv, SessionTypes, Committed
<1>5. Older'
  BY DEF Inv, Older
<1>6. Views'
  <2>1. \A u \in Logins : rows[u].expired => rows'[u].expired
    BY <1>2
  <2>2. \A m \in Logins : begun[m] \subseteq Logins
    BY DEF Inv, SessionTypes
  <2> QED  BY <2>1, <2>2 DEF Inv, Views, Counting
<1>7. Counted'
  <2>1. Logged!Live(rows') \subseteq Logged!Live(rows)
    BY <1>1, <1>2 DEF Inv, SessionTypes, Logged!Tables, Logged!Live, Committed
  <2>2. \A u \in Logged!Live(rows) : begun'[u] = begun[u]
    OBVIOUS
  <2> QED  BY <1>3, <2>1, <2>2, CountedStays DEF Inv, SessionTypes
<1> QED  BY <1>3, <1>4, <1>5, <1>6, <1>7 DEF Inv

\* A call reads a live session, and touches, ends or leaves it.
LEMMA CallStep ==
  ASSUME Limits, Inv, NEW c \in Calls, Logged!Read(c) \/ Logged!Answer(c) \/ Logged!Drop(c) \/ Logged!Logout(c)
  PROVE  Inv'
<1> DEFINE it == call[c]
<1>1. CASE Logged!Read(c)
  <2>1. PICK s \in Logged!Live(rows) :
          call' = [call EXCEPT ![c] = [session |-> s, row |-> rows[s], deed |-> Logged!Deed(rows[s]), at |-> now]]
    BY <1>1 DEF Logged!Read
  <2>2. UNCHANGED <<rows, pc, view, now, begun, opened>>
    BY <1>1 DEF Logged!Read
  <2>3. s \in opened /\ s \in Logins /\ rows[s] \in Logged!Session
    BY LiveOnes DEF Inv, SessionTypes, Committed, Logged!Live
  <2>4. Logged!Deed(rows[s]) \in {"touch", "expire", "serve"}
    BY DEF Logged!Deed
  <2>5. call' \in [Calls -> CallRows \cup {Never}]
    BY <2>1, <2>3, <2>4 DEF Inv, SessionTypes, CallRows
  <2>6. \A b \in Calls : call'[b] = call[b] \/ (call'[b].session = s /\ call'[b].at = now)
    BY <2>1 DEF Inv, SessionTypes
  <2> QED  BY <2>2, <2>3, <2>5, <2>6 DEF Inv, SessionTypes, Committed, Older, Views, Counting, Counted
<1>2. ASSUME it # Never
      PROVE  it.session \in opened /\ it.session \in Logins /\ it.at <= now /\ it.at \in 0 .. LastTime
             /\ rows[it.session] \in Logged!Session
  <2>1. it \in CallRows
    BY <1>2 DEF Inv, SessionTypes
  <2> QED  BY <1>2, <2>1 DEF Inv, SessionTypes, Committed, CallRows, Logged!Tables
<1>3. ASSUME call' = [call EXCEPT ![c] = Never]
      PROVE  call' \in [Calls -> CallRows \cup {Never}] /\ \A b \in Calls : call'[b] # Never => call'[b] = call[b]
  BY <1>3 DEF Inv, SessionTypes
<1>4. CASE Logged!Answer(c)
  <2>1. it # Never /\ call' = [call EXCEPT ![c] = Never] /\ UNCHANGED <<pc, view, now, begun, opened>>
    BY <1>4 DEF Logged!Answer
  <2> DEFINE t == it.session
             new == IF it.deed = "touch" THEN [rows[t] EXCEPT !.active = it.at]
                    ELSE IF it.deed = "expire" THEN [rows[t] EXCEPT !.expired = TRUE] ELSE rows[t]
  <2>2. new \in Logged!Session /\ new.active <= now /\ (rows[t].expired => new.expired)
    BY <1>2, <2>1 DEF Logged!Session, Inv, Committed
  <2>3. rows' = [rows EXCEPT ![t] = new]
    <3>1. rows \in [Logins -> Logged!Session \cup {Never}] /\ t \in Logins
      BY <1>2, <2>1 DEF Inv, SessionTypes, Logged!Tables
    <3> QED  BY <1>4, <3>1 DEF Logged!Answer
  <2> HIDE DEF new
  <2> QED  BY <1>2, <1>3, <2>1, <2>2, <2>3, RowChanges
<1>5. CASE Logged!Drop(c)
  BY <1>3, <1>5 DEF Logged!Drop, Inv, SessionTypes, Committed, Older, Views, Counting, Counted
<1>6. CASE Logged!Logout(c)
  <2>1. it # Never /\ call' = [call EXCEPT ![c] = Never] /\ UNCHANGED <<pc, view, now, begun, opened>>
    BY <1>6 DEF Logged!Logout
  <2> DEFINE new == [active |-> now, expired |-> TRUE]
  <2>2. new \in Logged!Session /\ new.active <= now /\ new.expired
    BY DEF Logged!Session, Inv, SessionTypes
  <2>3. rows' = [rows EXCEPT ![it.session] = new]
    BY <1>6 DEF Logged!Logout
  <2> HIDE DEF new
  <2> QED  BY <1>2, <1>3, <2>1, <2>2, <2>3, RowChanges
<1> QED  BY <1>1, <1>4, <1>5, <1>6

\* No row was used later than now.
LEMMA TickStep == ASSUME Limits, Inv, Logged!Tick PROVE Inv'
<1>1. now' = now + 1 /\ now' \in 0 .. LastTime /\ now \in Nat /\ UNCHANGED <<rows, pc, view, call, begun, opened>>
  BY DEF Logged!Tick, Inv, SessionTypes, Limits
<1>2. SessionTypes'
  BY <1>1 DEF Inv, SessionTypes
<1>3. Committed'
  <2>1. \A s \in opened : rows[s] \in Logged!Session
    BY DEF Inv, SessionTypes, Committed, Logged!Tables
  <2>2. \A c \in Calls : call[c] # Never => call[c] \in CallRows
    BY DEF Inv, SessionTypes
  <2> QED  BY <1>1, <2>1, <2>2 DEF Inv, Committed, Logged!Session, CallRows
<1>4. Views'
  <2>1. ASSUME NEW m \in Logins, Counting(m), NEW t \in begun[m]  PROVE view[m][t].active \in Nat
    <3>1. view[m] \in Logged!Tables /\ t \in Logins /\ view[m][t] # Never
      BY <2>1 DEF Inv, Views, SessionTypes, Older
    <3> QED  BY <3>1 DEF Logged!Tables, Logged!Session
  <2>2. ASSUME NEW m \in Logins, Counting(m), NEW t \in begun[m]  PROVE view[m][t].active <= now'
    BY <1>1, <2>1, <2>2 DEF Inv, Views
  <2>3. ASSUME NEW m \in Logins, pc[m] = "inserted"  PROVE view[m][m].active <= now'
    <3>1. view[m] \in Logged!Tables /\ view[m][m] # Never /\ view[m][m].active <= now
      BY <2>3 DEF Inv, Views, Counting
    <3>2. view[m][m].active \in Nat
      BY <3>1 DEF Logged!Tables, Logged!Session
    <3> QED  BY <1>1, <3>1, <3>2
  <2> QED  BY <1>1, <2>2, <2>3 DEF Inv, Views, Counting
<1> QED  BY <1>1, <1>2, <1>3, <1>4 DEF Inv, Older, Counted

-----------------------------------------------------------------------------
\* What FinishLogin makes of the rows.
IdleOnes == {t \in Logged!Live(rows) : Logged!Idle(rows[t]) > Timeout}
Seen(s) == [t \in Logins |-> IF t \in IdleOnes THEN [rows[t] EXCEPT !.expired = TRUE] ELSE view[s][t]]
EndedBy(s) == IdleOnes \cup Logged!Beyond(Seen(s), s)
LEMMA FinishLoginDoes ==
  ASSUME Limits, Inv, NEW s \in Logins, Logged!FinishLogin(s)
  PROVE  /\ pc[s] = "inserted" /\ s \notin opened /\ view[s] \in Logged!Tables /\ view[s][s] \in Logged!Session /\ ~view[s][s].expired
         /\ Seen(s) \in Logged!Tables
         /\ \A t \in EndedBy(s) : t # s /\ rows[t] # Never
         /\ rows' = [t \in Logins |-> IF t \in EndedBy(s) THEN [rows[t] EXCEPT !.expired = TRUE]
                                      ELSE IF t = s THEN view[s][s] ELSE rows[t]]
         /\ pc' = [pc EXCEPT ![s] = "done"] /\ view' = [view EXCEPT ![s] = Never] /\ opened' = opened \cup {s}
         /\ UNCHANGED <<call, now, begun>>
<1>1. pc[s] = "inserted" /\ s \notin opened /\ rows[s] = Never
  BY DEF Logged!FinishLogin, Inv, Committed
<1>2. view[s] \in Logged!Tables /\ view[s][s] \in Logged!Session /\ ~view[s][s].expired
  BY <1>1 DEF Inv, Views, Counting, Logged!Tables
<1>3. rows \in [Logins -> Logged!Session \cup {Never}] /\ view[s] \in [Logins -> Logged!Session \cup {Never}]
  BY <1>2 DEF Inv, SessionTypes, Logged!Tables
<1>4. \A t \in IdleOnes : t \in Logins /\ rows[t] \in Logged!Session
  BY LiveOnes DEF IdleOnes, Inv, SessionTypes
<1>5. Seen(s) \in Logged!Tables
  <2>1. \A t \in IdleOnes : [rows[t] EXCEPT !.expired = TRUE] \in Logged!Session
    BY <1>4 DEF Logged!Session
  <2> QED  BY <1>3, <2>1 DEF Seen, Logged!Tables
<1>6. ASSUME NEW t \in EndedBy(s)  PROVE t # s /\ rows[t] # Never
  <2>1. CASE t \in IdleOnes
    BY <2>1, <1>1 DEF IdleOnes, Logged!Live
  <2>2. CASE t \notin IdleOnes
    <3>1. t \in Logged!Live(Seen(s)) /\ t # s /\ t \in Logins
      BY <1>5, <1>6, <2>2, LiveOnes DEF EndedBy, Logged!Beyond
    <3>2. view[s][t] # Never
      BY <2>2, <3>1 DEF Logged!Live, Seen
    <3>3. t \in begun[s]
      BY <1>1, <3>1, <3>2 DEF Inv, Views, Counting
    <3> QED  BY <3>1, <3>3 DEF Inv, Older, Committed
  <2> QED  BY <2>1, <2>2
<1>7. rows' = [t \in Logins |-> IF t \in EndedBy(s) THEN [([rows EXCEPT ![s] = view[s][s]])[t] EXCEPT !.expired = TRUE]
                                ELSE ([rows EXCEPT ![s] = view[s][s]])[t]]
  <2> DEFINE own == [rows EXCEPT ![s] = view[s][s]]
             idle == {t \in Logged!Live(rows) : Logged!Idle(rows[t]) > Timeout}
             seen == [t \in Logins |-> IF t \in idle THEN [rows[t] EXCEPT !.expired = TRUE] ELSE view[s][t]]
             ended == idle \cup Logged!Beyond(seen, s)
  <2>1. rows' = [t \in Logins |-> IF t \in ended THEN [own[t] EXCEPT !.expired = TRUE] ELSE own[t]]
    BY DEF Logged!FinishLogin
  <2>2. ended = EndedBy(s)
    BY DEF EndedBy, Seen, IdleOnes
  <2> HIDE DEF ended
  <2> QED  BY <2>1, <2>2
<1>8. \A t \in Logins : ([rows EXCEPT ![s] = view[s][s]])[t] = IF t = s THEN view[s][s] ELSE rows[t]
  BY <1>3
<1>9. rows' = [t \in Logins |-> IF t \in EndedBy(s) THEN [rows[t] EXCEPT !.expired = TRUE]
                                ELSE IF t = s THEN view[s][s] ELSE rows[t]]
  <2> DEFINE own == [rows EXCEPT ![s] = view[s][s]]
             one(t) == IF t \in EndedBy(s) THEN [own[t] EXCEPT !.expired = TRUE] ELSE own[t]
             two(t) == IF t \in EndedBy(s) THEN [rows[t] EXCEPT !.expired = TRUE]
                       ELSE IF t = s THEN view[s][s] ELSE rows[t]
  <2>1. ASSUME NEW t \in Logins  PROVE one(t) = two(t)
    <3>1. own[t] = IF t = s THEN view[s][s] ELSE rows[t]
      BY <1>8
    <3> HIDE DEF own
    <3>2. CASE t \in EndedBy(s)
      <4>1. own[t] = rows[t]
        BY <1>6, <3>1, <3>2
      <4> QED  BY <3>2, <4>1
    <3> QED  BY <3>1, <3>2
  <2>2. rows' = [t \in Logins |-> one(t)]
    BY <1>7
  <2> HIDE DEF one, two
  <2>3. rows' = [t \in Logins |-> two(t)]
    BY <2>1, <2>2
  <2> QED  BY <2>3 DEF two
<1>10. /\ \A t \in Logins \ {s} : pc[t] # "inserted"
       /\ pc' = [pc EXCEPT ![s] = "done"] /\ view' = [view EXCEPT ![s] = Never]
       /\ opened' = opened \cup {s} /\ UNCHANGED <<call, now, begun>>
  BY DEF Logged!FinishLogin
<1> QED  BY <1>1, <1>2, <1>5, <1>6, <1>9, <1>10, Zenon

\* What a login leaves of the sessions it has counted.
LEMMA FinishCounts ==
  ASSUME Limits, Inv, NEW s \in Logins, Logged!FinishLogin(s)
  PROVE  /\ Logged!Live(rows') \subseteq Logged!Live(rows) \cup {s}
         /\ Cardinality(Logged!Live(rows') \cap begun[s]) <= MaxActive - 1
<1> DEFINE L == Logged!Live(Seen(s)) \ {s}
           front == {t \in L : Cardinality({u \in L : Logged!Before(Seen(s), u, t)}) < MaxActive - 1}
<1>1. /\ Seen(s) \in Logged!Tables /\ s \notin opened /\ view[s] \in Logged!Tables /\ pc[s] = "inserted"
      /\ \A t \in EndedBy(s) : t # s /\ rows[t] # Never
      /\ rows' = [t \in Logins |-> IF t \in EndedBy(s) THEN [rows[t] EXCEPT !.expired = TRUE]
                                   ELSE IF t = s THEN view[s][s] ELSE rows[t]]
  BY FinishLoginDoes
<1>2. ASSUME NEW t \in Logged!Live(rows')  PROVE t \in Logins /\ t \notin EndedBy(s) /\ (t # s => t \in Logged!Live(rows))
  <2>1. t \in Logins
    BY <1>1, <1>2 DEF Logged!Live
  <2>2. ASSUME t \in EndedBy(s)  PROVE FALSE
    <3>1. rows[t] \in Logged!Session /\ rows'[t] = [rows[t] EXCEPT !.expired = TRUE]
      BY <1>1, <2>1, <2>2 DEF Inv, SessionTypes, Logged!Tables
    <3>2. rows'[t].expired
      BY <3>1 DEF Logged!Session
    <3> QED  BY <1>2, <3>2 DEF Logged!Live
  <2>3. t # s => rows'[t] = rows[t]
    BY <1>1, <2>1, <2>2
  <2> QED  BY <1>2, <2>1, <2>2, <2>3 DEF Logged!Live, Inv, SessionTypes, Logged!Tables
<1>3. ASSUME NEW t \in Logged!Live(rows') \cap begun[s]  PROVE t \in front
  <2>1. t \in Logins /\ t # s /\ t \in Logged!Live(rows) /\ t \notin EndedBy(s)
    BY <1>2 DEF Inv, Older
  <2>2. Seen(s)[t] = view[s][t]
    BY <2>1 DEF Seen, EndedBy
  <2>3. view[s][t] # Never /\ ~view[s][t].expired
    BY <1>1, <1>3, <2>1 DEF Inv, Views, Counting, Logged!Live
  <2>4. t \in L
    BY <2>1, <2>2, <2>3 DEF Logged!Live, Seen
  <2>5. t \notin Logged!Beyond(Seen(s), s)
    BY <2>1 DEF EndedBy
  <2>6. L \in SUBSET Logins
    BY <1>1, LiveOnes
  <2>7. Cardinality({u \in L : Logged!Before(Seen(s), u, t)}) \in Nat
    BY <2>6, SessionsAreFinite
  <2>8. ~(Cardinality({u \in L : Logged!Before(Seen(s), u, t)}) >= MaxActive - 1)
    BY <2>4, <2>5, CountsAlike DEF Logged!Beyond
  <2> QED  BY <2>4, <2>7, <2>8 DEF Limits
<1>4. /\ L \in SUBSET Logins /\ L \subseteq Nat /\ IsFiniteSet(L) /\ MaxActive - 1 \in Nat
      /\ \A t \in L : Seen(s)[t].active \in Nat
  BY <1>1, LiveOnes, SessionsAreFinite DEF Limits
<1>5. IsFiniteSet(front) /\ Cardinality(front) <= MaxActive - 1
  <2> HIDE DEF L
  <2> QED  BY <1>4, FrontIsShort
<1>6. front \in SUBSET Logins /\ Logged!Live(rows') \cap begun[s] \in SUBSET Logins
  BY <1>2, <1>4
<1>7. Cardinality(front) \in Nat /\ Cardinality(Logged!Live(rows') \cap begun[s]) \in Nat
  BY <1>6, SessionsAreFinite
<1>8. Cardinality(Logged!Live(rows') \cap begun[s]) <= Cardinality(front)
  BY <1>3, <1>5, FS_Subset
<1>9. MaxActive \in Nat
  BY DEF Limits
<1> HIDE DEF front
<1> QED  BY <1>2, <1>5, <1>7, <1>8, <1>9

\* A login commits its row and ends what it found too many.
LEMMA FinishStep ==
  ASSUME Limits, Inv, NEW s \in Logins, Logged!FinishLogin(s)
  PROVE  Inv'
<1>1. /\ pc[s] = "inserted" /\ s \notin opened /\ view[s] \in Logged!Tables /\ view[s][s] \in Logged!Session /\ ~view[s][s].expired
      /\ \A t \in EndedBy(s) : t # s /\ rows[t] # Never
      /\ rows' = [t \in Logins |-> IF t \in EndedBy(s) THEN [rows[t] EXCEPT !.expired = TRUE]
                                   ELSE IF t = s THEN view[s][s] ELSE rows[t]]
      /\ pc' = [pc EXCEPT ![s] = "done"] /\ view' = [view EXCEPT ![s] = Never] /\ opened' = opened \cup {s}
      /\ UNCHANGED <<call, now, begun>>
  BY FinishLoginDoes
<1>2. ASSUME NEW t \in Logins, t # s
      PROVE  /\ rows'[t] = rows[t] \/ (rows[t] \in Logged!Session /\ rows'[t] = [rows[t] EXCEPT !.expired = TRUE])
             /\ rows'[t] \in Logged!Session \cup {Never} /\ (rows'[t] # Never <=> rows[t] # Never)
             /\ rows[t] \in Logged!Session => rows'[t].active = rows[t].active /\ (rows[t].expired => rows'[t].expired)
  <2>1. rows[t] \in Logged!Session \cup {Never} /\ Never \notin Logged!Session
    BY DEF Inv, SessionTypes, Logged!Tables, Limits
  <2>2. rows'[t] = rows[t] \/ (rows[t] \in Logged!Session /\ rows'[t] = [rows[t] EXCEPT !.expired = TRUE])
    BY <1>1, <1>2, <2>1
  <2>3. ASSUME rows[t] \in Logged!Session
        PROVE  LET r == [rows[t] EXCEPT !.expired = TRUE] IN r \in Logged!Session /\ r.active = rows[t].active /\ r.expired
    BY <2>3 DEF Logged!Session
  <2> QED  BY <2>1, <2>2, <2>3
<1>3. rows'[s] = view[s][s] /\ rows'[s] # Never
  BY <1>1 DEF Limits
<1>4. SessionTypes'
  <2>1. rows' \in Logged!Tables
    BY <1>1, <1>2, <1>3 DEF Logged!Tables
  <2> QED  BY <1>1, <2>1 DEF Inv, SessionTypes, Phases
<1>5. Committed'
  <2>1. view[s][s].active <= now
    BY <1>1 DEF Inv, Views, Counting
  <2>2. \A t \in Logins : (rows'[t] # Never <=> t \in opened') /\ (t \in opened' <=> pc'[t] = "done")
    BY <1>1, <1>2, <1>3 DEF Inv, SessionTypes, Committed
  <2>3. ASSUME NEW t \in opened'  PROVE rows'[t].active <= now'
    <3>1. CASE t = s
      BY <1>1, <1>3, <2>1, <3>1
    <3>2. CASE t # s
      <4>1. t \in opened /\ t \in Logins /\ rows[t] \in Logged!Session
        BY <1>1, <3>2 DEF Inv, SessionTypes, Committed, Logged!Tables
      <4> QED  BY <1>1, <1>2, <3>2, <4>1 DEF Inv, Committed
    <3> QED  BY <3>1, <3>2
  <2>4. \A c \in Calls : call'[c] # Never => call'[c].session \in opened' /\ call'[c].at <= now'
    BY <1>1 DEF Inv, Committed
  <2> QED  BY <1>1, <2>2, <2>3, <2>4 DEF Committed
<1>6. Older'
  BY <1>1 DEF Inv, Older
<1>7. Views'
  <2>1. ASSUME NEW m \in Logins, Counting(m)'
        PROVE  m # s /\ pc'[m] = pc[m] /\ view'[m] = view[m] /\ Counting(m)
    BY <1>1, <2>1 DEF Inv, SessionTypes, Counting
  <2>2. ASSUME NEW m \in Logins, NEW t \in begun[m]  PROVE rows[t].expired => rows'[t].expired
    <3>1. t \in opened /\ t \in Logins /\ t # s /\ rows[t] \in Logged!Session
      BY <1>1 DEF Inv, Older, SessionTypes, Committed, Logged!Tables
    <3> QED  BY <1>2, <3>1
  <2> QED  BY <1>1, <2>1, <2>2 DEF Inv, Views
<1>8. Counted'
  <2>1. Logged!Live(rows') \subseteq Logged!Live(rows) \cup {s} /\ Cardinality(Logged!Live(rows') \cap begun[s]) <= MaxActive - 1
    BY FinishCounts
  <2>2. ASSUME NEW m \in Logged!Live(rows'), m # s  PROVE Cardinality(Logged!Live(rows') \cap begun[m]) <= MaxActive - 1
    <3>1. m \in Logged!Live(rows) /\ Logged!Live(rows) \in SUBSET Logins /\ s \notin begun[m]
      BY <1>1, <2>1, <2>2, LiveOnes DEF Inv, SessionTypes, Older
    <3>2. Logged!Live(rows') \cap begun[m] \subseteq Logged!Live(rows) \cap begun[m]
      BY <2>1, <3>1
    <3>3. Logged!Live(rows) \cap begun[m] \in SUBSET Logins /\ Logged!Live(rows') \cap begun[m] \in SUBSET Logins
      BY <3>1, <3>2
    <3>4. Cardinality(Logged!Live(rows') \cap begun[m]) <= Cardinality(Logged!Live(rows) \cap begun[m])
      BY <3>2, <3>3, SessionsAreFinite, FS_Subset
    <3>5. Cardinality(Logged!Live(rows) \cap begun[m]) <= MaxActive - 1
      BY <3>1 DEF Inv, Counted
    <3>6. Cardinality(Logged!Live(rows') \cap begun[m]) \in Nat /\ Cardinality(Logged!Live(rows) \cap begun[m]) \in Nat /\ MaxActive \in Nat
      BY <3>3, SessionsAreFinite DEF Limits
    <3> QED  BY <3>4, <3>5, <3>6
  <2> QED  BY <1>1, <2>1, <2>2 DEF Counted
<1> QED  BY <1>4, <1>5, <1>6, <1>7, <1>8 DEF Inv

-----------------------------------------------------------------------------
\* Logins that saw each other among the live: the last to begin has counted the rest.
LEMMA LimitHolds == ASSUME Limits, Inv PROVE Logged!SessionsLimited
<1> DEFINE live == Logged!Live(rows)
           loose == {t \in live : \E s \in live \ {t} : t \notin begun[s] /\ s \notin begun[t]}
           N == live \ loose
<1>1. live \in SUBSET Logins /\ live \subseteq opened
  BY LiveOnes DEF Inv, SessionTypes, Committed, Logged!Live
<1>2. /\ IsFiniteSet(live) /\ Cardinality(live) \in Nat
      /\ IsFiniteSet(loose) /\ Cardinality(loose) \in Nat
      /\ IsFiniteSet(N) /\ Cardinality(N) \in Nat
  <2>1. live \in SUBSET Logins /\ loose \in SUBSET Logins /\ N \in SUBSET Logins
    BY <1>1
  <2> HIDE DEF live, loose, N
  <2> QED  BY <2>1, SessionsAreFinite
<1>3. Cardinality(live) = Cardinality(N) + Cardinality(loose)
  <2>1. live \cap loose = loose
    OBVIOUS
  <2> HIDE DEF loose, live
  <2>2. Cardinality(live \ loose) = Cardinality(live) - Cardinality(live \cap loose)
    BY <1>2, FS_Difference
  <2>3. N = live \ loose
    OBVIOUS
  <2> HIDE DEF N
  <2>4. Cardinality(N) = Cardinality(live) - Cardinality(loose)
    BY <2>1, <2>2, <2>3
  <2> QED  BY <1>2, <2>4
<1>4. Cardinality(N) <= MaxActive
  <2>1. CASE N = {}
    <3>1. Cardinality(N) = 0
      BY <1>2, <2>1, FS_EmptySet
    <3> QED  BY <3>1 DEF Limits
  <2>2. CASE N # {}
    <3> DEFINE f == [t \in N |-> Cardinality(begun[t])]
    <3>1. ASSUME NEW t \in Logins  PROVE IsFiniteSet(begun[t]) /\ Cardinality(begun[t]) \in 0 .. Cardinality(Logins)
      <4>1. begun[t] \in SUBSET Logins
        BY DEF Inv, SessionTypes
      <4> QED  BY <4>1, FS_Subset, FS_CardinalityType DEF Limits
    <3>2. f \in [N -> 0 .. Cardinality(Logins)] /\ Cardinality(Logins) \in Nat
      BY <1>1, <3>1, FS_CardinalityType DEF Limits
    <3>3. PICK m \in N : \A t \in N : f[t] <= f[m]
      <4> HIDE DEF N, f
      <4> QED  BY <2>2, <3>2, Peak
    <3>4. ASSUME NEW t \in N, t # m  PROVE t \in begun[m]
      <4>1. SUFFICES ASSUME t \notin begun[m]  PROVE FALSE
        OBVIOUS
      <4>2. m \in begun[t]
        BY <3>4, <4>1
      <4>3. begun[m] \subseteq begun[t] /\ m \notin begun[m] /\ t \in Logins /\ m \in Logins
        BY <1>1, <4>2 DEF Inv, Older
      <4>4. Cardinality(begun[m] \cup {m}) <= Cardinality(begun[t])
        BY <3>1, <4>2, <4>3, FS_Subset
      <4>5. Cardinality(begun[m] \cup {m}) = Cardinality(begun[m]) + 1
        BY <3>1, <4>3, FS_AddElement
      <4> QED  BY <3>1, <3>3, <4>3, <4>4, <4>5
    <3>5. N \ {m} \subseteq live \cap begun[m] /\ m \in live
      BY <3>4
    <3>6. Cardinality(live \cap begun[m]) <= MaxActive - 1
      BY <3>5 DEF Inv, Counted
    <3> HIDE DEF N, live
    <3>7. IsFiniteSet(live \cap begun[m]) /\ Cardinality(live \cap begun[m]) \in Nat
      BY <1>2, FS_Intersection, FS_CardinalityType
    <3>8. Cardinality(N \ {m}) <= Cardinality(live \cap begun[m]) /\ Cardinality(N \ {m}) = Cardinality(N) - 1
      BY <1>2, <3>3, <3>5, <3>7, FS_Subset, FS_RemoveElement
    <3> QED  BY <1>2, <3>6, <3>7, <3>8 DEF Limits
  <2> QED  BY <2>1, <2>2
<1>5. Cardinality(live) <= MaxActive + Cardinality(loose)
  <2> HIDE DEF live, loose, N
  <2> QED  BY <1>2, <1>3, <1>4 DEF Limits
<1> QED  BY <1>5, CountsAlike DEF Logged!SessionsLimited

\* A login ends what it counts too many, and of those it counts its own is the newest.
LEMMA FinishSpares ==
  ASSUME Limits, Inv, NEW t \in Logins, Logged!FinishLogin(t),
         NEW s \in Logged!Live(rows), rows'[s].expired, Logged!Idle(rows[s]) <= Timeout, view[t][s] = rows[s]
  PROVE  Cardinality({o \in Logged!Live(view[t]) \ {s} : view[t][o].active >= rows[s].active}) >= MaxActive
<1> DEFINE front == {u \in Logged!Live(Seen(t)) \ {t} : Logged!Before(Seen(t), u, s)}
           recent == {o \in Logged!Live(view[t]) \ {s} : view[t][o].active >= rows[s].active}
<1>1. /\ pc[t] = "inserted" /\ t \notin opened /\ view[t] \in Logged!Tables /\ view[t][t] \in Logged!Session /\ ~view[t][t].expired
      /\ Seen(t) \in Logged!Tables
      /\ rows' = [u \in Logins |-> IF u \in EndedBy(t) THEN [rows[u] EXCEPT !.expired = TRUE]
                                   ELSE IF u = t THEN view[t][t] ELSE rows[u]]
  BY FinishLoginDoes
<1>2. s \in Logins /\ s \in opened /\ s # t /\ rows[s] \in Logged!Session /\ ~rows[s].expired /\ rows[s].active \in Nat
  BY <1>1, LiveOnes DEF Inv, SessionTypes, Committed, Logged!Live
<1>3. s \notin IdleOnes
  <2>1. ~(Logged!Idle(rows[s]) > Timeout)
    BY <1>2 DEF Logged!Idle, Inv, SessionTypes, Limits
  <2> QED  BY <2>1 DEF IdleOnes
<1>4. s \in EndedBy(t)
  BY <1>1, <1>2
<1>5. Cardinality(front) >= MaxActive - 1
  BY <1>3, <1>4, CountsAlike DEF EndedBy, Logged!Beyond
<1>6. Seen(t)[s] = rows[s]
  BY <1>2, <1>3 DEF Seen
<1>7. front \cup {t} \subseteq recent /\ t \notin front
  <2>1. ASSUME NEW u \in front  PROVE u \in recent
    <3>1. u \in Logins /\ Seen(t)[u] \in Logged!Session /\ ~Seen(t)[u].expired /\ Seen(t)[u].active \in Nat
      BY <1>1, LiveOnes
    <3>2. u \notin IdleOnes
      <4>1. ASSUME u \in IdleOnes  PROVE FALSE
        <5>1. rows[u] \in Logged!Session
          BY <4>1, LiveOnes DEF IdleOnes, Inv, SessionTypes
        <5>2. Seen(t)[u] = [rows[u] EXCEPT !.expired = TRUE]
          BY <3>1, <4>1 DEF Seen
        <5> QED  BY <3>1, <5>1, <5>2 DEF Logged!Session
      <4> QED  BY <4>1
    <3>3. Seen(t)[u] = view[t][u]
      BY <3>1, <3>2 DEF Seen
    <3>4. Logged!Before(Seen(t), u, s)
      OBVIOUS
    <3>5. view[t][u].active >= rows[s].active /\ u # s
      BY <1>2, <1>6, <3>1, <3>3, <3>4 DEF Logged!Before, Limits
    <3>6. u \in Logged!Live(view[t])
      BY <1>1, <3>1, <3>3 DEF Logged!Live, Logged!Tables, Limits
    <3> QED  BY <3>5, <3>6
  <2>2. t \in recent
    <3>1. view[t][s] # Never
      BY <1>2 DEF Limits
    <3>2. s \in begun[t]
      BY <1>1, <1>2, <3>1 DEF Inv, Views, Counting
    <3>3. view[t][t].active >= view[t][s].active
      <4>1. view[t][s].active <= view[t][t].active
        BY <1>1, <3>2 DEF Inv, Views, Counting
      <4>2. view[t][t].active \in Nat
        BY <1>1 DEF Logged!Session
      <4> QED  BY <1>2, <4>1, <4>2
    <3>4. t \in Logged!Live(view[t])
      BY <1>1 DEF Logged!Live, Logged!Tables, Limits
    <3> QED  BY <1>2, <3>3, <3>4
  <2> QED  BY <2>1, <2>2
<1>8. front \in SUBSET Logins /\ recent \in SUBSET Logins
  BY <1>1, LiveOnes
<1> HIDE DEF front, recent
<1>9. IsFiniteSet(front) /\ IsFiniteSet(recent) /\ Cardinality(front) \in Nat /\ Cardinality(recent) \in Nat
  BY <1>8, SessionsAreFinite
<1>10. Cardinality(front \cup {t}) = Cardinality(front) + 1
  BY <1>7, <1>9, FS_AddElement
<1>11. Cardinality(front \cup {t}) <= Cardinality(recent)
  BY <1>7, <1>9, FS_Subset
<1>12. Cardinality(recent) >= MaxActive
  BY <1>5, <1>9, <1>10, <1>11 DEF Limits
<1> QED  BY <1>12 DEF recent

\* What UsedStays excuses is all that ends a session in use.
LEMMA SparedStep ==
  ASSUME Limits, Inv, [Logged!Next]_(Logged!vars)
  PROVE  Logged!UsedStays
<1> SUFFICES ASSUME NEW s \in Logged!Live(rows), rows'[s].expired, Logged!Idle(rows[s]) <= Timeout
             PROVE  \/ rows'[s].active = now
                    \/ \E c \in Calls : call[c] # Never /\ call[c].session = s /\ call'[c] = Never
                    \/ \E t \in opened' \ opened :
                         \/ view[t][s] # rows[s]
                         \/ Cardinality({o \in Logged!Live(view[t]) \ {s} : view[t][o].active >= rows[s].active}) >= MaxActive
  BY CountsAlike DEF Logged!UsedStays
<1>1. s \in Logins /\ rows[s] \in Logged!Session /\ ~rows[s].expired
  BY LiveOnes DEF Inv, SessionTypes, Logged!Live
<1>2. rows' # rows
  BY <1>1
<1>3. CASE \E t \in Logins : Logged!FinishLogin(t)
  <2>1. PICK t \in Logins : Logged!FinishLogin(t)
    BY <1>3
  <2>2. t \in opened' \ opened
    BY <2>1, FinishLoginDoes
  <2> QED  BY <2>1, <2>2, FinishSpares
<1>4. CASE \E c \in Calls : Logged!Answer(c) \/ Logged!Logout(c)
  <2>1. PICK c \in Calls : Logged!Answer(c) \/ Logged!Logout(c)
    BY <1>4
  <2>2. call[c] # Never /\ call'[c] = Never
    BY <2>1 DEF Logged!Answer, Logged!Logout, Inv, SessionTypes
  <2>3. call[c] \in CallRows
    BY <2>2 DEF Inv, SessionTypes
  <2>4. \A u \in Logins : u # call[c].session => rows'[u] = rows[u]
    BY <2>1, <2>3 DEF Logged!Answer, Logged!Logout, Inv, SessionTypes, Logged!Tables
  <2>5. call[c].session = s
    BY <1>1, <2>4
  <2> QED  BY <2>2, <2>5
<1>5. CASE UNCHANGED rows
  BY <1>2, <1>5
<1> QED
  BY <1>3, <1>4, <1>5 DEF Logged!Next, Logged!vars, Logged!Tick, Logged!BeginLogin, Logged!Insert, Logged!FailLogin, Logged!Read, Logged!Drop

(* With any number of logins, calls and sessions allowed, the sessions of a user stay within *)
(* their limit, and one in use is not ended for it, but for what SessionsKept excuses.       *)
THEOREM SessionsAreKept ==
  ASSUME Limits
  PROVE  Logged!Spec => [](Logged!TypeOK /\ Logged!SessionsLimited) /\ Logged!SessionsKept
<1>1. Logged!Init => Inv
  <2> SUFFICES ASSUME Logged!Init  PROVE Inv
    OBVIOUS
  <2>1. SessionTypes
    BY DEF Logged!Init, SessionTypes, Logged!Tables, Phases, Limits
  <2>2. Logged!Live(rows) = {}
    BY DEF Logged!Init, Logged!Live
  <2>3. Committed /\ Older /\ Views /\ Counted
    BY <2>2 DEF Logged!Init, Committed, Older, Views, Counting, Counted
  <2> QED  BY <2>1, <2>3 DEF Inv
<1>2. Inv /\ [Logged!Next]_(Logged!vars) => Inv'
  <2>1. ASSUME Inv, UNCHANGED Logged!vars  PROVE Inv'
    BY <2>1 DEF Logged!vars, Inv, SessionTypes, Committed, Older, Views, Counting, Counted, Logged!Live
  <2> QED  BY <2>1, TickStep, BeginStep, InsertStep, FinishStep, FailStep, CallStep DEF Logged!Next
<1>3. Inv => Logged!TypeOK /\ Logged!SessionsLimited
  <2>1. Inv => Logged!TypeOK
    BY DEF Inv, SessionTypes, Logged!TypeOK, Phases, CallRows
  <2> QED  BY <2>1, LimitHolds
<1>4. Inv /\ [Logged!Next]_(Logged!vars) => Logged!SessionsLimited' /\ Logged!UsedStays
  <2>1. Inv' => Logged!SessionsLimited'
    BY LimitHolds, PTL
  <2> QED  BY <1>2, <2>1, SparedStep
<1> QED  BY <1>1, <1>2, <1>3, <1>4, PTL DEF Logged!Spec, Logged!SessionsKept
=============================================================================
