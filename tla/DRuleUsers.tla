----------------------------- MODULE DRuleUsers -----------------------------
(***************************************************************************)
(* The users of a DRule (src/drule2/drule/drule.go, functions.go): their   *)
(* accounts, which are roles in the area INSIDE_DMZ of its store, the table*)
(* loginuser of those who have logged in, what they may do, and the        *)
(* pausing of the DRule to set the operators and routes of its areas.      *)
(*                                                                         *)
(* Every connection is served by a goroutine of its own (NSTexec).  A      *)
(* request goes through the tables: the method of the client's operator,   *)
(* its code, the handler.  A handler takes a step for every call on the    *)
(* store and for every use of the table, and others work in between.  The  *)
(* store is taken to do what TRule is meant to (RoleStore).                *)
(*                                                                         *)
(* Passwords and addresses are left out: who logs in has the right one.    *)
(* No request names INSIDE_DMZ itself.                                     *)
(***************************************************************************)
EXTENDS Naturals, FiniteSets

CONSTANTS
    Users,          \* names
    RootUser,       \* ROOT_USER, one of them
    Areas,
    Operators,      \* names of other DRules
    Unids,          \* drawn by random.Unid at each login
    Workers,        \* connections being served
    Nil,
    Called,         \* the methods of Operator that clients call
    MaxAsks         \* bound: requests made

O == INSTANCE OperatorRequests
M == INSTANCE ManageHandlers
N == INSTANCE NormalHandlers

Authorities == {"NO", "ROOT", "NORMAL"}
Powers == {"none", "read", "write"}
NoPower == [a \in Areas |-> "none"]

\* DRuleUser: a role of its own for each user.
Accounts == [auth : Authorities, power : [Areas -> Powers]]

\* Those that a client sends without a unid.
Logins == {"UserLogin", "UserLoginSha1"}

ASSUME DRuleUsersAssumption ==
    /\ RootUser \in Users
    /\ Nil \notin Users \cup Accounts
    /\ Called \subseteq DOMAIN O!Methods
    /\ MaxAsks \in Nat

VARIABLES
    account,        \* DRuleUser of each user: Authority, WRable
    areas,          \* areas of the store
    loginuser,      \* of each user: unid, authority, wrable
    known,          \* the unids that clients were given, with their user
    closed,
    operator_set, router_set,   \* the roles under OPERATOR_ROOT and AREA_DRULE_ROOT
    operators, areas_routed,    \* and what Start made of them
    doing,          \* the request each connection is at
    panicked,       \* a goroutine has panicked, and the process is gone
    asks,           \* requests made (the bound counts them)
    granted,        \* history: what users with the authority of root have given,
    used,           \* what was let through to the areas,
    overlapped,     \* whether two requests were ever at work at once,
    removed         \* and whether a user was ever deleted

storeVars == <<account, areas, operator_set, router_set>>
runVars == <<closed, operators, areas_routed>>
tableVars == <<loginuser, known>>
historyVars == <<granted, used, overlapped, removed>>
vars == <<storeVars, runVars, tableVars, doing, panicked, asks, historyVars>>

Free == [pc |-> "free"]

Grants ==
    {<<u, x>> : u \in Users, x \in Authorities} \cup
    {<<u, a, p>> : u \in Users, a \in Areas, p \in Powers}

TypeOK ==
    /\ account \in [Users -> Accounts \cup {Nil}]
    /\ areas \subseteq Areas
    /\ \A u \in Users : loginuser[u] # Nil =>
          /\ loginuser[u].unid \in [Unids -> {"none", "active", "old"}]
          /\ \E s \in Unids : loginuser[u].unid[s] # "none"
          /\ loginuser[u].auth \in Authorities
          /\ loginuser[u].power \in [Areas -> Powers]
    /\ known \subseteq Users \X Unids
    /\ closed \in BOOLEAN
    /\ operator_set \subseteq Operators
    /\ router_set \subseteq Areas \X Operators
    /\ operators \subseteq Operators
    /\ areas_routed \subseteq Areas \X Operators
    /\ panicked \in BOOLEAN
    /\ asks \in 0 .. MaxAsks
    /\ granted \subseteq Grants
    /\ used \subseteq Users \X Areas \X Powers

\* NewDRule: the root user, and what there is of users and areas on the disk; nobody
\* is logged in.  The program around it starts the DRule, or leaves that to a client.
Init ==
    /\ \E some \in SUBSET (Users \ {RootUser}) :
          account = [u \in Users |->
                        IF u \in some \cup {RootUser}
                        THEN [auth |-> IF u = RootUser THEN "ROOT" ELSE "NORMAL",
                              power |-> NoPower]
                        ELSE Nil]
    /\ areas \in SUBSET Areas
    /\ loginuser = [u \in Users |-> Nil]
    /\ known = {}
    /\ closed \in BOOLEAN
    /\ operator_set = {} /\ router_set = {}
    /\ operators = {} /\ areas_routed = {}
    /\ doing = [w \in Workers |-> Free]
    /\ panicked = FALSE
    /\ asks = 0
    /\ granted = {<<u, account[u].auth>> : u \in {x \in Users : account[x] # Nil}}
    /\ used = {}
    /\ overlapped = FALSE
    /\ removed = FALSE

----------------------------------------------------------------------------
(* Requests.                                                               *)

CodeOf(method) == O!Methods[method].operate

Manages(method) == O!Methods[method].zone # "NORMAL"

HandlerOf(method) == M!Dispatch[CodeOf(method)]

AboutUser == {"UserAdd", "UserDel", "UserAreaAlert", "UserAreaDelete"}

AboutArea ==
    {"AreaAdd", "AreaDel", "AreaExist", "AreaRename", "UserAreaAlert", "UserAreaDelete",
     "AreaRouterSet", "AreaRouterDelete"}

AboutOperator == {"DRuleOperatorSet", "DRuleOperatorDelete", "AreaRouterSet", "AreaRouterDelete"}

\* The requests of a method that a user may send: what their data say, and that the
\* handler has not read anything yet.
RequestsOf(method, user, unid) ==
    [ pc       : {"asked"}, method : {method}, user : {user}, unid : {unid},
      whom     : IF method \in AboutUser THEN Users ELSE {Nil},
      area     : IF method \in AboutArea \/ ~Manages(method) THEN Areas ELSE {Nil},
      operator : IF method \in AboutOperator THEN Operators ELSE {Nil},
      auth     : IF method = "UserAdd" THEN {"ROOT", "NORMAL"} ELSE {"NO"},
      power    : IF method = "UserAreaAlert" THEN {"read", "write"} ELSE {"none"},
      read     : {[auth |-> "NO", power |-> NoPower]} ]

\* A client logs in, or sends a request with a unid that it was given.
Ask(w, method) ==
    /\ doing[w] = Free
    /\ asks < MaxAsks
    /\ asks' = asks + 1
    /\ \E u \in Users, s \in Unids :
          /\ (<<u, s>> \in known) # (method \in Logins)
          /\ method \in Logins => \A x \in Users : <<x, s>> \notin known
          /\ \E r \in RequestsOf(method, u, s) : doing' = [doing EXCEPT ![w] = r]
    /\ overlapped' = (overlapped \/ \E x \in Workers \ {w} : doing[x] # Free)
    /\ UNCHANGED <<storeVars, runVars, tableVars, panicked, granted, used, removed>>

At(w, pc) == ~panicked /\ doing[w].pc = pc

Goes(w, pc) == doing' = [doing EXCEPT ![w].pc = pc]

Done(w) == doing' = [doing EXCEPT ![w] = Free]

\* The nil pointer of a user that is not in the table any more.
Panics(w) ==
    /\ panicked' = TRUE
    /\ Done(w)
    /\ UNCHANGED <<storeVars, runVars, tableVars, asks, historyVars>>

----------------------------------------------------------------------------
(* The table of logins.                                                    *)

LoggedIn(u, s) == loginuser[u] # Nil /\ loginuser[u].unid[s] = "active"

\* Mutant of Without: the user stays.
WithoutUnid(u, s) == [loginuser EXCEPT ![u].unid[s] = "none"]

\* The unid goes, and the user with the last.
Without(u, s) ==
    LET l == [loginuser[u] EXCEPT !.unid[s] = "none"]
    IN  [loginuser EXCEPT ![u] = IF \A x \in Unids : l.unid[x] = "none" THEN Nil ELSE l]

\* checkUserLogin: a unid that is too old is removed, another is renewed.
checkUserLogin(u, s) ==
    IF loginuser[u] # Nil /\ loginuser[u].unid[s] = "old"
    THEN loginuser' = Without(u, s)
    ELSE UNCHANGED loginuser

\* Mutant of MayManage: the authority is not looked at.
MayManageLoggedIn(h, r) == h.login => LoggedIn(r.user, r.unid)

\* The user may ask for what the handler does.
MayManage(h, r) ==
    /\ h.login => LoggedIn(r.user, r.unid)
    /\ h.root => loginuser[r.user].auth = "ROOT"
    /\ h.own => r.whom = r.user

\* What a request of root gives, and to whom.
Gives(r) ==
    IF LoggedIn(r.user, r.unid) /\ loginuser[r.user].auth = "ROOT"
    THEN CASE r.method = "UserAdd" -> {<<r.whom, r.auth>>}
           [] r.method = "UserAreaAlert" -> {<<r.whom, r.area, r.power>>}
           [] OTHER -> {}
    ELSE {}

\* The handler looks at the pause, at the login and at the authority.
StartManage(w) ==
    LET r == doing[w]
        h == HandlerOf(r.method)
    IN  /\ At(w, "asked") /\ Manages(r.method)
        /\ IF h.paused /\ ~closed
           THEN Done(w) /\ UNCHANGED <<loginuser, granted>>
           ELSE /\ IF MayManage(h, r) THEN Goes(w, h.does) ELSE Done(w)
                /\ IF h.login THEN checkUserLogin(r.user, r.unid) ELSE UNCHANGED loginuser
                /\ granted' = granted \cup Gives(r)
        /\ UNCHANGED <<storeVars, runVars, known, panicked, asks, used, overlapped, removed>>

\* operateNormal: closed, then the login.
StartNormal(w) ==
    LET r == doing[w]
    IN  /\ At(w, "asked") /\ ~Manages(r.method)
        /\ IF closed
           THEN Done(w) /\ UNCHANGED loginuser
           ELSE /\ IF LoggedIn(r.user, r.unid) THEN Goes(w, "power") ELSE Done(w)
                /\ checkUserLogin(r.user, r.unid)
        /\ UNCHANGED <<storeVars, runVars, known, panicked, asks, historyVars>>

\* checkUserNormalPower, and the request goes through to the area.
CheckPower(w) ==
    LET r == doing[w]
        needs == IF N!Dispatch[CodeOf(r.method)].writes THEN "write" ELSE "read"
        has == loginuser[r.user].power[r.area]
    IN  /\ At(w, "power")
        /\ IF loginuser[r.user] = Nil
           THEN Panics(w)
           ELSE /\ used' = IF has \in {needs, "write"} THEN used \cup {<<r.user, r.area, needs>>}
                                                       ELSE used
                /\ Done(w)
                /\ UNCHANGED <<storeVars, runVars, tableVars, panicked, asks, granted,
                               overlapped, removed>>

\* An hour passes without a request.
Age(u, s) ==
    /\ ~panicked
    /\ LoggedIn(u, s)
    /\ loginuser' = [loginuser EXCEPT ![u].unid[s] = "old"]
    /\ UNCHANGED <<storeVars, runVars, known, doing, panicked, asks, historyVars>>

----------------------------------------------------------------------------
(* Logging in and out.                                                     *)

Reads(w, field, value, pc) ==
    doing' = [doing EXCEPT ![w].read[field] = value, ![w].pc = pc]

\* UserLogin: is there such a user?  Then its Authority and its WRable, where a user
\* that is gone counts as one without.
UserLogin(w) ==
    LET u == doing[w].user
    IN  /\ \/ /\ At(w, "UserLogin")
              /\ IF account[u] = Nil THEN Done(w) ELSE Goes(w, "authority")
           \/ /\ At(w, "authority")
              /\ Reads(w, "auth", IF account[u] = Nil THEN "NO" ELSE account[u].auth, "wrable")
           \/ /\ At(w, "wrable")
              /\ Reads(w, "power", IF account[u] = Nil THEN NoPower ELSE account[u].power, "enter")
        /\ UNCHANGED <<storeVars, runVars, tableVars, panicked, asks, historyVars>>

\* Into the table: a user that is there keeps its authority.
EnterLogin(w) ==
    LET u == doing[w].user
        s == doing[w].unid
        new == [unid |-> [x \in Unids |-> IF x = s THEN "active" ELSE "none"],
                auth |-> doing[w].read.auth, power |-> doing[w].read.power]
    IN  /\ At(w, "enter")
        /\ \A x \in Users : <<x, s>> \notin known
        /\ known' = known \cup {<<u, s>>}
        /\ loginuser' = [loginuser EXCEPT ![u] =
                            IF @ = Nil THEN new
                            ELSE [@ EXCEPT !.unid[s] = "active", !.power = new.power]]
        /\ Done(w)
        /\ UNCHANGED <<storeVars, runVars, panicked, asks, historyVars>>

UserLogout(w) ==
    LET r == doing[w]
    IN  /\ At(w, "UserLogout")
        /\ IF loginuser[r.user] = Nil
           THEN Panics(w)
           ELSE /\ loginuser' = Without(r.user, r.unid)
                /\ Done(w)
                /\ UNCHANGED <<storeVars, runVars, known, panicked, asks, historyVars>>

----------------------------------------------------------------------------
(* Accounts and areas.                                                     *)

\* UserAdd: look whether there is one of that name, then a transaction that stores it.
UserAdd(w) ==
    LET r == doing[w]
    IN  /\ \/ /\ At(w, "UserAdd")
              /\ IF account[r.whom] # Nil THEN Done(w) ELSE Goes(w, "store")
              /\ UNCHANGED account
           \/ /\ At(w, "store")
              /\ account' = [account EXCEPT ![r.whom] = [auth |-> r.auth, power |-> NoPower]]
              /\ Done(w)
        /\ UNCHANGED <<areas, operator_set, router_set, runVars, tableVars, panicked, asks, historyVars>>

\* man_userDel, UserDelete: neither root nor oneself; the table is not looked at.
UserDelete(w) ==
    LET r == doing[w]
    IN  /\ At(w, "UserDelete")
        /\ Done(w)
        /\ IF r.whom \in Users \ {RootUser, r.user, Nil} /\ account[r.whom] # Nil
           THEN account' = [account EXCEPT ![r.whom] = Nil] /\ removed' = TRUE
           ELSE UNCHANGED <<account, removed>>
        /\ UNCHANGED <<areas, operator_set, router_set, runVars, tableVars, panicked, asks,
                       granted, used, overlapped>>

\* Mutant of AreaAddUser: who is logged in keeps the powers of the login.
AreaAddUserOnDiskOnly(w) ==
    LET r == doing[w]
    IN  /\ \/ /\ At(w, "AreaAddUser")
              /\ IF account[r.whom] = Nil \/ r.area \notin areas \/ account[r.whom].auth = "ROOT"
                 THEN Done(w) ELSE Goes(w, "powers")
              /\ UNCHANGED <<account, loginuser>>
           \/ /\ At(w, "powers")
              /\ IF account[r.whom] = Nil THEN Done(w)
                 ELSE Reads(w, "power", [account[r.whom].power EXCEPT ![r.area] = r.power], "write")
              /\ UNCHANGED <<account, loginuser>>
           \/ /\ At(w, "write")
              /\ IF account[r.whom] = Nil
                 THEN UNCHANGED account
                 ELSE account' = [account EXCEPT ![r.whom].power = r.read.power]
              /\ Done(w)
              /\ UNCHANGED loginuser
        /\ UNCHANGED <<areas, operator_set, router_set, runVars, known, panicked, asks, historyVars>>

\* AreaAddUser: user and area are there, and the user is not of the authority of root
\* (three reads that only decide whether to go on); WRable is read, written back with
\* the change, and set in the table where the user is logged in.
AreaAddUser(w) ==
    LET r == doing[w]
    IN  /\ \/ /\ At(w, "AreaAddUser")
              /\ IF account[r.whom] = Nil \/ r.area \notin areas \/ account[r.whom].auth = "ROOT"
                 THEN Done(w) ELSE Goes(w, "powers")
              /\ UNCHANGED <<account, loginuser>>
           \/ /\ At(w, "powers")
              /\ IF account[r.whom] = Nil THEN Done(w)
                 ELSE Reads(w, "power", [account[r.whom].power EXCEPT ![r.area] = r.power], "write")
              /\ UNCHANGED <<account, loginuser>>
           \/ /\ At(w, "write")
              /\ IF account[r.whom] = Nil
                 THEN Done(w) /\ UNCHANGED account
                 ELSE /\ account' = [account EXCEPT ![r.whom].power = r.read.power]
                      /\ Goes(w, "table")
              /\ UNCHANGED loginuser
           \/ /\ At(w, "table")
              /\ IF loginuser[r.whom] = Nil
                 THEN UNCHANGED loginuser
                 ELSE loginuser' = [loginuser EXCEPT ![r.whom].power = r.read.power]
              /\ Done(w)
              /\ UNCHANGED account
        /\ UNCHANGED <<areas, operator_set, router_set, runVars, known, panicked, asks, historyVars>>

\* The store makes an area, and deletes one with all that is in it; the powers that
\* users have there stay.
AreaAdd(w) ==
    /\ At(w, "AreaAdd")
    /\ areas' = areas \cup {doing[w].area}
    /\ Done(w)
    /\ UNCHANGED <<account, operator_set, router_set, runVars, tableVars, panicked, asks, historyVars>>

AreaDelete(w) ==
    /\ At(w, "AreaDelete")
    /\ areas' = areas \ {doing[w].area}
    /\ Done(w)
    /\ UNCHANGED <<account, operator_set, router_set, runVars, tableVars, panicked, asks, historyVars>>

----------------------------------------------------------------------------
(* Operators and routes, and starting and pausing.                         *)

OperatorSet(w) ==
    /\ At(w, "OperatorSet")
    /\ operator_set' = operator_set \cup {doing[w].operator}
    /\ Done(w)
    /\ UNCHANGED <<account, areas, router_set, runVars, tableVars, panicked, asks, historyVars>>

OperatorDelete(w) ==
    /\ At(w, "OperatorDelete")
    /\ operator_set' = operator_set \ {doing[w].operator}
    /\ Done(w)
    /\ UNCHANGED <<account, areas, router_set, runVars, tableVars, panicked, asks, historyVars>>

\* The route of an area goes to one operator here.
Routed(routes, a, new) == {r \in routes : r[1] # a} \cup new

AreaRouterSet(w) ==
    LET new == {<<doing[w].area, doing[w].operator>>}
    IN  /\ At(w, "AreaRouterSet")
        /\ router_set' = Routed(router_set, doing[w].area, new)
        /\ areas_routed' = Routed(areas_routed, doing[w].area, new)
        /\ Done(w)
        /\ UNCHANGED <<account, areas, operator_set, closed, operators, tableVars, panicked,
                       asks, historyVars>>

\* A route that is not stored cannot be deleted, and stays where it is.
AreaRouterDelete(w) ==
    LET a == doing[w].area
    IN  /\ At(w, "AreaRouterDelete")
        /\ IF \E r \in router_set : r[1] = a
           THEN /\ router_set' = Routed(router_set, a, {})
                /\ areas_routed' = Routed(areas_routed, a, {})
           ELSE UNCHANGED <<router_set, areas_routed>>
        /\ Done(w)
        /\ UNCHANGED <<account, areas, operator_set, closed, operators, tableVars, panicked,
                       asks, historyVars>>

RoutesTo(routes) == {r[2] : r \in routes}

\* Mutant of Start: the routes are not looked at.
StartUnlooked(w) ==
    /\ At(w, "Start")
    /\ closed' = FALSE
    /\ operators' = operator_set
    /\ areas_routed' = router_set
    /\ Done(w)
    /\ UNCHANGED <<storeVars, tableVars, panicked, asks, historyVars>>

\* Start of a master: an operator is made for each that is set, which may fail at any
\* of them, then the routes are taken over, up to the first to an operator that is
\* not set.
Start(w) ==
    /\ At(w, "Start")
    /\ IF ~closed
       THEN UNCHANGED runVars
       ELSE \/ /\ operators' \in SUBSET operator_set
               /\ UNCHANGED <<closed, areas_routed>>
            \/ /\ operators' = operator_set
               /\ IF RoutesTo(router_set) \subseteq operator_set
                  THEN closed' = FALSE /\ areas_routed' = router_set
                  ELSE /\ areas_routed' \in SUBSET {r \in router_set : r[2] \in operator_set}
                       /\ UNCHANGED closed
    /\ Done(w)
    /\ UNCHANGED <<storeVars, tableVars, panicked, asks, historyVars>>

\* The operators are closed and dropped, whoever is using them.
Pause(w) ==
    /\ At(w, "Pause")
    /\ closed' = TRUE
    /\ operators' = {}
    /\ Done(w)
    /\ UNCHANGED <<storeVars, areas_routed, tableVars, panicked, asks, historyVars>>

\* What changes nothing that is modelled.
Looks == {"checkUserLogin", "UserPassword", "UserEmail", "UserList", "AreaList",
          "OperatorList", "AreaRouterList", "WorkMode"}

Look(w) ==
    /\ \E does \in Looks : At(w, does)
    /\ Done(w)
    /\ UNCHANGED <<storeVars, runVars, tableVars, panicked, asks, historyVars>>

----------------------------------------------------------------------------
Serve(w) ==
    \/ StartManage(w) \/ StartNormal(w) \/ CheckPower(w)
    \/ UserLogin(w) \/ EnterLogin(w) \/ UserLogout(w)
    \/ UserAdd(w) \/ UserDelete(w) \/ AreaAddUser(w) \/ AreaAdd(w) \/ AreaDelete(w)
    \/ OperatorSet(w) \/ OperatorDelete(w) \/ AreaRouterSet(w) \/ AreaRouterDelete(w)
    \/ Start(w) \/ Pause(w) \/ Look(w)

Next ==
    \/ \E w \in Workers :
          \/ ~panicked /\ \E method \in Called : Ask(w, method)
          \/ Serve(w)
    \/ \E u \in Users, s \in Unids : Age(u, s)

Spec == Init /\ [][Next]_vars

----------------------------------------------------------------------------
(* What must hold.                                                         *)

\* What a user may do, and what was done in an area, goes back to a request of a user
\* who had the authority of root at the time, however requests, logins and deletions
\* overlap: the accounts, the table and what was let through (getUserAuthority in
\* every handler, checkUserNormalPower).
OnlyRootGrants ==
    /\ \A u \in Users : account[u] # Nil => <<u, account[u].auth>> \in granted
    /\ \A u \in Users : loginuser[u] # Nil =>
          /\ loginuser[u].auth # "NO" => <<u, loginuser[u].auth>> \in granted
          /\ \A a \in Areas : loginuser[u].power[a] # "none"
                => <<u, a, loginuser[u].power[a]>> \in granted
    /\ \A x \in used : x \in granted \/ <<x[1], x[2], "write">> \in granted

AtRest == \A w \in Workers : doing[w] = Free

PowersFollow ==
    \A u \in Users : loginuser[u] # Nil =>
        account[u] # Nil /\ loginuser[u].power = account[u].power

\* While requests come one at a time and nobody is deleted, a user who is logged in
\* has the powers of the account (AreaAddUser sets both).
PowersFollowOneAtATime == (AtRest /\ ~overlapped /\ ~removed) => PowersFollow

\* While requests come one at a time, a DRule that is not paused has an operator for
\* every route (Start, and the guards of the handlers that set them).
RoutesHaveOperators == (~overlapped /\ ~closed) => RoutesTo(areas_routed) \subseteq operators
=============================================================================
