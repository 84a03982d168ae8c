-------------------------- MODULE DRuleUsersProofs --------------------------
(***************************************************************************)
(* Theorems about DRuleUsers, for any users, areas, operators and          *)
(* connections, and any number of requests.                                *)
(***************************************************************************)
EXTENDS DRuleUsers, TLAPS

----------------------------------------------------------------------------
(* The tables.                                                             *)

NormalMethods ==
    {"Begin", "ExistRole", "ReadRole", "ReadRoleToMiddleData", "StoreRole",
     "StoreRoleFromMiddleData", "DeleteRole", "WriteFather", "ReadFather", "ReadChildren",
     "WriteChildren", "WriteChild", "DeleteChild", "ExistChild", "ReadFriends", "WriteFriends",
     "WriteFriendStatus", "ReadFriendStatus", "DeleteFriend", "CreateContext", "ExistContext",
     "DropContext", "WriteContext", "ReadContext", "DeleteContextBind", "ReadContextSameBind",
     "ReadContextsName", "WriteContextStatus", "ReadContextStatus", "WriteContexts",
     "ReadContexts", "WriteData", "WriteDataFromByte", "ReadData", "ReadDataToByte"}

ManageMethods ==
    {"Password", "UserAdd", "UserDel", "UserLoginSha1", "UserLogin", "UserLogout", "UserList",
     "AreaAdd", "AreaDel", "AreaExist", "AreaRename", "AreaList", "UserAreaAlert",
     "UserAreaDelete", "DRuleOperatorSet", "DRuleOperatorDelete", "DRuleOperatorList",
     "AreaRouterSet", "AreaRouterDelete", "AreaRouterList", "DRuleModeGet", "DRuleStart",
     "DRulePause"}

LEMMA AllMethods == DOMAIN O!Methods = NormalMethods \cup ManageMethods
BY DEF O!Methods, NormalMethods, ManageMethods

LEMMA NormalZone == \A m \in NormalMethods : ~Manages(m)
<1> USE DEF Manages, O!Methods, O!Request, O!Normal, O!GoingOn
<1>1. ~Manages("Begin")
  BY DEF O!Begin
<1>2. ~Manages("ExistRole")
  BY DEF O!ExistRole
<1>3. ~Manages("ReadRole")
  BY DEF O!ReadRole
<1>4. ~Manages("ReadRoleToMiddleData")
  BY DEF O!ReadRoleToMiddleData
<1>5. ~Manages("StoreRole")
  BY DEF O!StoreRole
<1>6. ~Manages("StoreRoleFromMiddleData")
  BY DEF O!StoreRoleFromMiddleData
<1>7. ~Manages("DeleteRole")
  BY DEF O!DeleteRole
<1>8. ~Manages("WriteFather")
  BY DEF O!WriteFather
<1>9. ~Manages("ReadFather")
  BY DEF O!ReadFather
<1>10. ~Manages("ReadChildren")
  BY DEF O!ReadChildren
<1>11. ~Manages("WriteChildren")
  BY DEF O!WriteChildren
<1>12. ~Manages("WriteChild")
  BY DEF O!WriteChild
<1>13. ~Manages("DeleteChild")
  BY DEF O!DeleteChild
<1>14. ~Manages("ExistChild")
  BY DEF O!ExistChild
<1>15. ~Manages("ReadFriends")
  BY DEF O!ReadFriends
<1>16. ~Manages("WriteFriends")
  BY DEF O!WriteFriends
<1>17. ~Manages("WriteFriendStatus")
  BY DEF O!WriteFriendStatus
<1>18. ~Manages("ReadFriendStatus")
  BY DEF O!ReadFriendStatus
<1>19. ~Manages("DeleteFriend")
  BY DEF O!DeleteFriend
<1>20. ~Manages("CreateContext")
  BY DEF O!CreateContext
<1>21. ~Manages("ExistContext")
  BY DEF O!ExistContext
<1>22. ~Manages("DropContext")
  BY DEF O!DropContext
<1>23. ~Manages("WriteContext")
  BY DEF O!WriteContext
<1>24. ~Manages("ReadContext")
  BY DEF O!ReadContext
<1>25. ~Manages("DeleteContextBind")
  BY DEF O!DeleteContextBind
<1>26. ~Manages("ReadContextSameBind")
  BY DEF O!ReadContextSameBind
<1>27. ~Manages("ReadContextsName")
  BY DEF O!ReadContextsName
<1>28. ~Manages("WriteContextStatus")
  BY DEF O!WriteContextStatus
<1>29. ~Manages("ReadContextStatus")
  BY DEF O!ReadContextStatus
<1>30. ~Manages("WriteContexts")
  BY DEF O!WriteContexts
<1>31. ~Manages("ReadContexts")
  BY DEF O!ReadContexts
<1>32. ~Manages("WriteData")
  BY DEF O!WriteData
<1>33. ~Manages("WriteDataFromByte")
  BY DEF O!WriteDataFromByte
<1>34. ~Manages("ReadData")
  BY DEF O!ReadData
<1>35. ~Manages("ReadDataToByte")
  BY DEF O!ReadDataToByte
<1> QED
  BY <1>1, <1>2, <1>3, <1>4, <1>5, <1>6, <1>7, <1>8, <1>9, <1>10, <1>11, <1>12, <1>13, <1>14,
     <1>15, <1>16, <1>17, <1>18, <1>19, <1>20, <1>21, <1>22, <1>23, <1>24, <1>25, <1>26, <1>27,
     <1>28, <1>29, <1>30, <1>31, <1>32, <1>33, <1>34, <1>35 DEF NormalMethods

\* The code of each method that manages a DRule.
LEMMA ManageCodes ==
    /\ O!Methods["Password"].operate = "OPERATE_USER_PASSWORD" /\ Manages("Password")
    /\ O!Methods["UserAdd"].operate = "OPERATE_USER_ADD" /\ Manages("UserAdd")
    /\ O!Methods["UserDel"].operate = "OPERATE_USER_DEL" /\ Manages("UserDel")
    /\ O!Methods["UserLoginSha1"].operate = "OPERATE_USER_LOGIN" /\ Manages("UserLoginSha1")
    /\ O!Methods["UserLogin"].operate = "OPERATE_USER_LOGIN" /\ Manages("UserLogin")
    /\ O!Methods["UserLogout"].operate = "OPERATE_USER_LOGOUT" /\ Manages("UserLogout")
    /\ O!Methods["UserList"].operate = "OPERATE_USER_DEL" /\ Manages("UserList")
    /\ O!Methods["AreaAdd"].operate = "OPERATE_AREA_ADD" /\ Manages("AreaAdd")
    /\ O!Methods["AreaDel"].operate = "OPERATE_AREA_DEL" /\ Manages("AreaDel")
    /\ O!Methods["AreaExist"].operate = "OPERATE_AREA_DEL" /\ Manages("AreaExist")
    /\ O!Methods["AreaRename"].operate = "OPERATE_AREA_DEL" /\ Manages("AreaRename")
    /\ O!Methods["AreaList"].operate = "OPERATE_AREA_LIST" /\ Manages("AreaList")
    /\ O!Methods["UserAreaAlert"].operate = "OPERATE_USER_AREA" /\ Manages("UserAreaAlert")
    /\ O!Methods["UserAreaDelete"].operate = "OPERATE_USER_AREA" /\ Manages("UserAreaDelete")
    /\ O!Methods["DRuleOperatorSet"].operate = "OPERATE_DRULE_OPERATOR_SET"
    /\ Manages("DRuleOperatorSet")
    /\ O!Methods["DRuleOperatorDelete"].operate = "OPERATE_DRULE_OPERATOR_DELETE"
    /\ Manages("DRuleOperatorDelete")
    /\ O!Methods["DRuleOperatorList"].operate = "OPERATE_DRULE_OPERATOR_LIST"
    /\ Manages("DRuleOperatorList")
    /\ O!Methods["AreaRouterSet"].operate = "OPERATE_AREA_ROUTER_SET" /\ Manages("AreaRouterSet")
    /\ O!Methods["AreaRouterDelete"].operate = "OPERATE_AREA_ROUTER_DELETE"
    /\ Manages("AreaRouterDelete")
    /\ O!Methods["AreaRouterList"].operate = "OPERATE_AREA_ROUTER_LIST" /\ Manages("AreaRouterList")
    /\ O!Methods["DRuleModeGet"].operate = "OPERATE_DRULE_OPERATE_MODE" /\ Manages("DRuleModeGet")
    /\ O!Methods["DRuleStart"].operate = "OPERATE_DRULE_START" /\ Manages("DRuleStart")
    /\ O!Methods["DRulePause"].operate = "OPERATE_DRULE_PAUSE" /\ Manages("DRulePause")
<1> USE DEF Manages, O!Methods, O!Request, O!Manage, O!System, O!Unchecked, O!GoingOn
<1>1. O!Methods["Password"].operate = "OPERATE_USER_PASSWORD" /\ Manages("Password")
  BY DEF O!Password
<1>2. O!Methods["UserAdd"].operate = "OPERATE_USER_ADD" /\ Manages("UserAdd")
  BY DEF O!UserAdd
<1>3. O!Methods["UserDel"].operate = "OPERATE_USER_DEL" /\ Manages("UserDel")
  BY DEF O!UserDel
<1>4. O!Methods["UserLoginSha1"].operate = "OPERATE_USER_LOGIN" /\ Manages("UserLoginSha1")
  BY DEF O!UserLoginSha1
<1>5. O!Methods["UserLogin"].operate = "OPERATE_USER_LOGIN" /\ Manages("UserLogin")
  BY DEF O!UserLogin
<1>6. O!Methods["UserLogout"].operate = "OPERATE_USER_LOGOUT" /\ Manages("UserLogout")
  BY DEF O!UserLogout
<1>7. O!Methods["UserList"].operate = "OPERATE_USER_DEL" /\ Manages("UserList")
  BY DEF O!UserList
<1>8. O!Methods["AreaAdd"].operate = "OPERATE_AREA_ADD" /\ Manages("AreaAdd")
  BY DEF O!AreaAdd
<1>9. O!Methods["AreaDel"].operate = "OPERATE_AREA_DEL" /\ Manages("AreaDel")
  BY DEF O!AreaDel
<1>10. O!Methods["AreaExist"].operate = "OPERATE_AREA_DEL" /\ Manages("AreaExist")
  BY DEF O!AreaExist
<1>11. O!Methods["AreaRename"].operate = "OPERATE_AREA_DEL" /\ Manages("AreaRename")
  BY DEF O!AreaRename
<1>12. O!Methods["AreaList"].operate = "OPERATE_AREA_LIST" /\ Manages("AreaList")
  BY DEF O!AreaList
<1>13. O!Methods["UserAreaAlert"].operate = "OPERATE_USER_AREA" /\ Manages("UserAreaAlert")
  BY DEF O!UserAreaAlert
<1>14. O!Methods["UserAreaDelete"].operate = "OPERATE_USER_AREA" /\ Manages("UserAreaDelete")
  BY DEF O!UserAreaDelete
<1>15. O!Methods["DRuleOperatorSet"].operate = "OPERATE_DRULE_OPERATOR_SET"
       /\ Manages("DRuleOperatorSet")
  BY DEF O!DRuleOperatorSet
<1>16. O!Methods["DRuleOperatorDelete"].operate = "OPERATE_DRULE_OPERATOR_DELETE"
       /\ Manages("DRuleOperatorDelete")
  BY DEF O!DRuleOperatorDelete
<1>17. O!Methods["DRuleOperatorList"].operate = "OPERATE_DRULE_OPERATOR_LIST"
       /\ Manages("DRuleOperatorList")
  BY DEF O!DRuleOperatorList
<1>18. O!Methods["AreaRouterSet"].operate = "OPERATE_AREA_ROUTER_SET" /\ Manages("AreaRouterSet")
  BY DEF O!AreaRouterSet
<1>19. O!Methods["AreaRouterDelete"].operate = "OPERATE_AREA_ROUTER_DELETE"
       /\ Manages("AreaRouterDelete")
  BY DEF O!AreaRouterDelete
<1>20. O!Methods["AreaRouterList"].operate = "OPERATE_AREA_ROUTER_LIST" /\ Manages("AreaRouterList")
  BY DEF O!AreaRouterList
<1>21. O!Methods["DRuleModeGet"].operate = "OPERATE_DRULE_OPERATE_MODE" /\ Manages("DRuleModeGet")
  BY DEF O!DRuleModeGet
<1>22. O!Methods["DRuleStart"].operate = "OPERATE_DRULE_START" /\ Manages("DRuleStart")
  BY DEF O!DRuleStart
<1>23. O!Methods["DRulePause"].operate = "OPERATE_DRULE_PAUSE" /\ Manages("DRulePause")
  BY DEF O!DRulePause
<1> HIDE DEF Manages, O!Methods, O!Request, O!Manage, O!System, O!Unchecked, O!GoingOn
<1> QED
  BY <1>1, <1>2, <1>3, <1>4, <1>5, <1>6, <1>7, <1>8, <1>9, <1>10, <1>11, <1>12,
     <1>13, <1>14, <1>15, <1>16, <1>17, <1>18, <1>19, <1>20, <1>21, <1>22, <1>23

\* What the handler of each of these codes asks of the user, and what it calls.
LEMMA Handlers ==
    /\ M!Dispatch["OPERATE_USER_PASSWORD"] = M!Own("UserPassword")
    /\ M!Dispatch["OPERATE_USER_ADD"] = M!Rooted("UserAdd")
    /\ M!Dispatch["OPERATE_USER_DEL"] = M!Rooted("UserDelete")
    /\ M!Dispatch["OPERATE_USER_LOGIN"] = M!Open("UserLogin")
    /\ M!Dispatch["OPERATE_USER_LOGOUT"] = M!LoggedIn("UserLogout")
    /\ M!Dispatch["OPERATE_AREA_ADD"] = M!Rooted("AreaAdd")
    /\ M!Dispatch["OPERATE_AREA_DEL"] = M!Rooted("AreaDelete")
    /\ M!Dispatch["OPERATE_AREA_LIST"] = M!Rooted("AreaList")
    /\ M!Dispatch["OPERATE_USER_AREA"] = M!Rooted("AreaAddUser")
    /\ M!Dispatch["OPERATE_DRULE_OPERATOR_SET"] = M!Paused("OperatorSet")
    /\ M!Dispatch["OPERATE_DRULE_OPERATOR_DELETE"] = M!Paused("OperatorDelete")
    /\ M!Dispatch["OPERATE_DRULE_OPERATOR_LIST"] = M!Rooted("OperatorList")
    /\ M!Dispatch["OPERATE_AREA_ROUTER_SET"] = M!Paused("AreaRouterSet")
    /\ M!Dispatch["OPERATE_AREA_ROUTER_DELETE"] = M!Paused("AreaRouterDelete")
    /\ M!Dispatch["OPERATE_AREA_ROUTER_LIST"] = M!Rooted("AreaRouterList")
    /\ M!Dispatch["OPERATE_DRULE_OPERATE_MODE"] = M!Rooted("WorkMode")
    /\ M!Dispatch["OPERATE_DRULE_START"] = M!Rooted("Start")
    /\ M!Dispatch["OPERATE_DRULE_PAUSE"] = M!Rooted("Pause")
<1> USE DEF M!Dispatch
<1>1. M!Dispatch["OPERATE_USER_PASSWORD"] = M!Own("UserPassword")
  BY DEF M!man_userPassword
<1>2. M!Dispatch["OPERATE_USER_ADD"] = M!Rooted("UserAdd")
  BY DEF M!man_userAdd
<1>3. M!Dispatch["OPERATE_USER_DEL"] = M!Rooted("UserDelete")
  BY DEF M!man_userDel
<1>4. M!Dispatch["OPERATE_USER_LOGIN"] = M!Open("UserLogin")
  BY DEF M!man_userLogin
<1>5. M!Dispatch["OPERATE_USER_LOGOUT"] = M!LoggedIn("UserLogout")
  BY DEF M!man_userLogout
<1>6. M!Dispatch["OPERATE_AREA_ADD"] = M!Rooted("AreaAdd")
  BY DEF M!man_areaAdd
<1>7. M!Dispatch["OPERATE_AREA_DEL"] = M!Rooted("AreaDelete")
  BY DEF M!man_areaDel
<1>8. M!Dispatch["OPERATE_AREA_LIST"] = M!Rooted("AreaList")
  BY DEF M!man_areaList
<1>9. M!Dispatch["OPERATE_USER_AREA"] = M!Rooted("AreaAddUser")
  BY DEF M!man_areaAndUser
<1>10. M!Dispatch["OPERATE_DRULE_OPERATOR_SET"] = M!Paused("OperatorSet")
  BY DEF M!man_operatorSet
<1>11. M!Dispatch["OPERATE_DRULE_OPERATOR_DELETE"] = M!Paused("OperatorDelete")
  BY DEF M!man_operatorDel
<1>12. M!Dispatch["OPERATE_DRULE_OPERATOR_LIST"] = M!Rooted("OperatorList")
  BY DEF M!man_operatorList
<1>13. M!Dispatch["OPERATE_AREA_ROUTER_SET"] = M!Paused("AreaRouterSet")
  BY DEF M!man_areaRouterSet
<1>14. M!Dispatch["OPERATE_AREA_ROUTER_DELETE"] = M!Paused("AreaRouterDelete")
  BY DEF M!man_areaRouterDel
<1>15. M!Dispatch["OPERATE_AREA_ROUTER_LIST"] = M!Rooted("AreaRouterList")
  BY DEF M!man_areaRouterList
<1>16. M!Dispatch["OPERATE_DRULE_OPERATE_MODE"] = M!Rooted("WorkMode")
  BY DEF M!sys_druleMode
<1>17. M!Dispatch["OPERATE_DRULE_START"] = M!Rooted("Start")
  BY DEF M!sys_druleStart
<1>18. M!Dispatch["OPERATE_DRULE_PAUSE"] = M!Rooted("Pause")
  BY DEF M!sys_drulePause
<1> HIDE DEF M!Dispatch
<1> QED
  BY <1>1, <1>2, <1>3, <1>4, <1>5, <1>6, <1>7, <1>8, <1>9,
     <1>10, <1>11, <1>12, <1>13, <1>14, <1>15, <1>16, <1>17, <1>18

LEMMA HandlerKinds ==
    ASSUME NEW does
    PROVE  /\ M!Open(does).does = does /\ ~M!Open(does).login
           /\ ~M!Open(does).root /\ ~M!Open(does).own /\ ~M!Open(does).paused
           /\ M!LoggedIn(does).does = does /\ M!LoggedIn(does).login
           /\ ~M!LoggedIn(does).root /\ ~M!LoggedIn(does).own /\ ~M!LoggedIn(does).paused
           /\ M!Rooted(does).does = does /\ M!Rooted(does).login
           /\ M!Rooted(does).root /\ ~M!Rooted(does).own /\ ~M!Rooted(does).paused
           /\ M!Own(does).does = does /\ M!Own(does).login
           /\ M!Own(does).root /\ M!Own(does).own /\ ~M!Own(does).paused
           /\ M!Paused(does).does = does /\ M!Paused(does).login
           /\ M!Paused(does).root /\ ~M!Paused(does).own /\ M!Paused(does).paused
BY DEF M!Handler, M!Open, M!LoggedIn, M!Rooted, M!Own, M!Paused

\* The method of DRule that a request of each method leads to.
Leads(m, does) ==
    \/ does = "UserPassword" /\ m \in {"Password"}
    \/ does = "UserAdd" /\ m \in {"UserAdd"}
    \/ does = "UserDelete" /\ m \in {"UserDel", "UserList"}
    \/ does = "UserLogin" /\ m \in {"UserLoginSha1", "UserLogin"}
    \/ does = "UserLogout" /\ m \in {"UserLogout"}
    \/ does = "AreaAdd" /\ m \in {"AreaAdd"}
    \/ does = "AreaDelete" /\ m \in {"AreaDel", "AreaExist", "AreaRename"}
    \/ does = "AreaList" /\ m \in {"AreaList"}
    \/ does = "AreaAddUser" /\ m \in {"UserAreaAlert", "UserAreaDelete"}
    \/ does = "OperatorSet" /\ m \in {"DRuleOperatorSet"}
    \/ does = "OperatorDelete" /\ m \in {"DRuleOperatorDelete"}
    \/ does = "OperatorList" /\ m \in {"DRuleOperatorList"}
    \/ does = "AreaRouterSet" /\ m \in {"AreaRouterSet"}
    \/ does = "AreaRouterDelete" /\ m \in {"AreaRouterDelete"}
    \/ does = "AreaRouterList" /\ m \in {"AreaRouterList"}
    \/ does = "WorkMode" /\ m \in {"DRuleModeGet"}
    \/ does = "Start" /\ m \in {"DRuleStart"}
    \/ does = "Pause" /\ m \in {"DRulePause"}

\* A handler goes with its method, and those that matter below look at the login and
\* the authority, or at the pause.
HandlerOK(m) ==
    LET h == HandlerOf(m)
    IN  /\ Leads(m, h.does)
        /\ m \in Logins => ~h.login
        /\ m \in {"UserAdd", "UserAreaAlert", "UserAreaDelete"} => h.login /\ h.root
        /\ m \in {"AreaRouterSet", "AreaRouterDelete"} => h.paused

LEMMA ManageHandler ==
    ASSUME NEW m \in DOMAIN O!Methods, Manages(m)
    PROVE  HandlerOK(m)
<1>1. m \in ManageMethods
  BY AllMethods, NormalZone
<1>2. HandlerOK("Password")
  <2>1. HandlerOf("Password") = M!Own("UserPassword")
    BY ManageCodes, Handlers DEF HandlerOf, CodeOf
  <2> QED
    BY <2>1, HandlerKinds DEF HandlerOK, Leads, Logins
<1>3. HandlerOK("UserAdd")
  <2>1. HandlerOf("UserAdd") = M!Rooted("UserAdd")
    BY ManageCodes, Handlers DEF HandlerOf, CodeOf
  <2> QED
    BY <2>1, HandlerKinds DEF HandlerOK, Leads, Logins
<1>4. HandlerOK("UserDel")
  <2>1. HandlerOf("UserDel") = M!Rooted("UserDelete")
    BY ManageCodes, Handlers DEF HandlerOf, CodeOf
  <2> QED
    BY <2>1, HandlerKinds DEF HandlerOK, Leads, Logins
<1>5. HandlerOK("UserLoginSha1")
  <2>1. HandlerOf("UserLoginSha1") = M!Open("UserLogin")
    BY ManageCodes, Handlers DEF HandlerOf, CodeOf
  <2> QED
    BY <2>1, HandlerKinds DEF HandlerOK, Leads, Logins
<1>6. HandlerOK("UserLogin")
  <2>1. HandlerOf("UserLogin") = M!Open("UserLogin")
    BY ManageCodes, Handlers DEF HandlerOf, CodeOf
  <2> QED
    BY <2>1, HandlerKinds DEF HandlerOK, Leads, Logins
<1>7. HandlerOK("UserLogout")
  <2>1. HandlerOf("UserLogout") = M!LoggedIn("UserLogout")
    BY ManageCodes, Handlers DEF HandlerOf, CodeOf
  <2> QED
    BY <2>1, HandlerKinds DEF HandlerOK, Leads, Logins
<1>8. HandlerOK("UserList")
  <2>1. HandlerOf("UserList") = M!Rooted("UserDelete")
    BY ManageCodes, Handlers DEF HandlerOf, CodeOf
  <2> QED
    BY <2>1, HandlerKinds DEF HandlerOK, Leads, Logins
<1>9. HandlerOK("AreaAdd")
  <2>1. HandlerOf("AreaAdd") = M!Rooted("AreaAdd")
    BY ManageCodes, Handlers DEF HandlerOf, CodeOf
  <2> QED
    BY <2>1, HandlerKinds DEF HandlerOK, Leads, Logins
<1>10. HandlerOK("AreaDel")
  <2>1. HandlerOf("AreaDel") = M!Rooted("AreaDelete")
    BY ManageCodes, Handlers DEF HandlerOf, CodeOf
  <2> QED
    BY <2>1, HandlerKinds DEF HandlerOK, Leads, Logins
<1>11. HandlerOK("AreaExist")
  <2>1. HandlerOf("AreaExist") = M!Rooted("AreaDelete")
    BY ManageCodes, Handlers DEF HandlerOf, CodeOf
  <2> QED
    BY <2>1, HandlerKinds DEF HandlerOK, Leads, Logins
<1>12. HandlerOK("AreaRename")
  <2>1. HandlerOf("AreaRename") = M!Rooted("AreaDelete")
    BY ManageCodes, Handlers DEF HandlerOf, CodeOf
  <2> QED
    BY <2>1, HandlerKinds DEF HandlerOK, Leads, Logins
<1>13. HandlerOK("AreaList")
  <2>1. HandlerOf("AreaList") = M!Rooted("AreaList")
    BY ManageCodes, Handlers DEF HandlerOf, CodeOf
  <2> QED
    BY <2>1, HandlerKinds DEF HandlerOK, Leads, Logins
<1>14. HandlerOK("UserAreaAlert")
  <2>1. HandlerOf("UserAreaAlert") = M!Rooted("AreaAddUser")
    BY ManageCodes, Handlers DEF HandlerOf, CodeOf
  <2> QED
    BY <2>1, HandlerKinds DEF HandlerOK, Leads, Logins
<1>15. HandlerOK("UserAreaDelete")
  <2>1. HandlerOf("UserAreaDelete") = M!Rooted("AreaAddUser")
    BY ManageCodes, Handlers DEF HandlerOf, CodeOf
  <2> QED
    BY <2>1, HandlerKinds DEF HandlerOK, Leads, Logins
<1>16. HandlerOK("DRuleOperatorSet")
  <2>1. HandlerOf("DRuleOperatorSet") = M!Paused("OperatorSet")
    BY ManageCodes, Handlers DEF HandlerOf, CodeOf
  <2> QED
    BY <2>1, HandlerKinds DEF HandlerOK, Leads, Logins
<1>17. HandlerOK("DRuleOperatorDelete")
  <2>1. HandlerOf("DRuleOperatorDelete") = M!Paused("OperatorDelete")
    BY ManageCodes, Handlers DEF HandlerOf, CodeOf
  <2> QED
    BY <2>1, HandlerKinds DEF HandlerOK, Leads, Logins
<1>18. HandlerOK("DRuleOperatorList")
  <2>1. HandlerOf("DRuleOperatorList") = M!Rooted("OperatorList")
    BY ManageCodes, Handlers DEF HandlerOf, CodeOf
  <2> QED
    BY <2>1, HandlerKinds DEF HandlerOK, Leads, Logins
<1>19. HandlerOK("AreaRouterSet")
  <2>1. HandlerOf("AreaRouterSet") = M!Paused("AreaRouterSet")
    BY ManageCodes, Handlers DEF HandlerOf, CodeOf
  <2> QED
    BY <2>1, HandlerKinds DEF HandlerOK, Leads, Logins
<1>20. HandlerOK("AreaRouterDelete")
  <2>1. HandlerOf("AreaRouterDelete") = M!Paused("AreaRouterDelete")
    BY ManageCodes, Handlers DEF HandlerOf, CodeOf
  <2> QED
    BY <2>1, HandlerKinds DEF HandlerOK, Leads, Logins
<1>21. HandlerOK("AreaRouterList")
  <2>1. HandlerOf("AreaRouterList") = M!Rooted("AreaRouterList")
    BY ManageCodes, Handlers DEF HandlerOf, CodeOf
  <2> QED
    BY <2>1, HandlerKinds DEF HandlerOK, Leads, Logins
<1>22. HandlerOK("DRuleModeGet")
  <2>1. HandlerOf("DRuleModeGet") = M!Rooted("WorkMode")
    BY ManageCodes, Handlers DEF HandlerOf, CodeOf
  <2> QED
    BY <2>1, HandlerKinds DEF HandlerOK, Leads, Logins
<1>23. HandlerOK("DRuleStart")
  <2>1. HandlerOf("DRuleStart") = M!Rooted("Start")
    BY ManageCodes, Handlers DEF HandlerOf, CodeOf
  <2> QED
    BY <2>1, HandlerKinds DEF HandlerOK, Leads, Logins
<1>24. HandlerOK("DRulePause")
  <2>1. HandlerOf("DRulePause") = M!Rooted("Pause")
    BY ManageCodes, Handlers DEF HandlerOf, CodeOf
  <2> QED
    BY <2>1, HandlerKinds DEF HandlerOK, Leads, Logins
<1> QED
  BY <1>1, <1>2, <1>3, <1>4, <1>5, <1>6, <1>7, <1>8, <1>9, <1>10, <1>11, <1>12,
     <1>13, <1>14, <1>15, <1>16, <1>17, <1>18, <1>19, <1>20, <1>21, <1>22, <1>23, <1>24 DEF ManageMethods

----------------------------------------------------------------------------
(* The inductive invariant.                                                *)

Steps ==
    {"asked", "power", "authority", "wrable", "enter", "store", "powers", "write", "table",
     "UserLogin", "UserLogout", "UserAdd", "UserDelete", "AreaAddUser", "AreaAdd",
     "AreaDelete", "OperatorSet", "OperatorDelete", "AreaRouterSet", "AreaRouterDelete",
     "Start", "Pause"} \cup Looks

Requests ==
    [ pc : Steps, method : Called, user : Users, unid : Unids,
      whom : Users \cup {Nil}, area : Areas \cup {Nil}, operator : Operators \cup {Nil},
      auth : Authorities, power : Powers,
      read : [auth : Authorities, power : [Areas -> Powers]] ]

LoginRecords ==
    [unid : [Unids -> {"none", "active", "old"}], auth : Authorities, power : [Areas -> Powers]]

\* A table of logins, where nobody is without a unid.
LoginTable(table) ==
    /\ table = [u \in Users |-> table[u]]
    /\ \A u \in Users : table[u] # Nil =>
          table[u] \in LoginRecords /\ \E s \in Unids : table[u].unid[s] # "none"

\* The table and the requests have their types.
Typed ==
    /\ TypeOK
    /\ LoginTable(loginuser)
    /\ doing \in [Workers -> Requests \cup {Free}]

\* What root has given a user, for each area.
PowersGranted(u, power, given) ==
    \A a \in Areas : power[a] # "none" => <<u, a, power[a]>> \in given

\* The accounts and the table hold nothing that was not given, and nothing else was used.
AllGranted ==
    /\ \A u \in Users : account[u] # Nil =>
          <<u, account[u].auth>> \in granted /\ PowersGranted(u, account[u].power, granted)
    /\ \A u \in Users : loginuser[u] # Nil =>
          /\ loginuser[u].auth # "NO" => <<u, loginuser[u].auth>> \in granted
          /\ PowersGranted(u, loginuser[u].power, granted)
    /\ \A x \in used : x \in granted \/ <<x[1], x[2], "write">> \in granted

\* A request that has passed its handler gives what root has given, and is about what its
\* method is about.
RequestOK(r, given) ==
    /\ r.pc = "asked" => r \in RequestsOf(r.method, r.user, r.unid)
    /\ r.pc \in {"UserAdd", "store"} => r.whom \in Users /\ <<r.whom, r.auth>> \in given
    /\ r.pc \in {"AreaAddUser", "powers", "write", "table"} =>
          /\ r.whom \in Users /\ r.area \in Areas
          /\ r.power # "none" => <<r.whom, r.area, r.power>> \in given
    /\ r.pc \in {"write", "table"} => PowersGranted(r.whom, r.read.power, given)
    /\ (r.pc \in {"wrable", "enter"} /\ r.read.auth # "NO") => <<r.user, r.read.auth>> \in given
    /\ r.pc = "enter" => PowersGranted(r.user, r.read.power, given)
    /\ r.pc \in {"power", "AreaAdd", "AreaRouterSet", "AreaRouterDelete"} => r.area \in Areas
    /\ r.pc \in {"OperatorSet", "AreaRouterSet"} => r.operator \in Operators

\* While requests come one at a time, ...
OneAtATime ==
    ~overlapped => \A w, x \in Workers : (doing[w] # Free /\ doing[x] # Free) => w = x

\* a request to set or delete a route is at work only in a pause, ...
RoutesOK ==
    ~overlapped =>
        /\ \A w \in Workers : doing[w].pc \in {"AreaRouterSet", "AreaRouterDelete"} => closed
        /\ ~closed => RoutesTo(areas_routed) \subseteq operators

\* and who is logged in has the powers of the account, but between the two writes of
\* AreaAddUser.
LoginsFollow ==
    \A u \in Users : loginuser[u] # Nil =>
        /\ account[u] # Nil
        /\ \/ loginuser[u].power = account[u].power
           \/ \E w \in Workers : doing[w].pc = "table" /\ doing[w].whom = u

\* What a request has read of the accounts is still so.
RequestFollows(r, users) ==
    /\ r.pc = "table" => users[r.whom] # Nil /\ r.read.power = users[r.whom].power
    /\ r.pc \in {"authority", "wrable", "enter"} => users[r.user] # Nil
    /\ r.pc = "enter" => r.read.power = users[r.user].power
    /\ r.pc = "store" => users[r.whom] = Nil

FollowOK ==
    (~overlapped /\ ~removed) =>
        LoginsFollow /\ \A w \in Workers : RequestFollows(doing[w], account)

IInv ==
    /\ Typed /\ AllGranted
    /\ \A w \in Workers : RequestOK(doing[w], granted)
    /\ OneAtATime /\ RoutesOK /\ FollowOK

----------------------------------------------------------------------------
(* Requests and how they move.                                             *)

LEMMA ManagesThese ==
    \A m \in {"UserAdd", "UserDel", "AreaAdd", "AreaDel", "AreaExist", "AreaRename",
              "UserAreaAlert", "UserAreaDelete", "DRuleOperatorSet", "DRuleOperatorDelete",
              "AreaRouterSet", "AreaRouterDelete"} : Manages(m)
BY ManageCodes

\* What a request is about, by its method.
LEMMA AskedRequest ==
    ASSUME NEW m \in Called, NEW u \in Users, NEW s \in Unids, NEW r \in RequestsOf(m, u, s)
    PROVE  /\ r \in Requests /\ r.pc = "asked" /\ r.method = m /\ r.user = u /\ r.unid = s
           /\ r.auth # "NO" <=> m = "UserAdd"
           /\ r.power # "none" <=> m = "UserAreaAlert"
           /\ m \in AboutUser => r.whom \in Users
           /\ (m \in AboutArea \/ ~Manages(m)) => r.area \in Areas
           /\ m \in AboutOperator => r.operator \in Operators
BY DEF RequestsOf, Requests, Steps, Authorities, Powers, NoPower

\* Who is not free is at a request.
LEMMA AtRequest ==
    ASSUME Typed, NEW w \in Workers, NEW pc \in Steps, At(w, pc)
    PROVE  doing[w] \in Requests /\ doing[w] # Free /\ doing[w].pc = pc
<1>1. doing[w].pc = pc /\ (doing[w] \in Requests \/ doing[w] = Free)
  BY DEF Typed, At
<1>2. Free.pc = "free" /\ "free" \notin Steps
  BY DEF Free, Steps, Looks
<1> QED
  BY <1>1, <1>2

LEMMA FreeRequest ==
    ASSUME NEW given, NEW users
    PROVE  Free.pc = "free" /\ RequestOK(Free, given) /\ RequestFollows(Free, users)
BY DEF Free, RequestOK, RequestFollows

\* Worker w goes from its request to r, or is done; the others stay where they are.
Moves(w, r) ==
    /\ doing' \in [Workers -> Requests \cup {Free}]
    /\ doing[w] \in Requests /\ doing[w] # Free
    /\ doing'[w] = r
    /\ \A x \in Workers : x # w => doing'[x] = doing[x]

LEMMA Going ==
    ASSUME Typed, NEW w \in Workers, doing[w] \in Requests, doing[w] # Free, NEW pc \in Steps,
           Goes(w, pc)
    PROVE  /\ Moves(w, [doing[w] EXCEPT !.pc = pc])
           /\ [doing[w] EXCEPT !.pc = pc] \in Requests
BY DEF Goes, Typed, Requests, Moves

LEMMA GoneOn ==
    ASSUME NEW r \in Requests, NEW pc
    PROVE  LET s == [r EXCEPT !.pc = pc]
           IN  /\ s.pc = pc /\ s.method = r.method /\ s.user = r.user /\ s.unid = r.unid
               /\ s.whom = r.whom /\ s.area = r.area /\ s.operator = r.operator
               /\ s.auth = r.auth /\ s.power = r.power /\ s.read = r.read
BY DEF Requests

LEMMA GoingDone ==
    ASSUME Typed, NEW w \in Workers, doing[w] \in Requests, doing[w] # Free, Done(w)
    PROVE  Moves(w, Free)
BY DEF Done, Typed, Moves

----------------------------------------------------------------------------
(* What a step of a request has to show.                                   *)

\* What is given stays given.
LEMMA GivenStays ==
    ASSUME NEW given, NEW more, given \subseteq more, NEW r, RequestOK(r, given)
    PROVE  RequestOK(r, more)
BY DEF RequestOK, PowersGranted

\* While requests come one at a time, the others are free.
LEMMA OthersFree ==
    ASSUME OneAtATime, ~overlapped, NEW w \in Workers, NEW r, Moves(w, r)
    PROVE  \A x \in Workers : x # w => doing[x] = Free /\ doing'[x] = Free
BY DEF OneAtATime, Moves

\* The parts that a step of w can disturb, and those it cannot.
LEMMA StepKeeps ==
    ASSUME IInv, NEW w \in Workers, NEW r, Moves(w, r),
           overlapped' = overlapped, removed => removed', granted \subseteq granted',
           Typed', AllGranted', RequestOK(r, granted'), RoutesOK',
           (~overlapped /\ ~removed') => LoginsFollow' /\ RequestFollows(r, account')
    PROVE  IInv'
<1>1. ASSUME NEW x \in Workers
      PROVE  RequestOK(doing'[x], granted')
  <2>1. CASE x = w
    BY <2>1 DEF Moves
  <2>2. CASE x # w
    <3>1. doing'[x] = doing[x] /\ RequestOK(doing[x], granted)
      BY <2>2 DEF Moves, IInv
    <3> QED
      BY <3>1, GivenStays
  <2> QED
    BY <2>1, <2>2
<1>2. OneAtATime'
  <2> SUFFICES ASSUME ~overlapped PROVE OneAtATime'
    BY DEF OneAtATime
  <2>1. \A x \in Workers : x # w => doing'[x] = Free
    BY OthersFree DEF IInv
  <2> QED
    BY <2>1 DEF OneAtATime
<1>3. FollowOK'
  <2> SUFFICES ASSUME ~overlapped, ~removed'
               PROVE  LoginsFollow' /\ \A x \in Workers : RequestFollows(doing'[x], account')
    BY DEF FollowOK
  <2>1. \A x \in Workers : x # w => doing'[x] = Free
    BY OthersFree DEF IInv
  <2>2. ASSUME NEW x \in Workers
        PROVE  RequestFollows(doing'[x], account')
    BY <2>1, FreeRequest DEF Moves
  <2> QED
    BY <2>2
<1> QED
  BY <1>1, <1>2, <1>3 DEF IInv

\* Routes are not touched.
LEMMA RoutesKept ==
    ASSUME IInv, NEW w \in Workers, NEW r, Moves(w, r),
           UNCHANGED <<closed, operators, areas_routed, overlapped>>,
           r.pc \in {"AreaRouterSet", "AreaRouterDelete"} => closed
    PROVE  RoutesOK'
<1> SUFFICES ASSUME ~overlapped PROVE RoutesOK'
  BY DEF RoutesOK
<1>1. ASSUME NEW x \in Workers, doing'[x].pc \in {"AreaRouterSet", "AreaRouterDelete"}
      PROVE  closed
  BY <1>1 DEF IInv, RoutesOK, Moves
<1>2. ~closed => RoutesTo(areas_routed) \subseteq operators
  BY DEF IInv, RoutesOK
<1> QED
  BY <1>1, <1>2 DEF RoutesOK, RoutesTo

\* Accounts and logins are not touched, or logins only taken away or with the powers they had.
LEMMA LoginsKept ==
    ASSUME IInv, NEW w \in Workers, NEW r, Moves(w, r), ~overlapped, ~removed,
           UNCHANGED account, doing[w].pc # "table",
           \A u \in Users : loginuser'[u] # Nil =>
               loginuser[u] # Nil /\ loginuser'[u].power = loginuser[u].power
    PROVE  LoginsFollow'
<1>1. \A x \in Workers : doing[x].pc # "table"
  BY OthersFree, FreeRequest DEF IInv
<1>2. LoginsFollow
  BY DEF IInv, FollowOK
<1> QED
  BY <1>1, <1>2 DEF LoginsFollow

\* Neither accounts nor logins are touched.
LEMMA GrantedKept ==
    ASSUME AllGranted, UNCHANGED <<account, used>>, granted \subseteq granted',
           \A u \in Users : loginuser'[u] # Nil =>
               /\ loginuser[u] # Nil
               /\ loginuser'[u].auth = loginuser[u].auth
               /\ loginuser'[u].power = loginuser[u].power
    PROVE  AllGranted'
BY DEF AllGranted, PowersGranted

\* A step that goes on or ends, and changes nothing that the others rest on.
LEMMA QuietStep ==
    ASSUME IInv, NEW w \in Workers, NEW r, Moves(w, r),
           UNCHANGED <<account, loginuser, runVars, historyVars>>, Typed',
           doing[w].pc # "table",
           RequestOK(r, granted), (~overlapped /\ ~removed) => RequestFollows(r, account),
           r.pc \notin {"AreaRouterSet", "AreaRouterDelete"}
    PROVE  IInv'
<1> USE DEF runVars, historyVars
<1>1. AllGranted'
  BY GrantedKept DEF IInv
<1>2. RoutesOK'
  BY RoutesKept
<1>3. (~overlapped /\ ~removed') => LoginsFollow'
  BY LoginsKept
<1> QED
  BY <1>1, <1>2, <1>3, StepKeeps

----------------------------------------------------------------------------
(* The steps, one by one: first those that leave accounts and logins.      *)

\* Areas, operators that are set, what is known of logins, and requests are as they were
\* or have their type.
LEMMA TypedQuiet ==
    ASSUME Typed, NEW w \in Workers, NEW r, Moves(w, r),
           UNCHANGED <<account, loginuser, known, runVars, router_set, panicked, asks, granted, used>>,
           areas' \subseteq Areas, operator_set' \subseteq Operators
    PROVE  Typed'
BY DEF Typed, TypeOK, Moves, LoginTable, runVars

\* A request that ends with nothing done that matters here.
LEMMA QuietEnd ==
    ASSUME IInv, NEW w \in Workers, doing[w] \in Requests, doing[w] # Free, Done(w),
           doing[w].pc # "table",
           UNCHANGED <<account, loginuser, known, runVars, router_set, panicked, asks, historyVars>>,
           areas' \subseteq Areas, operator_set' \subseteq Operators
    PROVE  IInv'
<1>1. Moves(w, Free)
  BY GoingDone DEF IInv
<1>2. Typed'
  BY <1>1, TypedQuiet DEF IInv, historyVars
<1> QED
  BY <1>1, <1>2, FreeRequest, QuietStep

LEMMA LookKeeps ==
    ASSUME IInv, NEW w \in Workers, Look(w)
    PROVE  IInv'
<1>1. PICK does \in Looks : At(w, does)
  BY DEF Look
<1>2. doing[w] \in Requests /\ doing[w] # Free /\ doing[w].pc # "table"
  BY <1>1, AtRequest DEF IInv, Steps, Looks
<1>3. areas' \subseteq Areas /\ operator_set' \subseteq Operators
  BY DEF Look, storeVars, IInv, Typed, TypeOK
<1> QED
  BY <1>2, <1>3, QuietEnd DEF Look, storeVars, tableVars

LEMMA AreasKeep ==
    ASSUME IInv, NEW w \in Workers, AreaAdd(w) \/ AreaDelete(w)
    PROVE  IInv'
<1>1. At(w, "AreaAdd") \/ At(w, "AreaDelete")
  BY DEF AreaAdd, AreaDelete
<1>2. /\ doing[w] \in Requests /\ doing[w] # Free /\ doing[w].pc # "table"
      /\ AreaAdd(w) => doing[w].pc = "AreaAdd"
  BY <1>1, AtRequest DEF IInv, Steps, AreaAdd, AreaDelete
<1>3. AreaAdd(w) => doing[w].area \in Areas
  BY <1>2 DEF IInv, RequestOK
<1>4. areas' \subseteq Areas /\ operator_set' \subseteq Operators
  BY <1>3 DEF AreaAdd, AreaDelete, IInv, Typed, TypeOK
<1> QED
  BY <1>2, <1>4, QuietEnd DEF AreaAdd, AreaDelete, tableVars

LEMMA OperatorsKeep ==
    ASSUME IInv, NEW w \in Workers, OperatorSet(w) \/ OperatorDelete(w)
    PROVE  IInv'
<1>1. At(w, "OperatorSet") \/ At(w, "OperatorDelete")
  BY DEF OperatorSet, OperatorDelete
<1>2. /\ doing[w] \in Requests /\ doing[w] # Free /\ doing[w].pc # "table"
      /\ OperatorSet(w) => doing[w].pc = "OperatorSet"
  BY <1>1, AtRequest DEF IInv, Steps, OperatorSet, OperatorDelete
<1>3. OperatorSet(w) => doing[w].operator \in Operators
  BY <1>2 DEF IInv, RequestOK
<1>4. areas' \subseteq Areas /\ operator_set' \subseteq Operators
  BY <1>3 DEF OperatorSet, OperatorDelete, IInv, Typed, TypeOK
<1> QED
  BY <1>2, <1>4, QuietEnd DEF OperatorSet, OperatorDelete, tableVars

\* What is read of an account was given, and none of it is nobody's.
LEMMA UserLoginKeeps ==
    ASSUME IInv, NEW w \in Workers, UserLogin(w)
    PROVE  IInv'
<1> DEFINE r == doing[w]
           u == r.user
<1>0. At(w, "UserLogin") \/ At(w, "authority") \/ At(w, "wrable")
  BY DEF UserLogin
<1>1. r \in Requests /\ r # Free /\ r.pc \in {"UserLogin", "authority", "wrable"} /\ r.pc # "table"
  BY <1>0, AtRequest DEF IInv, Steps
<1>2. Typed /\ u \in Users /\ account[u] \in Accounts \cup {Nil}
  BY <1>1 DEF IInv, Typed, TypeOK, Requests
<1>3. UNCHANGED <<account, loginuser, known, runVars, router_set, panicked, asks, historyVars>>
      /\ areas' \subseteq Areas /\ operator_set' \subseteq Operators
  BY DEF UserLogin, storeVars, tableVars, IInv, Typed, TypeOK
<1>4. CASE Done(w)
  BY <1>1, <1>3, <1>4, QuietEnd
<1>5. CASE /\ r.pc = "UserLogin" /\ account[u] # Nil /\ Goes(w, "authority")
  <2> DEFINE q == [r EXCEPT !.pc = "authority"]
  <2>1. Moves(w, q)
    BY <1>1, <1>2, <1>5, Going DEF Steps
  <2>2. q.pc = "authority" /\ q.user = u
    BY <1>1, GoneOn
  <2>3. RequestOK(q, granted) /\ RequestFollows(q, account)
    BY <2>2, <1>5 DEF RequestOK, RequestFollows
  <2> HIDE DEF q
  <2>4. Typed'
    BY <1>2, <1>3, <2>1, TypedQuiet DEF historyVars
  <2> QED
    BY <1>1, <1>3, <2>1, <2>2, <2>3, <2>4, QuietStep
<1>6. CASE /\ r.pc = "authority"
           /\ Reads(w, "auth", IF account[u] = Nil THEN "NO" ELSE account[u].auth, "wrable")
  <2> DEFINE a == IF account[u] = Nil THEN "NO" ELSE account[u].auth
             q == [r EXCEPT !.read["auth"] = a, !.pc = "wrable"]
  <2>1. a \in Authorities /\ (a # "NO" => account[u] # Nil /\ a = account[u].auth)
    BY <1>2 DEF Accounts, Authorities
  <2>2. doing' = [doing EXCEPT ![w].read["auth"] = a, ![w].pc = "wrable"]
    BY <1>6 DEF Reads
  <2> HIDE DEF a
  <2>3. /\ q \in Requests /\ q.pc = "wrable" /\ q.user = u /\ q.read.auth = a
    BY <1>1, <2>1 DEF Requests, Steps
  <2>4. Moves(w, q)
    BY <1>1, <1>2, <2>2, <2>3 DEF Moves, Typed
  <2>5. a # "NO" => <<u, a>> \in granted
    BY <1>2, <2>1 DEF IInv, AllGranted
  <2>6. (~overlapped /\ ~removed) => account[u] # Nil
    BY <1>6 DEF IInv, FollowOK, RequestFollows
  <2> HIDE DEF q
  <2>7. RequestOK(q, granted)
    BY <2>3, <2>5 DEF RequestOK
  <2>8. (~overlapped /\ ~removed) => RequestFollows(q, account)
    BY <2>3, <2>6 DEF RequestFollows
  <2>9. Typed'
    BY <1>2, <1>3, <2>4, TypedQuiet DEF historyVars
  <2> QED
    BY <1>1, <1>3, <2>3, <2>4, <2>7, <2>8, <2>9, QuietStep
<1>7. CASE /\ r.pc = "wrable"
           /\ Reads(w, "power", IF account[u] = Nil THEN NoPower ELSE account[u].power, "enter")
  <2> DEFINE p == IF account[u] = Nil THEN NoPower ELSE account[u].power
             q == [r EXCEPT !.read["power"] = p, !.pc = "enter"]
  <2>1. p \in [Areas -> Powers] /\ (account[u] # Nil => p = account[u].power)
        /\ (account[u] = Nil => p = NoPower)
    BY <1>2 DEF Accounts, NoPower, Powers
  <2>2. doing' = [doing EXCEPT ![w].read["power"] = p, ![w].pc = "enter"]
    BY <1>7 DEF Reads
  <2> HIDE DEF p
  <2>3. /\ q \in Requests /\ q.pc = "enter" /\ q.user = u
        /\ q.read.power = p /\ q.read.auth = r.read.auth
    BY <1>1, <2>1 DEF Requests, Steps
  <2>4. Moves(w, q)
    BY <1>1, <1>2, <2>2, <2>3 DEF Moves, Typed
  <2>5. PowersGranted(u, p, granted)
    BY <1>2, <2>1 DEF IInv, AllGranted, PowersGranted, NoPower
  <2>6. (~overlapped /\ ~removed) => account[u] # Nil
    BY <1>7 DEF IInv, FollowOK, RequestFollows
  <2>7. r.read.auth # "NO" => <<u, r.read.auth>> \in granted
    BY <1>7 DEF IInv, RequestOK
  <2> HIDE DEF q
  <2>8. RequestOK(q, granted)
    BY <2>3, <2>5, <2>7 DEF RequestOK
  <2>9. (~overlapped /\ ~removed) => RequestFollows(q, account)
    BY <2>1, <2>3, <2>6 DEF RequestFollows
  <2>10. Typed'
    BY <1>2, <1>3, <2>4, TypedQuiet DEF historyVars
  <2> QED
    BY <1>1, <1>3, <2>3, <2>4, <2>8, <2>9, <2>10, QuietStep
<1> QED
  BY <1>4, <1>5, <1>6, <1>7 DEF UserLogin, At

\* Routes, starting and pausing: the accounts and the logins stay.
LEMMA RoutesStep ==
    ASSUME IInv, NEW w \in Workers, doing[w] \in Requests, doing[w] # Free, Done(w),
           doing[w].pc # "table",
           UNCHANGED <<account, areas, operator_set, tableVars, panicked, asks, historyVars>>,
           closed' \in BOOLEAN, operators' \subseteq Operators,
           router_set' \subseteq Areas \X Operators, areas_routed' \subseteq Areas \X Operators,
           (~overlapped /\ ~closed') => RoutesTo(areas_routed') \subseteq operators'
    PROVE  IInv'
<1> USE DEF tableVars, historyVars
<1>1. Moves(w, Free)
  BY GoingDone DEF IInv
<1>2. Typed'
  BY <1>1 DEF IInv, Typed, TypeOK, Moves, LoginTable
<1>3. AllGranted'
  BY GrantedKept DEF IInv
<1>4. RoutesOK'
  <2> SUFFICES ASSUME ~overlapped PROVE RoutesOK'
    BY DEF RoutesOK
  <2>1. \A x \in Workers : doing'[x] = Free
    BY <1>1, OthersFree DEF IInv, Moves
  <2> QED
    BY <2>1, FreeRequest DEF RoutesOK
<1>5. (~overlapped /\ ~removed') => LoginsFollow'
  BY <1>1, LoginsKept
<1> QED
  BY <1>1, <1>2, <1>3, <1>4, <1>5, FreeRequest, StepKeeps

LEMMA AreaRouterSetKeeps ==
    ASSUME IInv, NEW w \in Workers, AreaRouterSet(w)
    PROVE  IInv'
<1>1. doing[w] \in Requests /\ doing[w] # Free /\ doing[w].pc = "AreaRouterSet"
  BY AtRequest DEF IInv, Steps, AreaRouterSet
<1>2. doing[w].area \in Areas /\ doing[w].operator \in Operators /\ (~overlapped => closed)
  BY <1>1 DEF IInv, RequestOK, RoutesOK
<1>3. router_set' \subseteq Areas \X Operators /\ areas_routed' \subseteq Areas \X Operators
  BY <1>2 DEF AreaRouterSet, Routed, IInv, Typed, TypeOK
<1> QED
  BY <1>1, <1>2, <1>3, RoutesStep DEF AreaRouterSet, IInv, Typed, TypeOK

LEMMA AreaRouterDeleteKeeps ==
    ASSUME IInv, NEW w \in Workers, AreaRouterDelete(w)
    PROVE  IInv'
<1>1. doing[w] \in Requests /\ doing[w] # Free /\ doing[w].pc = "AreaRouterDelete"
  BY AtRequest DEF IInv, Steps, AreaRouterDelete
<1>2. ~overlapped => closed
  BY <1>1 DEF IInv, RoutesOK
<1>3. router_set' \subseteq Areas \X Operators /\ areas_routed' \subseteq Areas \X Operators
  BY DEF AreaRouterDelete, Routed, IInv, Typed, TypeOK
<1> QED
  BY <1>1, <1>2, <1>3, RoutesStep DEF AreaRouterDelete, IInv, Typed, TypeOK

LEMMA StartKeeps ==
    ASSUME IInv, NEW w \in Workers, Start(w)
    PROVE  IInv'
<1>1. doing[w] \in Requests /\ doing[w] # Free /\ doing[w].pc = "Start"
  BY AtRequest DEF IInv, Steps, Start
<1>2. /\ operator_set \subseteq Operators /\ operators \subseteq Operators /\ closed \in BOOLEAN
      /\ router_set \subseteq Areas \X Operators /\ areas_routed \subseteq Areas \X Operators
      /\ (~overlapped /\ ~closed) => RoutesTo(areas_routed) \subseteq operators
  BY DEF IInv, Typed, TypeOK, RoutesOK
<1>3. /\ closed' \in BOOLEAN /\ operators' \subseteq Operators
      /\ router_set' \subseteq Areas \X Operators /\ areas_routed' \subseteq Areas \X Operators
      /\ (~overlapped /\ ~closed') => RoutesTo(areas_routed') \subseteq operators'
  <2>1. CASE ~closed
    BY <2>1, <1>2 DEF Start, runVars, storeVars
  <2>2. CASE closed
    BY <2>2, <1>2 DEF Start, storeVars
  <2> QED
    BY <2>1, <2>2
<1>4. Done(w) /\ UNCHANGED <<account, areas, operator_set, tableVars, panicked, asks, historyVars>>
  BY DEF Start, storeVars
<1> QED
  BY <1>1, <1>3, <1>4, RoutesStep

LEMMA PauseKeeps ==
    ASSUME IInv, NEW w \in Workers, Pause(w)
    PROVE  IInv'
<1>1. doing[w] \in Requests /\ doing[w] # Free /\ doing[w].pc = "Pause"
  BY AtRequest DEF IInv, Steps, Pause
<1> QED
  BY <1>1, RoutesStep DEF Pause, storeVars, IInv, Typed, TypeOK

----------------------------------------------------------------------------
(* Logins.                                                                 *)

LEMMA PanicsKeeps ==
    ASSUME IInv, NEW w \in Workers, doing[w] \in Requests, doing[w] # Free,
           doing[w].pc # "table", Panics(w)
    PROVE  IInv'
<1> USE DEF storeVars, runVars, tableVars, historyVars
<1>1. Moves(w, Free)
  BY GoingDone DEF IInv, Panics
<1>2. Typed'
  BY <1>1 DEF IInv, Typed, TypeOK, Moves, LoginTable, Panics
<1> QED
  BY <1>1, <1>2, FreeRequest, QuietStep DEF Panics

\* A table from which something was taken is a table, and who is left is as before.
Less(table) ==
    /\ LoginTable(table)
    /\ \A u \in Users : table[u] # Nil =>
          /\ loginuser[u] # Nil
          /\ table[u].auth = loginuser[u].auth
          /\ table[u].power = loginuser[u].power

LEMMA WithoutLess ==
    ASSUME Typed, NEW u \in Users, NEW s \in Unids, loginuser[u] # Nil
    PROVE  Less(Without(u, s))
<1> DEFINE l == [loginuser[u] EXCEPT !.unid[s] = "none"]
           n == IF \A x \in Unids : l.unid[x] = "none" THEN Nil ELSE l
<1>1. loginuser[u] \in LoginRecords
  BY DEF Typed, LoginTable
<1>2. /\ l \in LoginRecords /\ l.auth = loginuser[u].auth /\ l.power = loginuser[u].power
  BY <1>1 DEF LoginRecords
<1>3. Without(u, s) = [loginuser EXCEPT ![u] = n]
  BY DEF Without
<1>4. n # Nil => (n = l /\ \E x \in Unids : n.unid[x] # "none")
  BY <1>2
<1> HIDE DEF n, l
<1>5. \A x \in Users : Without(u, s)[x] = IF x = u THEN n ELSE loginuser[x]
  BY <1>3 DEF Typed, LoginTable
<1>6. Without(u, s) = [x \in Users |-> Without(u, s)[x]]
  BY <1>3 DEF Typed, LoginTable
<1> QED
  BY <1>2, <1>4, <1>5, <1>6 DEF Less, LoginTable, Typed

LEMMA CheckedLess ==
    ASSUME Typed, NEW u \in Users, NEW s \in Unids, checkUserLogin(u, s)
    PROVE  Less(loginuser')
BY WithoutLess DEF checkUserLogin, Less, Typed

LEMMA TypedLess ==
    ASSUME Typed, NEW w \in Workers, NEW r, Moves(w, r), Less(loginuser'),
           UNCHANGED <<storeVars, runVars, known, panicked, asks, used>>, granted' \subseteq Grants
    PROVE  Typed'
BY DEF Typed, TypeOK, Moves, Less, LoginTable, LoginRecords, runVars, storeVars

\* Logins are taken from the table, and root gives something.
LEMMA LessStep ==
    ASSUME IInv, NEW w \in Workers, NEW r, Moves(w, r), Less(loginuser'),
           UNCHANGED <<storeVars, runVars, known, panicked, asks, used, overlapped, removed>>,
           granted \subseteq granted', granted' \subseteq Grants,
           doing[w].pc # "table", RequestOK(r, granted'),
           (~overlapped /\ ~removed) => RequestFollows(r, account),
           r.pc \in {"AreaRouterSet", "AreaRouterDelete"} => closed
    PROVE  IInv'
<1> USE DEF storeVars, runVars
<1>1. Typed'
  BY TypedLess DEF IInv
<1>2. AllGranted'
  BY GrantedKept DEF IInv, Less
<1>3. RoutesOK'
  BY RoutesKept
<1>4. (~overlapped /\ ~removed') => LoginsFollow'
  BY LoginsKept DEF Less
<1> QED
  BY <1>1, <1>2, <1>3, <1>4, StepKeeps

LEMMA UserLogoutKeeps ==
    ASSUME IInv, NEW w \in Workers, UserLogout(w)
    PROVE  IInv'
<1>1. doing[w] \in Requests /\ doing[w] # Free /\ doing[w].pc = "UserLogout"
  BY AtRequest DEF IInv, Steps, UserLogout
<1>2. CASE Panics(w)
  BY <1>1, <1>2, PanicsKeeps
<1>3. CASE loginuser[doing[w].user] # Nil
  <2>1. Moves(w, Free)
    BY <1>1, <1>3, GoingDone DEF IInv, UserLogout
  <2>2. doing[w].user \in Users /\ doing[w].unid \in Unids
    BY <1>1 DEF Requests
  <2>3. Less(loginuser')
    BY <1>3, <2>2, WithoutLess DEF UserLogout, IInv
  <2>4. granted \subseteq Grants
    BY DEF IInv, Typed, TypeOK
  <2> QED
    BY <1>1, <1>3, <2>1, <2>3, <2>4, FreeRequest, LessStep DEF UserLogout, historyVars
<1> QED
  BY <1>2, <1>3 DEF UserLogout

LEMMA CheckPowerKeeps ==
    ASSUME IInv, NEW w \in Workers, CheckPower(w)
    PROVE  IInv'
<1> DEFINE r == doing[w]
           needs == IF N!Dispatch[CodeOf(r.method)].writes THEN "write" ELSE "read"
           has == loginuser[r.user].power[r.area]
<1>1. r \in Requests /\ r # Free /\ r.pc = "power"
  BY AtRequest DEF IInv, Steps, CheckPower
<1>2. CASE Panics(w)
  BY <1>1, <1>2, PanicsKeeps
<1>3. CASE loginuser[r.user] # Nil
  <2>1. Moves(w, Free) /\ UNCHANGED <<storeVars, runVars, tableVars, panicked, asks, granted, overlapped, removed>>
    BY <1>1, <1>3, GoingDone DEF IInv, CheckPower
  <2>2. r.user \in Users /\ r.area \in Areas
    BY <1>1 DEF Requests, IInv, RequestOK
  <2>3. needs \in {"read", "write"}
    OBVIOUS
  <2>4. used' = IF has \in {needs, "write"} THEN used \cup {<<r.user, r.area, needs>>} ELSE used
    BY <1>3 DEF CheckPower
  <2> HIDE DEF needs
  <2>5. has # "none" => <<r.user, r.area, has>> \in granted
    BY <1>3, <2>2 DEF IInv, AllGranted, PowersGranted
  <2> HIDE DEF has
  <2>6. used' \subseteq Users \X Areas \X Powers
    BY <2>2, <2>3, <2>4 DEF IInv, Typed, TypeOK, Powers
  <2>7. \A x \in used' : x \in granted \/ <<x[1], x[2], "write">> \in granted
    <3>1. \A x \in used : x \in granted \/ <<x[1], x[2], "write">> \in granted
      BY DEF IInv, AllGranted
    <3>2. ASSUME has \in {needs, "write"}
          PROVE  \/ <<r.user, r.area, needs>> \in granted
                 \/ <<r.user, r.area, "write">> \in granted
      BY <3>2, <2>3, <2>5
    <3> DEFINE n == <<r.user, r.area, needs>>
    <3>3. n[1] = r.user /\ n[2] = r.area
      OBVIOUS
    <3>4. has \in {needs, "write"} => n \in granted \/ <<n[1], n[2], "write">> \in granted
      BY <3>2, <3>3
    <3>5. used' = IF has \in {needs, "write"} THEN used \cup {n} ELSE used
      BY <2>4
    <3> HIDE DEF n
    <3> QED
      BY <3>1, <3>4, <3>5
  <2> USE DEF storeVars, runVars, tableVars
  <2>8. AllGranted'
    BY <2>1, <2>7 DEF IInv, AllGranted, PowersGranted
  <2>9. Typed'
    BY <2>1, <2>6 DEF IInv, Typed, TypeOK, Moves, LoginTable
  <2>10. RoutesOK'
    BY <2>1, FreeRequest, RoutesKept
  <2>11. (~overlapped /\ ~removed') => LoginsFollow'
    BY <1>1, <2>1, LoginsKept
  <2> QED
    BY <2>1, <2>8, <2>9, <2>10, <2>11, FreeRequest, StepKeeps
<1> QED
  BY <1>2, <1>3 DEF CheckPower

\* Into the table go the authority and the powers that were read.
LEMMA EnterLoginKeeps ==
    ASSUME IInv, NEW w \in Workers, EnterLogin(w)
    PROVE  IInv'
<1> DEFINE r == doing[w]
           u == r.user
           s == r.unid
           new == [unid |-> [x \in Unids |-> IF x = s THEN "active" ELSE "none"],
                   auth |-> r.read.auth, power |-> r.read.power]
           old == [loginuser[u] EXCEPT !.unid[s] = "active", !.power = r.read.power]
           now == IF loginuser[u] = Nil THEN new ELSE old
<1>1. r \in Requests /\ r # Free /\ r.pc = "enter"
  BY AtRequest DEF IInv, Steps, EnterLogin
<1>2. Moves(w, Free)
  BY <1>1, GoingDone DEF IInv, EnterLogin
<1>3. /\ u \in Users /\ s \in Unids
      /\ r.read.auth \in Authorities /\ r.read.power \in [Areas -> Powers]
  BY <1>1 DEF Requests
<1>4. loginuser' = [loginuser EXCEPT ![u] = now]
  BY DEF EnterLogin, Typed, LoginTable
<1>5. /\ new \in LoginRecords /\ new.unid[s] = "active"
      /\ new.auth = r.read.auth /\ new.power = r.read.power
  BY <1>3 DEF LoginRecords
<1>6. loginuser[u] # Nil => /\ old \in LoginRecords /\ old.unid[s] = "active"
                            /\ old.auth = loginuser[u].auth /\ old.power = r.read.power
  BY <1>3 DEF LoginRecords, IInv, Typed, LoginTable
<1> HIDE DEF new, old
<1>7. /\ now \in LoginRecords /\ now.unid[s] # "none"
      /\ now.power = r.read.power
      /\ now.auth = r.read.auth \/ (loginuser[u] # Nil /\ now.auth = loginuser[u].auth)
  BY <1>5, <1>6
<1> HIDE DEF now
<1>8. \A x \in Users : loginuser'[x] = IF x = u THEN now ELSE loginuser[x]
  BY <1>4 DEF IInv, Typed, LoginTable
<1>9. loginuser' = [x \in Users |-> loginuser'[x]]
  BY <1>4 DEF IInv, Typed, LoginTable
<1>10. LoginTable(loginuser')
  BY <1>3, <1>7, <1>8, <1>9 DEF IInv, Typed, LoginTable
<1>11. UNCHANGED <<storeVars, runVars, panicked, asks, historyVars>> /\ known' = known \cup {<<u, s>>}
  BY DEF EnterLogin
<1> USE DEF storeVars, runVars, historyVars
<1>12. Typed'
  BY <1>2, <1>3, <1>10, <1>11 DEF IInv, Typed, TypeOK, Moves, LoginTable, LoginRecords
<1>13. /\ now.auth # "NO" => <<u, now.auth>> \in granted
       /\ PowersGranted(u, now.power, granted)
  BY <1>1, <1>3, <1>7 DEF IInv, RequestOK, AllGranted
<1>14. AllGranted'
  BY <1>8, <1>11, <1>13 DEF IInv, AllGranted, PowersGranted
<1>15. RoutesOK'
  BY <1>2, <1>11, FreeRequest, RoutesKept
<1>16. ASSUME ~overlapped, ~removed'
       PROVE  LoginsFollow'
  <2>1. account[u] # Nil /\ now.power = account[u].power /\ LoginsFollow
    BY <1>1, <1>7, <1>11, <1>16 DEF IInv, FollowOK, RequestFollows
  <2>2. \A x \in Workers : doing[x].pc # "table"
    BY <1>1, <1>2, <1>16, OthersFree, FreeRequest DEF IInv
  <2> QED
    BY <1>8, <1>11, <2>1, <2>2 DEF LoginsFollow
<1> QED
  BY <1>2, <1>11, <1>12, <1>14, <1>15, <1>16, FreeRequest, StepKeeps

----------------------------------------------------------------------------
(* Accounts.                                                               *)

\* One account is written, and nothing else but the request.
LEMMA AccountStep ==
    ASSUME IInv, NEW w \in Workers, NEW r, Moves(w, r), NEW u \in Users, NEW a \in Accounts,
           account' = [account EXCEPT ![u] = a],
           <<u, a.auth>> \in granted, PowersGranted(u, a.power, granted),
           UNCHANGED <<areas, operator_set, router_set, runVars, tableVars, panicked, asks,
                       historyVars>>,
           RequestOK(r, granted), r.pc \notin {"AreaRouterSet", "AreaRouterDelete"},
           (~overlapped /\ ~removed) => LoginsFollow' /\ RequestFollows(r, account')
    PROVE  IInv'
<1> USE DEF runVars, tableVars, historyVars
<1>1. \A x \in Users : account'[x] = IF x = u THEN a ELSE account[x]
  BY DEF IInv, Typed, TypeOK
<1>2. Typed'
  BY DEF IInv, Typed, TypeOK, Moves, LoginTable
<1>3. AllGranted'
  BY <1>1 DEF IInv, AllGranted, PowersGranted
<1>4. RoutesOK'
  BY RoutesKept
<1> QED
  BY <1>2, <1>3, <1>4, StepKeeps

\* Nothing but the request.
LEMMA RequestStep ==
    ASSUME IInv, NEW w \in Workers, NEW r, Moves(w, r), doing[w].pc # "table",
           UNCHANGED <<storeVars, runVars, tableVars, panicked, asks, historyVars>>,
           RequestOK(r, granted), (~overlapped /\ ~removed) => RequestFollows(r, account),
           r.pc \notin {"AreaRouterSet", "AreaRouterDelete"}
    PROVE  IInv'
<1>1. Typed'
  BY TypedQuiet DEF IInv, Typed, TypeOK, storeVars, tableVars, historyVars
<1> QED
  BY <1>1, QuietStep DEF storeVars, tableVars

LEMMA UserAddKeeps ==
    ASSUME IInv, NEW w \in Workers, UserAdd(w)
    PROVE  IInv'
<1> DEFINE r == doing[w]
<1>1. r \in Requests /\ r # Free /\ r.pc \in {"UserAdd", "store"} /\ r.pc # "table"
  BY AtRequest DEF IInv, Steps, UserAdd
<1>2. r.whom \in Users /\ r.auth \in Authorities /\ <<r.whom, r.auth>> \in granted
  BY <1>1 DEF IInv, RequestOK, Requests
<1>3. UNCHANGED <<areas, operator_set, router_set, runVars, tableVars, panicked, asks, historyVars>>
  BY DEF UserAdd
<1>4. CASE UNCHANGED account /\ Done(w)
  BY <1>1, <1>3, <1>4, GoingDone, FreeRequest, RequestStep DEF IInv, storeVars
<1>5. CASE UNCHANGED account /\ account[r.whom] = Nil /\ Goes(w, "store")
  <2> DEFINE q == [r EXCEPT !.pc = "store"]
  <2>1. Moves(w, q) /\ q.pc = "store" /\ q.whom = r.whom /\ q.auth = r.auth
    BY <1>1, <1>5, Going, GoneOn DEF IInv, Steps
  <2> HIDE DEF q
  <2>2. RequestOK(q, granted) /\ RequestFollows(q, account)
    BY <1>2, <1>5, <2>1 DEF RequestOK, RequestFollows
  <2> QED
    BY <1>1, <1>3, <1>5, <2>1, <2>2, RequestStep DEF storeVars
<1>6. CASE /\ r.pc = "store" /\ Done(w)
           /\ account' = [account EXCEPT ![r.whom] = [auth |-> r.auth, power |-> NoPower]]
  <2> DEFINE a == [auth |-> r.auth, power |-> NoPower]
  <2>1. a \in Accounts /\ a.auth = r.auth /\ PowersGranted(r.whom, a.power, granted)
    BY <1>2 DEF Accounts, NoPower, Powers, PowersGranted
  <2>2. Moves(w, Free)
    BY <1>1, <1>6, GoingDone DEF IInv
  <2>3. ASSUME ~overlapped, ~removed
        PROVE  LoginsFollow'
    <3>1. account[r.whom] = Nil /\ LoginsFollow
      BY <1>6, <2>3 DEF IInv, FollowOK, RequestFollows
    <3>2. \A x \in Workers : doing[x].pc # "table"
      BY <1>1, <2>2, <2>3, OthersFree, FreeRequest DEF IInv
    <3> QED
      BY <1>3, <1>6, <3>1, <3>2 DEF LoginsFollow, tableVars, IInv, Typed, TypeOK
  <2> HIDE DEF a
  <2> QED
    BY <1>2, <1>3, <1>6, <2>1, <2>2, <2>3, FreeRequest, AccountStep DEF a
<1> QED
  BY <1>4, <1>5, <1>6 DEF UserAdd, At

LEMMA UserDeleteKeeps ==
    ASSUME IInv, NEW w \in Workers, UserDelete(w)
    PROVE  IInv'
<1> DEFINE r == doing[w]
<1>1. r \in Requests /\ r # Free /\ r.pc = "UserDelete"
  BY AtRequest DEF IInv, Steps, UserDelete
<1>2. Moves(w, Free)
  BY <1>1, GoingDone DEF IInv, UserDelete
<1>3. UNCHANGED <<areas, operator_set, router_set, runVars, tableVars, panicked, asks,
                  granted, used, overlapped>>
  BY DEF UserDelete
<1>4. CASE UNCHANGED <<account, removed>>
  BY <1>1, <1>2, <1>3, <1>4, FreeRequest, RequestStep DEF storeVars, historyVars
<1>5. CASE account' = [account EXCEPT ![r.whom] = Nil] /\ removed' = TRUE
  <2> USE DEF runVars, tableVars
  <2>1. Typed'
    BY <1>2, <1>3, <1>5 DEF IInv, Typed, TypeOK, Moves, LoginTable
  <2>2. \A u \in Users : account'[u] = Nil \/ account'[u] = account[u]
    BY <1>5 DEF IInv, Typed, TypeOK
  <2>3. AllGranted'
    BY <1>3, <2>2 DEF IInv, AllGranted, PowersGranted
  <2>4. RoutesOK'
    BY <1>2, <1>3, FreeRequest, RoutesKept
  <2> QED
    BY <1>2, <1>3, <1>5, <2>1, <2>3, <2>4, FreeRequest, StepKeeps
<1> QED
  BY <1>4, <1>5 DEF UserDelete

\* WRable is read, written and set in the table: root has given all of it.
LEMMA AreaAddUserKeeps ==
    ASSUME IInv, NEW w \in Workers, AreaAddUser(w)
    PROVE  IInv'
<1> DEFINE r == doing[w]
           u == r.whom
<1>0. At(w, "AreaAddUser") \/ At(w, "powers") \/ At(w, "write") \/ At(w, "table")
  BY DEF AreaAddUser
<1>1. r \in Requests /\ r # Free /\ r.pc \in {"AreaAddUser", "powers", "write", "table"}
  BY <1>0, AtRequest DEF IInv, Steps
<1>2. /\ u \in Users /\ r.area \in Areas /\ r.power \in Powers
      /\ r.read.power \in [Areas -> Powers]
      /\ r.power # "none" => <<u, r.area, r.power>> \in granted
      /\ account[u] \in Accounts \cup {Nil}
      /\ account[u] # Nil => /\ <<u, account[u].auth>> \in granted
                             /\ PowersGranted(u, account[u].power, granted)
  BY <1>1 DEF IInv, RequestOK, Requests, Typed, TypeOK, AllGranted
<1>3. UNCHANGED <<areas, operator_set, router_set, runVars, known, panicked, asks, historyVars>>
  BY DEF AreaAddUser
<1>4. CASE UNCHANGED <<account, loginuser>> /\ r.pc # "table" /\ Done(w)
  BY <1>1, <1>3, <1>4, GoingDone, FreeRequest, RequestStep DEF IInv, storeVars, tableVars
<1>5. CASE UNCHANGED <<account, loginuser>> /\ r.pc = "AreaAddUser" /\ Goes(w, "powers")
  <2> DEFINE q == [r EXCEPT !.pc = "powers"]
  <2>1. /\ Moves(w, q) /\ q.pc = "powers"
        /\ q.whom = u /\ q.area = r.area /\ q.power = r.power
    BY <1>1, <1>5, Going, GoneOn DEF IInv, Steps
  <2> HIDE DEF q
  <2>2. RequestOK(q, granted) /\ RequestFollows(q, account)
    BY <1>2, <2>1 DEF RequestOK, RequestFollows
  <2> QED
    BY <1>3, <1>5, <2>1, <2>2, RequestStep DEF storeVars, tableVars
<1>6. CASE /\ UNCHANGED <<account, loginuser>> /\ r.pc = "powers" /\ account[u] # Nil
           /\ Reads(w, "power", [account[u].power EXCEPT ![r.area] = r.power], "write")
  <2> DEFINE p == [account[u].power EXCEPT ![r.area] = r.power]
             q == [r EXCEPT !.read["power"] = p, !.pc = "write"]
  <2>1. p \in [Areas -> Powers] /\ PowersGranted(u, p, granted)
    BY <1>2, <1>6 DEF Accounts, PowersGranted
  <2>2. doing' = [doing EXCEPT ![w].read["power"] = p, ![w].pc = "write"]
    BY <1>6 DEF Reads
  <2> HIDE DEF p
  <2>3. /\ q \in Requests /\ q.pc = "write" /\ q.whom = u /\ q.area = r.area
        /\ q.power = r.power /\ q.read.power = p
    BY <1>1, <2>1 DEF Requests, Steps
  <2>4. Moves(w, q)
    BY <1>1, <2>2, <2>3 DEF Moves, IInv, Typed
  <2> HIDE DEF q
  <2>5. RequestOK(q, granted) /\ RequestFollows(q, account)
    BY <1>2, <2>1, <2>3 DEF RequestOK, RequestFollows
  <2> QED
    BY <1>3, <1>6, <2>3, <2>4, <2>5, RequestStep DEF storeVars, tableVars
<1>7. CASE /\ UNCHANGED loginuser /\ r.pc = "write" /\ account[u] # Nil
           /\ account' = [account EXCEPT ![u].power = r.read.power] /\ Goes(w, "table")
  <2> DEFINE q == [r EXCEPT !.pc = "table"]
             a == [account[u] EXCEPT !.power = r.read.power]
  <2>1. /\ Moves(w, q) /\ q.pc = "table" /\ q.whom = u
        /\ q.area = r.area /\ q.power = r.power /\ q.read = r.read
    BY <1>1, <1>7, Going, GoneOn DEF IInv, Steps
  <2>2. a \in Accounts /\ a.auth = account[u].auth /\ a.power = r.read.power
    BY <1>2, <1>7 DEF Accounts
  <2>3. account' = [account EXCEPT ![u] = a]
    BY <1>7
  <2> HIDE DEF q, a
  <2>4. PowersGranted(u, a.power, granted)
    BY <1>7, <2>2 DEF IInv, RequestOK
  <2>5. RequestOK(q, granted)
    BY <1>2, <2>1, <2>2, <2>4 DEF RequestOK
  <2>6. \A x \in Users : account'[x] = IF x = u THEN a ELSE account[x]
    BY <2>3 DEF IInv, Typed, TypeOK
  <2>7. RequestFollows(q, account')
    BY <1>2, <2>1, <2>2, <2>6, DRuleUsersAssumption DEF RequestFollows
  <2>8. ASSUME ~overlapped, ~removed
        PROVE  LoginsFollow'
    <3>1. LoginsFollow
      BY <2>8 DEF IInv, FollowOK
    <3>2. \A x \in Workers : doing[x].pc # "table"
      BY <1>7, <2>1, <2>8, OthersFree, FreeRequest DEF IInv
    <3>3. doing'[w].pc = "table" /\ doing'[w].whom = u
      BY <2>1 DEF Moves
    <3>4. a # Nil
      BY <2>2, DRuleUsersAssumption
    <3> QED
      BY <1>7, <2>6, <3>1, <3>2, <3>3, <3>4 DEF LoginsFollow
  <2> QED
    BY <1>2, <1>3, <1>7, <2>1, <2>2, <2>3, <2>4, <2>5, <2>7, <2>8, AccountStep DEF tableVars
<1>8. CASE /\ UNCHANGED account /\ r.pc = "table" /\ Done(w)
           /\ \/ loginuser[u] = Nil /\ UNCHANGED loginuser
              \/ /\ loginuser[u] # Nil
                 /\ loginuser' = [loginuser EXCEPT ![u].power = r.read.power]
  <2>1. Moves(w, Free)
    BY <1>1, <1>8, GoingDone DEF IInv
  <2>2. LoginTable(loginuser)
    BY DEF IInv, Typed
  <2>3. /\ loginuser' = [x \in Users |-> loginuser'[x]]
        /\ \A x \in Users : x # u => loginuser'[x] = loginuser[x]
        /\ loginuser[u] = Nil => loginuser'[u] = Nil
        /\ loginuser[u] # Nil => loginuser'[u] = [loginuser[u] EXCEPT !.power = r.read.power]
    BY <1>2, <1>8, <2>2 DEF LoginTable
  <2>4. loginuser[u] # Nil =>
            /\ loginuser'[u] \in LoginRecords
            /\ loginuser'[u].unid = loginuser[u].unid
            /\ loginuser'[u].auth = loginuser[u].auth
            /\ loginuser'[u].power = r.read.power
    BY <1>2, <2>2, <2>3 DEF LoginTable, LoginRecords
  <2>5. LoginTable(loginuser')
    BY <1>2, <2>2, <2>3, <2>4 DEF LoginTable
  <2> USE DEF runVars, historyVars
  <2>6. Typed'
    BY <1>3, <1>8, <2>1, <2>5 DEF IInv, Typed, TypeOK, Moves, LoginTable, LoginRecords
  <2>7. PowersGranted(u, r.read.power, granted)
    BY <1>8 DEF IInv, RequestOK
  <2>8. AllGranted'
    BY <1>3, <1>8, <2>3, <2>4, <2>7 DEF IInv, AllGranted, PowersGranted
  <2>9. RoutesOK'
    BY <1>3, <2>1, FreeRequest, RoutesKept
  <2>10. ASSUME ~overlapped, ~removed
         PROVE  LoginsFollow'
    <3>1. LoginsFollow /\ account[u] # Nil /\ r.read.power = account[u].power
      BY <1>8, <2>10 DEF IInv, FollowOK, RequestFollows
    <3>2. \A x \in Workers : x # w => doing[x].pc # "table"
      BY <2>1, <2>10, OthersFree, FreeRequest DEF IInv
    <3>3. \A x \in Users : (x # u /\ loginuser[x] # Nil) =>
             account[x] # Nil /\ loginuser[x].power = account[x].power
      BY <3>1, <3>2 DEF LoginsFollow
    <3> QED
      BY <1>8, <2>3, <2>4, <3>1, <3>3 DEF LoginsFollow
  <2> QED
    BY <1>3, <2>1, <2>6, <2>8, <2>9, <2>10, FreeRequest, StepKeeps
<1> QED
  BY <1>4, <1>5, <1>6, <1>7, <1>8 DEF AreaAddUser, At

----------------------------------------------------------------------------
(* Requests come in, and reach their handlers.                             *)

LEMMA GivesWhat ==
    ASSUME NEW r, LoggedIn(r.user, r.unid), loginuser[r.user].auth = "ROOT"
    PROVE  /\ r.method = "UserAdd" => Gives(r) = {<<r.whom, r.auth>>}
           /\ r.method = "UserAreaAlert" => Gives(r) = {<<r.whom, r.area, r.power>>}
<1>1. ASSUME r.method = "UserAdd" PROVE Gives(r) = {<<r.whom, r.auth>>}
  BY <1>1 DEF Gives
<1>2. ASSUME r.method = "UserAreaAlert" PROVE Gives(r) = {<<r.whom, r.area, r.power>>}
  BY <1>2 DEF Gives
<1> QED
  BY <1>1, <1>2

LEMMA GivesGrants ==
    ASSUME NEW m \in Called, NEW v \in Users, NEW s \in Unids, NEW r \in RequestsOf(m, v, s)
    PROVE  Gives(r) \subseteq Grants
<1>1. /\ r \in Requests /\ r.method = m
      /\ m \in {"UserAdd", "UserAreaAlert"} => r.whom \in Users
      /\ m = "UserAreaAlert" => r.area \in Areas
  BY AskedRequest DEF AboutUser, AboutArea
<1>2. r.auth \in Authorities /\ r.power \in Powers
  BY <1>1 DEF Requests
<1>3. CASE Gives(r) = {}
  BY <1>3
<1>4. CASE LoggedIn(r.user, r.unid) /\ loginuser[r.user].auth = "ROOT" /\ m = "UserAdd"
  <2>1. Gives(r) = {<<r.whom, r.auth>>}
    BY <1>1, <1>4, GivesWhat
  <2>2. <<r.whom, r.auth>> \in Grants
    BY <1>1, <1>2, <1>4 DEF Grants
  <2> QED
    BY <2>1, <2>2
<1>5. CASE LoggedIn(r.user, r.unid) /\ loginuser[r.user].auth = "ROOT" /\ m = "UserAreaAlert"
  <2>1. Gives(r) = {<<r.whom, r.area, r.power>>}
    BY <1>1, <1>5, GivesWhat
  <2>2. <<r.whom, r.area, r.power>> \in Grants
    BY <1>1, <1>2, <1>5 DEF Grants
  <2> QED
    BY <2>1, <2>2
<1> QED
  BY <1>1, <1>3, <1>4, <1>5 DEF Gives

\* The request is let through to what its method leads to, and root has given it.
LEMMA StartManageKeeps ==
    ASSUME IInv, NEW w \in Workers, StartManage(w)
    PROVE  IInv'
<1> DEFINE r == doing[w]
           m == r.method
           h == HandlerOf(m)
<1>1. r \in Requests /\ r # Free /\ r.pc = "asked"
  BY AtRequest DEF IInv, Steps, StartManage
<1>2. /\ m \in Called /\ r.user \in Users /\ r.unid \in Unids
      /\ r \in RequestsOf(m, r.user, r.unid)
  BY <1>1 DEF IInv, RequestOK, Requests
<1>3. HandlerOK(m)
  BY <1>2, ManageHandler, DRuleUsersAssumption DEF StartManage
<1>4. UNCHANGED <<storeVars, runVars, known, panicked, asks, used, overlapped, removed>>
  BY DEF StartManage
<1>5. CASE UNCHANGED <<loginuser, granted>> /\ Done(w)
  <2>1. Moves(w, Free)
    BY <1>1, <1>5, GoingDone DEF IInv
  <2>2. UNCHANGED <<tableVars, historyVars>>
    BY <1>4, <1>5 DEF tableVars, historyVars
  <2> QED
    BY <1>1, <1>4, <2>1, <2>2, FreeRequest, RequestStep
<1>6. CASE /\ ~(h.paused /\ ~closed)
           /\ IF MayManage(h, r) THEN Goes(w, h.does) ELSE Done(w)
           /\ IF h.login THEN checkUserLogin(r.user, r.unid) ELSE UNCHANGED loginuser
           /\ granted' = granted \cup Gives(r)
  <2>1. Typed
    BY DEF IInv
  <2>2. Less(loginuser')
    <3>1. CASE UNCHANGED loginuser
      BY <2>1, <3>1 DEF Less, Typed
    <3>2. CASE checkUserLogin(r.user, r.unid)
      BY <1>2, <2>1, <3>2, CheckedLess
    <3> QED
      BY <1>6, <3>1, <3>2
  <2>3. granted \subseteq granted' /\ granted' \subseteq Grants
    BY <1>2, <1>6, <2>1, GivesGrants DEF Typed, TypeOK
  <2>4. CASE Done(w)
    <3>1. Moves(w, Free)
      BY <1>1, <2>1, <2>4, GoingDone
    <3> QED
      BY <1>1, <1>4, <2>2, <2>3, <3>1, FreeRequest, LessStep
  <2>5. CASE MayManage(h, r) /\ Goes(w, h.does)
    <3> DEFINE q == [r EXCEPT !.pc = h.does]
    <3>1. Leads(m, h.does)
      BY <1>3 DEF HandlerOK
    <3>2. /\ h.does \in Steps
          /\ h.does \notin {"asked", "power", "authority", "wrable", "enter", "store", "powers",
                            "write", "table"}
      BY <3>1 DEF Leads, Steps, Looks
    <3>3. /\ Moves(w, q) /\ q.pc = h.does /\ q.whom = r.whom /\ q.area = r.area
          /\ q.operator = r.operator /\ q.auth = r.auth /\ q.power = r.power
      BY <1>1, <2>1, <2>5, <3>2, Going, GoneOn
    <3> HIDE DEF q
    <3>4. ASSUME m \in {"UserAdd", "UserAreaAlert", "UserAreaDelete"}
          PROVE  LoggedIn(r.user, r.unid) /\ loginuser[r.user].auth = "ROOT"
      BY <1>3, <2>5, <3>4 DEF HandlerOK, MayManage
    <3>5. ASSUME q.pc = "UserAdd"
          PROVE  q.whom \in Users /\ <<q.whom, q.auth>> \in granted'
      <4>1. m = "UserAdd"
        BY <3>1, <3>3, <3>5 DEF Leads
      <4>2. Gives(r) = {<<r.whom, r.auth>>} /\ r.whom \in Users
        BY <1>2, <3>4, <4>1, GivesWhat, AskedRequest DEF AboutUser
      <4> QED
        BY <1>6, <3>3, <4>2
    <3>6. ASSUME q.pc = "AreaAddUser"
          PROVE  /\ q.whom \in Users /\ q.area \in Areas
                 /\ q.power # "none" => <<q.whom, q.area, q.power>> \in granted'
      <4>1. m \in {"UserAreaAlert", "UserAreaDelete"}
        BY <3>1, <3>3, <3>6 DEF Leads
      <4>2. r.whom \in Users /\ r.area \in Areas /\ (r.power # "none" => m = "UserAreaAlert")
        BY <1>2, <4>1, AskedRequest DEF AboutUser, AboutArea
      <4>3. m = "UserAreaAlert" => Gives(r) = {<<r.whom, r.area, r.power>>}
        BY <3>4, <4>1, GivesWhat
      <4> QED
        BY <1>6, <3>3, <4>2, <4>3
    <3>7. q.pc \in {"AreaAdd", "AreaRouterSet", "AreaRouterDelete"} => q.area \in Areas
      <4>1. q.pc \in {"AreaAdd", "AreaRouterSet", "AreaRouterDelete"} => m \in AboutArea
        BY <3>1, <3>3 DEF Leads, AboutArea
      <4> QED
        BY <1>2, <3>3, <4>1, AskedRequest
    <3>8. q.pc \in {"OperatorSet", "AreaRouterSet"} => q.operator \in Operators
      <4>1. q.pc \in {"OperatorSet", "AreaRouterSet"} => m \in AboutOperator
        BY <3>1, <3>3 DEF Leads, AboutOperator
      <4> QED
        BY <1>2, <3>3, <4>1, AskedRequest
    <3>9. RequestOK(q, granted')
      BY <3>2, <3>3, <3>5, <3>6, <3>7, <3>8 DEF RequestOK
    <3>10. RequestFollows(q, account)
      BY <3>2, <3>3 DEF RequestFollows
    <3>11. q.pc \in {"AreaRouterSet", "AreaRouterDelete"} => closed
      <4>1. q.pc \in {"AreaRouterSet", "AreaRouterDelete"} =>
               m \in {"AreaRouterSet", "AreaRouterDelete"}
        BY <3>1, <3>3 DEF Leads
      <4> QED
        BY <1>3, <1>6, <4>1 DEF HandlerOK
    <3> QED
      BY <1>1, <1>4, <2>2, <2>3, <3>3, <3>9, <3>10, <3>11, LessStep
  <2> QED
    BY <1>6, <2>4, <2>5
<1> QED
  BY <1>5, <1>6 DEF StartManage

LEMMA StartNormalKeeps ==
    ASSUME IInv, NEW w \in Workers, StartNormal(w)
    PROVE  IInv'
<1> DEFINE r == doing[w]
<1>1. r \in Requests /\ r # Free /\ r.pc = "asked" /\ Typed
  BY AtRequest DEF IInv, Steps, StartNormal
<1>2. r.method \in Called /\ r.user \in Users /\ r.unid \in Unids /\ r.area \in Areas
  <2>1. r \in RequestsOf(r.method, r.user, r.unid)
    BY <1>1 DEF IInv, RequestOK
  <2>2. r.method \in Called /\ r.user \in Users /\ r.unid \in Unids
    BY <1>1 DEF Requests
  <2> QED
    BY <2>1, <2>2, AskedRequest DEF StartNormal
<1>3. UNCHANGED <<storeVars, runVars, known, panicked, asks, historyVars>>
  BY DEF StartNormal
<1>4. Less(loginuser')
  <2>1. CASE UNCHANGED loginuser
    BY <1>1, <2>1 DEF Less, Typed
  <2>2. CASE checkUserLogin(r.user, r.unid)
    BY <1>1, <1>2, <2>2, CheckedLess
  <2> QED
    BY <2>1, <2>2 DEF StartNormal
<1>5. granted \subseteq Grants
  BY <1>1 DEF Typed, TypeOK
<1>6. CASE Done(w)
  <2>1. Moves(w, Free)
    BY <1>1, <1>6, GoingDone
  <2> QED
    BY <1>1, <1>3, <1>4, <1>5, <2>1, FreeRequest, LessStep DEF historyVars
<1>7. CASE Goes(w, "power")
  <2> DEFINE q == [r EXCEPT !.pc = "power"]
  <2>1. Moves(w, q) /\ q.pc = "power" /\ q.area = r.area
    BY <1>1, <1>7, Going, GoneOn DEF Steps
  <2> HIDE DEF q
  <2>2. RequestOK(q, granted) /\ RequestFollows(q, account)
    BY <1>2, <2>1 DEF RequestOK, RequestFollows
  <2> QED
    BY <1>1, <1>3, <1>4, <1>5, <2>1, <2>2, LessStep DEF historyVars
<1> QED
  BY <1>6, <1>7 DEF StartNormal

LEMMA AskKeeps ==
    ASSUME IInv, NEW w \in Workers, NEW m \in Called, Ask(w, m)
    PROVE  IInv'
<1>1. PICK u \in Users, s \in Unids : \E r \in RequestsOf(m, u, s) : doing' = [doing EXCEPT ![w] = r]
  BY DEF Ask
<1>2. PICK r \in RequestsOf(m, u, s) : doing' = [doing EXCEPT ![w] = r]
  BY <1>1
<1>3. /\ r \in Requests /\ r.pc = "asked"
      /\ r.method = m /\ r.user = u /\ r.unid = s
  BY AskedRequest
<1>4. /\ UNCHANGED <<storeVars, runVars, tableVars, panicked, granted, used, removed>>
      /\ asks < MaxAsks /\ asks' = asks + 1
      /\ overlapped' = (overlapped \/ \E x \in Workers \ {w} : doing[x] # Free)
  BY DEF Ask
<1>5. /\ doing' \in [Workers -> Requests \cup {Free}]
      /\ doing'[w] = r /\ \A x \in Workers : x # w => doing'[x] = doing[x]
  BY <1>2, <1>3 DEF IInv, Typed
<1> USE DEF storeVars, runVars, tableVars
<1>6. Typed'
  BY <1>4, <1>5, DRuleUsersAssumption DEF IInv, Typed, TypeOK, LoginTable
<1>7. AllGranted'
  BY <1>4 DEF IInv, AllGranted, PowersGranted
<1>8. RequestOK(r, granted) /\ RequestFollows(r, account)
  BY <1>2, <1>3 DEF RequestOK, RequestFollows
<1>9. ASSUME NEW x \in Workers
      PROVE  RequestOK(doing'[x], granted')
  BY <1>4, <1>5, <1>8 DEF IInv
<1>10. ~overlapped' => /\ ~overlapped
                       /\ \A x \in Workers : x # w => doing[x] = Free /\ doing'[x] = Free
  BY <1>4, <1>5
<1>11. OneAtATime'
  BY <1>5, <1>10 DEF OneAtATime
<1>12. RoutesOK'
  <2> SUFFICES ASSUME ~overlapped' PROVE RoutesOK'
    BY DEF RoutesOK
  <2>1. \A x \in Workers : doing'[x].pc \in {"asked", "free"}
    BY <1>3, <1>5, <1>10, FreeRequest
  <2>2. ~closed => RoutesTo(areas_routed) \subseteq operators
    BY <1>10 DEF IInv, RoutesOK
  <2> QED
    BY <1>4, <2>1, <2>2 DEF RoutesOK, RoutesTo
<1>13. FollowOK'
  <2> SUFFICES ASSUME ~overlapped', ~removed' PROVE FollowOK'
    BY DEF FollowOK
  <2>1. LoginsFollow /\ \A x \in Workers : x # w => doing[x] = Free
    BY <1>4, <1>10 DEF IInv, FollowOK
  <2>2. \A x \in Workers : doing[x].pc # "table"
    BY <2>1, FreeRequest DEF Ask
  <2>3. LoginsFollow'
    BY <1>4, <2>1, <2>2 DEF LoginsFollow
  <2>4. ASSUME NEW x \in Workers
        PROVE  RequestFollows(doing'[x], account')
    BY <1>4, <1>5, <1>8, <1>10, FreeRequest
  <2> QED
    BY <2>3, <2>4 DEF FollowOK
<1> QED
  BY <1>6, <1>7, <1>9, <1>11, <1>12, <1>13 DEF IInv

LEMMA AgeKeeps ==
    ASSUME IInv, NEW u \in Users, NEW s \in Unids, Age(u, s)
    PROVE  IInv'
<1> DEFINE l == [loginuser[u] EXCEPT !.unid[s] = "old"]
<1>1. UNCHANGED <<storeVars, runVars, known, doing, panicked, asks, historyVars>>
  BY DEF Age
<1>2. loginuser[u] # Nil /\ loginuser' = [loginuser EXCEPT ![u] = l] /\ LoginTable(loginuser)
  BY DEF Age, LoggedIn, IInv, Typed
<1>3. /\ l \in LoginRecords /\ l.auth = loginuser[u].auth /\ l.power = loginuser[u].power
      /\ l.unid[s] # "none"
  BY <1>2 DEF LoginTable, LoginRecords
<1> HIDE DEF l
<1>4. Less(loginuser')
  BY <1>2, <1>3 DEF Less, LoginTable
<1> USE DEF storeVars, runVars, historyVars
<1>5. Typed'
  BY <1>1, <1>4 DEF IInv, Typed, TypeOK, Less, LoginTable, LoginRecords
<1>6. AllGranted'
  BY <1>1, <1>4, GrantedKept DEF IInv, Less
<1>7. (\A w \in Workers : RequestOK(doing[w], granted))' /\ OneAtATime' /\ RoutesOK'
  BY <1>1 DEF IInv, OneAtATime, RoutesOK, RoutesTo
<1>8. FollowOK'
  BY <1>1, <1>4 DEF IInv, FollowOK, LoginsFollow, Less
<1> QED
  BY <1>5, <1>6, <1>7, <1>8 DEF IInv

----------------------------------------------------------------------------
(* Theorems.                                                               *)

LEMMA InitOK == Init => IInv
<1> SUFFICES ASSUME Init PROVE IInv
  OBVIOUS
<1>1. PICK some \in SUBSET (Users \ {RootUser}) :
          account = [u \in Users |->
                        IF u \in some \cup {RootUser}
                        THEN [auth |-> IF u = RootUser THEN "ROOT" ELSE "NORMAL",
                              power |-> NoPower]
                        ELSE Nil]
  BY DEF Init
<1>2. \A u \in Users : account[u] # Nil => /\ account[u] \in Accounts
                                           /\ account[u].power = NoPower
                                           /\ account[u].auth \in Authorities
  BY <1>1 DEF Accounts, Authorities, NoPower, Powers
<1>3. account \in [Users -> Accounts \cup {Nil}]
  BY <1>1, <1>2
<1>4. granted = {<<u, account[u].auth>> : u \in {x \in Users : account[x] # Nil}}
  BY DEF Init
<1>5. granted \subseteq Grants
  BY <1>2, <1>4 DEF Grants
<1>6. \A w \in Workers : doing[w] = Free
  BY DEF Init
<1>7. Typed
  <2>1. LoginTable(loginuser) /\ doing \in [Workers -> Requests \cup {Free}]
    BY DEF Init, LoginTable
  <2>2. \A u \in Users : loginuser[u] = Nil
    BY DEF Init
  <2>3. asks \in 0 .. MaxAsks
    BY DRuleUsersAssumption DEF Init
  <2>4. known = {} /\ operator_set = {} /\ router_set = {} /\ operators = {} /\ areas_routed = {}
        /\ used = {} /\ closed \in BOOLEAN /\ panicked \in BOOLEAN /\ areas \subseteq Areas
    BY DEF Init
  <2> QED
    BY <1>3, <1>5, <2>1, <2>2, <2>3, <2>4 DEF Typed, TypeOK
<1>8. AllGranted
  BY <1>2, <1>4 DEF Init, AllGranted, PowersGranted, NoPower
<1>9. RoutesOK
  BY <1>6, FreeRequest DEF Init, RoutesOK, RoutesTo
<1>10. FollowOK
  BY <1>6, FreeRequest DEF Init, FollowOK, LoginsFollow
<1>11. OneAtATime /\ \A w \in Workers : RequestOK(doing[w], granted)
  BY <1>6, FreeRequest DEF OneAtATime
<1> QED
  BY <1>7, <1>8, <1>9, <1>10, <1>11 DEF IInv

LEMMA NextOK == IInv /\ [Next]_vars => IInv'
<1> SUFFICES ASSUME IInv, [Next]_vars PROVE IInv'
  OBVIOUS
<1>1. CASE UNCHANGED vars
  BY <1>1 DEF vars, storeVars, runVars, tableVars, historyVars, IInv, Typed, TypeOK, AllGranted,
              PowersGranted, OneAtATime, RoutesOK, RoutesTo, FollowOK, LoginsFollow
<1>2. ASSUME NEW w \in Workers, NEW m \in Called, Ask(w, m)
      PROVE  IInv'
  BY <1>2, AskKeeps
<1>3. ASSUME NEW w \in Workers, Serve(w)
      PROVE  IInv'
  <2>1. StartManage(w) \/ StartNormal(w) \/ CheckPower(w) => IInv'
    BY StartManageKeeps, StartNormalKeeps, CheckPowerKeeps
  <2>2. UserLogin(w) \/ EnterLogin(w) \/ UserLogout(w) => IInv'
    BY UserLoginKeeps, EnterLoginKeeps, UserLogoutKeeps
  <2>3. UserAdd(w) \/ UserDelete(w) \/ AreaAddUser(w) \/ AreaAdd(w) \/ AreaDelete(w) => IInv'
    BY UserAddKeeps, UserDeleteKeeps, AreaAddUserKeeps, AreasKeep
  <2>4. OperatorSet(w) \/ OperatorDelete(w) \/ AreaRouterSet(w) \/ AreaRouterDelete(w) => IInv'
    BY OperatorsKeep, AreaRouterSetKeeps, AreaRouterDeleteKeeps
  <2>5. Start(w) \/ Pause(w) \/ Look(w) => IInv'
    BY StartKeeps, PauseKeeps, LookKeeps
  <2> QED
    BY <1>3, <2>1, <2>2, <2>3, <2>4, <2>5 DEF Serve
<1>4. ASSUME NEW u \in Users, NEW s \in Unids, Age(u, s)
      PROVE  IInv'
  BY <1>4, AgeKeeps
<1> QED
  BY <1>1, <1>2, <1>3, <1>4 DEF Next

\* The inductive invariant: the types; what users are given and what is on its way to an
\* account, to the table or back from one is what root has given; a request past its
\* handler has what it is about; and, while requests come one at a time, what a request
\* has read still holds.
THEOREM DRuleUsersInvariant == Spec => []IInv
BY InitOK, NextOK, PTL DEF Spec

\* The accounts, the table of logins, the routes and the histories keep their types
\* (DRuleUser, loginUser, areasRoute).
THEOREM DRuleUsersType == Spec => []TypeOK
<1>1. IInv => TypeOK
  BY DEF IInv, Typed
<1> QED
  BY <1>1, DRuleUsersInvariant, PTL

\* Every authority and every power, on the disk, in the table or used, goes back to a user
\* with the authority of root, whatever overlaps (getUserAuthority, AreaAddUser).
THEOREM RootGrantsAll == Spec => []OnlyRootGrants
<1>1. IInv => OnlyRootGrants
  BY DEF IInv, AllGranted, PowersGranted, OnlyRootGrants
<1> QED
  BY <1>1, DRuleUsersInvariant, PTL

\* One request after the other, and nobody deleted: between requests the table has the
\* powers of the accounts (AreaAddUser, UserLogin).
THEOREM TableFollows == Spec => []PowersFollowOneAtATime
<1>1. IInv => PowersFollowOneAtATime
  <2> SUFFICES ASSUME IInv, AtRest, ~overlapped, ~removed PROVE PowersFollow
    BY DEF PowersFollowOneAtATime
  <2>1. LoginsFollow /\ \A w \in Workers : doing[w].pc # "table"
    BY FreeRequest DEF IInv, FollowOK, AtRest
  <2> QED
    BY <2>1 DEF LoginsFollow, PowersFollow
<1> QED
  BY <1>1, DRuleUsersInvariant, PTL

\* One request after the other: a DRule at work has an operator for every route (Start,
\* and that routes are set in a pause only).
THEOREM StartedHasOperators == Spec => []RoutesHaveOperators
<1>1. IInv => RoutesHaveOperators
  BY DEF IInv, RoutesOK, RoutesHaveOperators
<1> QED
  BY <1>1, DRuleUsersInvariant, PTL
=============================================================================
