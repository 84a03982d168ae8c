-------------------------- MODULE OperatorRequests --------------------------
(***************************************************************************)
(* What each method of an Operator (src/drule2/operator/functions.go,      *)
(* functions2.go) sends to its DRule, as a table.                          *)
(*                                                                         *)
(* A method of an operator that is being closed only says so.  The others  *)
(* look at the login first (checkLogin), except those that log in and out; *)
(* they open a progress, send the request and wait for the receipt.        *)
(***************************************************************************)
Request(zone, operate) ==
    [ zone     |-> zone,
      operate  |-> operate,
      login    |-> TRUE,    \* looks at the login first
      goes_on  |-> FALSE ]  \* goes on with the data of the receipt when that is an error

Manage(operate) == Request("MANAGE", operate)

System(operate) == Request("SYSTEM", operate)

Normal(operate) == Request("NORMAL", operate)

Unchecked(request) == [request EXCEPT !.login = FALSE]

GoingOn(request) == [request EXCEPT !.goes_on = TRUE]

Password == Manage("OPERATE_USER_PASSWORD")

UserAdd == Manage("OPERATE_USER_ADD")

UserDel == Manage("OPERATE_USER_DEL")

UserLoginSha1 == GoingOn(Unchecked(Manage("OPERATE_USER_LOGIN")))

UserLogin == GoingOn(Unchecked(Manage("OPERATE_USER_LOGIN")))

UserLogout == Unchecked(Manage("OPERATE_USER_LOGOUT"))

UserList == GoingOn(Manage("OPERATE_USER_DEL"))

AreaAdd == Manage("OPERATE_AREA_ADD")

AreaDel == Manage("OPERATE_AREA_DEL")

AreaExist == GoingOn(Manage("OPERATE_AREA_DEL"))

AreaRename == Manage("OPERATE_AREA_DEL")

AreaList == GoingOn(Manage("OPERATE_AREA_LIST"))

UserAreaAlert == Manage("OPERATE_USER_AREA")

UserAreaDelete == Manage("OPERATE_USER_AREA")

DRuleOperatorSet == Manage("OPERATE_DRULE_OPERATOR_SET")

DRuleOperatorDelete == Manage("OPERATE_DRULE_OPERATOR_DELETE")

DRuleOperatorList == GoingOn(Manage("OPERATE_DRULE_OPERATOR_LIST"))

AreaRouterSet == Manage("OPERATE_AREA_ROUTER_SET")

AreaRouterDelete == Manage("OPERATE_AREA_ROUTER_DELETE")

AreaRouterList == GoingOn(Manage("OPERATE_AREA_ROUTER_LIST"))

DRuleModeGet == GoingOn(System("OPERATE_DRULE_OPERATE_MODE"))

DRuleStart == System("OPERATE_DRULE_START")

DRulePause == System("OPERATE_DRULE_PAUSE")

Begin == Normal("OPERATE_TRAN_BEGIN")

ExistRole == Normal("OPERATE_EXIST_ROLE")

ReadRole == GoingOn(Normal("OPERATE_READ_ROLE"))

ReadRoleToMiddleData == GoingOn(Normal("OPERATE_READ_ROLE"))

StoreRole == Normal("OPERATE_WRITE_ROLE")

StoreRoleFromMiddleData == Normal("OPERATE_WRITE_ROLE")

DeleteRole == Normal("OPERATE_DEL_ROLE")

WriteFather == Normal("OPERATE_SET_FATHER")

ReadFather == Normal("OPERATE_GET_FATHER")

ReadChildren == Normal("OPERATE_GET_CHILDREN")

WriteChildren == Normal("OPERATE_SET_CHILDREN")

WriteChild == Normal("OPERATE_ADD_CHILD")

DeleteChild == Normal("OPERATE_DEL_CHILD")

ExistChild == Normal("OPERATE_EXIST_CHILD")

ReadFriends == Normal("OPERATE_GET_FRIENDS")

WriteFriends == Normal("OPERATE_SET_FRIENDS")

WriteFriendStatus == Normal("OPERATE_SET_FRIEND_STATUS")

ReadFriendStatus == Normal("OPERATE_GET_FRIEND_STATUS")

DeleteFriend == Normal("OPERATE_DEL_FRIEND")

CreateContext == Normal("OPERATE_ADD_CONTEXT")

ExistContext == Normal("OPERATE_EXIST_CONTEXT")

DropContext == Normal("OPERATE_DROP_CONTEXT")

WriteContext == Normal("OPERATE_WRITE_CONTEXT")

ReadContext == Normal("OPERATE_READ_CONTEXT")

DeleteContextBind == Normal("OPERATE_DEL_CONTEXT_BIND")

ReadContextSameBind == Normal("OPERATE_CONTEXT_SAME_BIND")

ReadContextsName == Normal("OPERATE_GET_CONTEXTS_NAME")

WriteContextStatus == Normal("OPERATE_SET_CONTEXT_STATUS")

ReadContextStatus == Normal("OPERATE_GET_CONTEXT_STATUS")

WriteContexts == Normal("OPERATE_SET_CONTEXTS")

ReadContexts == Normal("OPERATE_GET_CONTEXTS")

WriteData == Normal("OPERATE_SET_DATA")

WriteDataFromByte == Normal("OPERATE_SET_DATA")

ReadData == Normal("OPERATE_GET_DATA")

ReadDataToByte == Normal("OPERATE_GET_DATA")

Methods ==
    [ Password |-> Password, UserAdd |-> UserAdd, UserDel |-> UserDel, UserLoginSha1 |->
      UserLoginSha1, UserLogin |-> UserLogin, UserLogout |-> UserLogout, UserList |->
      UserList, AreaAdd |-> AreaAdd, AreaDel |-> AreaDel, AreaExist |-> AreaExist, AreaRename
      |-> AreaRename, AreaList |-> AreaList, UserAreaAlert |-> UserAreaAlert, UserAreaDelete
      |-> UserAreaDelete, DRuleOperatorSet |-> DRuleOperatorSet, DRuleOperatorDelete |->
      DRuleOperatorDelete, DRuleOperatorList |-> DRuleOperatorList, AreaRouterSet |->
      AreaRouterSet, AreaRouterDelete |-> AreaRouterDelete, AreaRouterList |-> AreaRouterList,
      DRuleModeGet |-> DRuleModeGet, DRuleStart |-> DRuleStart, DRulePause |-> DRulePause,
      Begin |-> Begin, ExistRole |-> ExistRole, ReadRole |-> ReadRole, ReadRoleToMiddleData
      |-> ReadRoleToMiddleData, StoreRole |-> StoreRole, StoreRoleFromMiddleData |->
      StoreRoleFromMiddleData, DeleteRole |-> DeleteRole, WriteFather |-> WriteFather,
      ReadFather |-> ReadFather, ReadChildren |-> ReadChildren, WriteChildren |->
      WriteChildren, WriteChild |-> WriteChild, DeleteChild |-> DeleteChild, ExistChild |->
      ExistChild, ReadFriends |-> ReadFriends, WriteFriends |-> WriteFriends,
      WriteFriendStatus |-> WriteFriendStatus, ReadFriendStatus |-> ReadFriendStatus,
      DeleteFriend |-> DeleteFriend, CreateContext |-> CreateContext, ExistContext |->
      ExistContext, DropContext |-> DropContext, WriteContext |-> WriteContext, ReadContext
      |-> ReadContext, DeleteContextBind |-> DeleteContextBind, ReadContextSameBind |->
      ReadContextSameBind, ReadContextsName |-> ReadContextsName, WriteContextStatus |->
      WriteContextStatus, ReadContextStatus |-> ReadContextStatus, WriteContexts |->
      WriteContexts, ReadContexts |-> ReadContexts, WriteData |-> WriteData, WriteDataFromByte
      |-> WriteDataFromByte, ReadData |-> ReadData, ReadDataToByte |-> ReadDataToByte ]
=============================================================================
