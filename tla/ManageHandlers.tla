--------------------------- MODULE ManageHandlers ---------------------------
(***************************************************************************)
(* What a DRule does with a request to manage it                           *)
(* (src/drule2/drule/operate_manage.go, operate_sys.go), as a table: what it*)
(* asks of the user, and the method of DRule that does the work.  A password,*)
(* an address, and all of an area but the guard against INSIDE_DMZ, are dealt*)
(* with by the handler itself as the method would.                         *)
(***************************************************************************)
Handler(does) ==
    [ does   |-> does,
      login  |-> TRUE,      \* the user must be logged in
      root   |-> FALSE,     \* and have USER_AUTHORITY_ROOT
      own    |-> FALSE,     \* and be the user it is about
      paused |-> FALSE ]    \* the DRule must be paused, which is looked at first

Open(does) == [Handler(does) EXCEPT !.login = FALSE]

LoggedIn(does) == Handler(does)

Rooted(does) == [Handler(does) EXCEPT !.root = TRUE]

Own(does) == [Rooted(does) EXCEPT !.own = TRUE]

Paused(does) == [Rooted(does) EXCEPT !.paused = TRUE]

sys_druleStart == Rooted("Start")

sys_drulePause == Rooted("Pause")

sys_druleMode == Rooted("WorkMode")

man_userLogin == Open("UserLogin")

man_userAddLife == LoggedIn("checkUserLogin")

man_userCheckLogin == LoggedIn("checkUserLogin")

man_userAdd == Rooted("UserAdd")

man_userPassword == Own("UserPassword")

man_userEmail == Own("UserEmail")

man_userDel == Rooted("UserDelete")

man_userLogout == LoggedIn("UserLogout")

man_userList == Rooted("UserList")

man_areaAdd == Rooted("AreaAdd")

man_areaDel == Rooted("AreaDelete")

man_areaRename == Rooted("AreaRename")

man_areaExist == Rooted("AreaExist")

man_areaList == Rooted("AreaList")

man_areaAndUser == Rooted("AreaAddUser")

man_operatorSet == Paused("OperatorSet")

man_operatorDel == Paused("OperatorDelete")

man_operatorList == Rooted("OperatorList")

man_areaRouterSet == Paused("AreaRouterSet")

man_areaRouterDel == Paused("AreaRouterDelete")

man_areaRouterList == Rooted("AreaRouterList")

\* operateSys, operateManage.
Dispatch ==
    [ OPERATE_DRULE_START |-> sys_druleStart,
      OPERATE_DRULE_PAUSE |-> sys_drulePause,
      OPERATE_DRULE_OPERATE_MODE |-> sys_druleMode,
      OPERATE_USER_LOGIN |-> man_userLogin,
      OPERATE_USER_ADD_LIFE |-> man_userAddLife,
      OPERATE_USER_CHECK_LOGIN |-> man_userCheckLogin,
      OPERATE_USER_ADD |-> man_userAdd,
      OPERATE_USER_PASSWORD |-> man_userPassword,
      OPERATE_USER_EMAIL |-> man_userEmail,
      OPERATE_USER_DEL |-> man_userDel,
      OPERATE_USER_LOGOUT |-> man_userLogout,
      OPERATE_USER_LIST |-> man_userList,
      OPERATE_AREA_ADD |-> man_areaAdd,
      OPERATE_AREA_DEL |-> man_areaDel,
      OPERATE_AREA_RENAME |-> man_areaRename,
      OPERATE_AREA_EXIST |-> man_areaExist,
      OPERATE_AREA_LIST |-> man_areaList,
      OPERATE_USER_AREA |-> man_areaAndUser,
      OPERATE_DRULE_OPERATOR_SET |-> man_operatorSet,
      OPERATE_DRULE_OPERATOR_DELETE |-> man_operatorDel,
      OPERATE_DRULE_OPERATOR_LIST |-> man_operatorList,
      OPERATE_AREA_ROUTER_SET |-> man_areaRouterSet,
      OPERATE_AREA_ROUTER_DELETE |-> man_areaRouterDel,
      OPERATE_AREA_ROUTER_LIST |-> man_areaRouterList ]
=============================================================================
