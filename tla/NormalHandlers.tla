--------------------------- MODULE NormalHandlers ---------------------------
(***************************************************************************)
(* What a DRule does with a request on a role                              *)
(* (src/drule2/drule/operate_normal_2.go), as a table: the authority it asks*)
(* for, the method it calls on its own store, and on the operators of the  *)
(* other DRules when the role is not here.                                 *)
(*                                                                         *)
(* Every handler looks up authority and position first.  Inside a transaction*)
(* it calls the method of the same name of the Transaction or OTransaction.*)
(***************************************************************************)
Handler(local, remote, writes, checks) ==
    [ local |-> local, remote |-> remote,
      writes |-> writes,    \* needs the authority to write, and goes to all operators
      checks |-> checks ]   \* answers with an error when the local call has failed

\* A write goes to every operator in turn; the errors are collected.
ToAll(method) == Handler(method, method, TRUE, TRUE)

\* A read goes to one operator; that a local read has failed is not looked at, and
\* the answer is DATA_ALL_OK.
FromOne(method) == Handler(method, method, FALSE, FALSE)

normalExitRole == FromOne("ExistRole")

normalReadRole == Handler("ReadRoleMiddleData", "ReadRoleToMiddleData", FALSE, FALSE)

normalStoreRole == ToAll("StoreRoleFromMiddleData")

normalDeleteRole == ToAll("DeleteRole")

normalWriteFather == ToAll("WriteFather")

normalReadFather == FromOne("ReadFather")

normalReadChildren == FromOne("ReadChildren")

normalWriteChildren == ToAll("WriteChildren")

\* Mutant of normalWriteChild: the method next to it.
normalWriteChildOfChildren == ToAll("WriteChildren")

normalWriteChild == ToAll("WriteChild")

normalDeleteChild == ToAll("DeleteChild")

normalExistChild == FromOne("ExistChild")

normalReadFriends == FromOne("ReadFriends")

normalWriteFriends == ToAll("WriteFriends")

normalWriteFriendStatus == ToAll("WriteFriendStatus")

normalReadFriendStatus == FromOne("ReadFriendStatus")

normalDeleteFriend == ToAll("DeleteFriend")

normalCreateContext == ToAll("CreateContext")

normalExistContext == FromOne("ExistContext")

normalDropContext == ToAll("DropContext")

normalWriteContext == ToAll("WriteContext")

normalReadContext == FromOne("ReadContext")

normalDeleteContextBind == ToAll("DeleteContextBind")

normalReadContextSameBind == FromOne("ReadContextSameBind")

normalReadContextsName == FromOne("ReadContextsName")

normalWriteContextStatus == ToAll("WriteContextStatus")

normalReadContextStatus == FromOne("ReadContextStatus")

normalWriteContexts == ToAll("WriteContexts")

normalReadContexts == FromOne("ReadContexts")

normalWriteData == ToAll("WriteDataFromByte")

normalReadData == FromOne("ReadDataToByte")

\* The switch of checkTranOrNoTran.
Dispatch ==
    [ OPERATE_EXIST_ROLE |-> normalExitRole,
      OPERATE_READ_ROLE |-> normalReadRole,
      OPERATE_WRITE_ROLE |-> normalStoreRole,
      OPERATE_DEL_ROLE |-> normalDeleteRole,
      OPERATE_SET_FATHER |-> normalWriteFather,
      OPERATE_GET_FATHER |-> normalReadFather,
      OPERATE_GET_CHILDREN |-> normalReadChildren,
      OPERATE_SET_CHILDREN |-> normalWriteChildren,
      OPERATE_ADD_CHILD |-> normalWriteChild,
      OPERATE_DEL_CHILD |-> normalDeleteChild,
      OPERATE_EXIST_CHILD |-> normalExistChild,
      OPERATE_GET_FRIENDS |-> normalReadFriends,
      OPERATE_SET_FRIENDS |-> normalWriteFriends,
      OPERATE_SET_FRIEND_STATUS |-> normalWriteFriendStatus,
      OPERATE_GET_FRIEND_STATUS |-> normalReadFriendStatus,
      OPERATE_DEL_FRIEND |-> normalDeleteFriend,
      OPERATE_ADD_CONTEXT |-> normalCreateContext,
      OPERATE_EXIST_CONTEXT |-> normalExistContext,
      OPERATE_DROP_CONTEXT |-> normalDropContext,
      OPERATE_READ_CONTEXT |-> normalReadContext,
      OPERATE_WRITE_CONTEXT |-> normalWriteContext,
      OPERATE_DEL_CONTEXT_BIND |-> normalDeleteContextBind,
      OPERATE_CONTEXT_SAME_BIND |-> normalReadContextSameBind,
      OPERATE_GET_CONTEXTS_NAME |-> normalReadContextsName,
      OPERATE_SET_CONTEXT_STATUS |-> normalWriteContextStatus,
      OPERATE_GET_CONTEXT_STATUS |-> normalReadContextStatus,
      OPERATE_SET_CONTEXTS |-> normalWriteContexts,
      OPERATE_GET_CONTEXTS |-> normalReadContexts,
      OPERATE_SET_DATA |-> normalWriteData,
      OPERATE_GET_DATA |-> normalReadData ]
=============================================================================
