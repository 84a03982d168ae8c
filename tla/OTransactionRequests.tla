------------------------ MODULE OTransactionRequests ------------------------
(***************************************************************************)
(* What each method of an OTransaction (src/drule2/operator/otransaction.go)*)
(* sends to its DRule, as a table.                                         *)
(*                                                                         *)
(* A method of a transaction that has been ended by Commit or Rollback only*)
(* says so.  The others renew the transaction's activetime, except Commit and*)
(* Rollback themselves; they do not look at the login, and send the request*)
(* with the transaction's id.                                              *)
(***************************************************************************)
Normal(operate) ==
    [ operate |-> operate,
      renews  |-> TRUE,     \* activetime
      goes_on |-> FALSE ]   \* goes on with the data of the receipt when that is an error

\* Commit and Rollback.
Ending(operate) == [Normal(operate) EXCEPT !.renews = FALSE]

GoingOn(request) == [request EXCEPT !.goes_on = TRUE]

Commit == Ending("OPERATE_TRAN_COMMIT")

Rollback == Ending("OPERATE_TRAN_ROLLBACK")

ExistRole == Normal("OPERATE_EXIST_ROLE")

ReadRole == GoingOn(Normal("OPERATE_READ_ROLE"))

ReadRoleToMiddleData == GoingOn(Normal("OPERATE_READ_ROLE"))

StoreRole == Normal("OPERATE_WRITE_ROLE")

StoreRoleFromMiddleData == Normal("OPERATE_WRITE_ROLE")

DeleteRole == Normal("OPERATE_DEL_ROLE")

WriteFather == Normal("OPERATE_SET_FATHER")

ReadFather == Normal("OPERATE_GET_FATHER")

ReadChildren == Normal("OPERATE_GET_CHILDREN")

WriteChildren == Normal("OPERATE_SET_CHILDREN")

WriteChild == Normal("OPERATE_ADD_CHILD")

DeleteChild == Normal("OPERATE_DEL_CHILD")

ExistChild == Normal("OPERATE_EXIST_CHILD")

ReadFriends == Normal("OPERATE_GET_FRIENDS")

WriteFriends == Normal("OPERATE_SET_FRIENDS")

WriteFriendStatus == Normal("OPERATE_SET_FRIEND_STATUS")

ReadFriendStatus == Normal("OPERATE_GET_FRIEND_STATUS")

DeleteFriend == Normal("OPERATE_DEL_FRIEND")

CreateContext == Normal("OPERATE_ADD_CONTEXT")

ExistContext == Normal("OPERATE_EXIST_CONTEXT")

DropContext == Normal("OPERATE_DROP_CONTEXT")

WriteContext == Normal("OPERATE_WRITE_CONTEXT")

ReadContext == Normal("OPERATE_READ_CONTEXT")

DeleteContextBind == Normal("OPERATE_DEL_CONTEXT_BIND")

ReadContextSameBind == Normal("OPERATE_CONTEXT_SAME_BIND")

ReadContextsName == Normal("OPERATE_GET_CONTEXTS_NAME")

WriteContextStatus == Normal("OPERATE_SET_CONTEXT_STATUS")

ReadContextStatus == Normal("OPERATE_GET_CONTEXT_STATUS")

WriteContexts == Normal("OPERATE_SET_CONTEXTS")

ReadContexts == Normal("OPERATE_GET_CONTEXTS")

WriteData == Normal("OPERATE_SET_DATA")

WriteDataFromByte == Normal("OPERATE_SET_DATA")

ReadData == Normal("OPERATE_GET_DATA")

ReadDataToByte == Normal("OPERATE_GET_DATA")

LockRole == Normal("OPERATE_TRAN_PREPARE")

Methods ==
    [ Commit |-> Commit, Rollback |-> Rollback, ExistRole |-> ExistRole, ReadRole |->
      ReadRole, ReadRoleToMiddleData |-> ReadRoleToMiddleData, StoreRole |-> StoreRole,
      StoreRoleFromMiddleData |-> StoreRoleFromMiddleData, DeleteRole |-> DeleteRole,
      WriteFather |-> WriteFather, ReadFather |-> ReadFather, ReadChildren |-> ReadChildren,
      WriteChildren |-> WriteChildren, WriteChild |-> WriteChild, DeleteChild |-> DeleteChild,
      ExistChild |-> ExistChild, ReadFriends |-> ReadFriends, WriteFriends |-> WriteFriends,
      WriteFriendStatus |-> WriteFriendStatus, ReadFriendStatus |-> ReadFriendStatus,
      DeleteFriend |-> DeleteFriend, CreateContext |-> CreateContext, ExistContext |->
      ExistContext, DropContext |-> DropContext, WriteContext |-> WriteContext, ReadContext
      |-> ReadContext, DeleteContextBind |-> DeleteContextBind, ReadContextSameBind |->
      ReadContextSameBind, ReadContextsName |-> ReadContextsName, WriteContextStatus |->
      WriteContextStatus, ReadContextStatus |-> ReadContextStatus, WriteContexts |->
      WriteContexts, ReadContexts |-> ReadContexts, WriteData |-> WriteData, WriteDataFromByte
      |-> WriteDataFromByte, ReadData |-> ReadData, ReadDataToByte |-> ReadDataToByte,
      LockRole |-> LockRole ]
=============================================================================
