--------------------------- MODULE RoleAutoCommit ---------------------------
(***************************************************************************)
(* The operations of TRule itself (src/drule2/trule2/trule.go), as a table:*)
(* which operation of a transaction of its own a method makes, or which it *)
(* makes on the store below past every transaction.                        *)
(*                                                                         *)
(* An automatic transaction ends in Rollback when its operation has failed,*)
(* and in Commit otherwise; what the Commit answers is not looked at.      *)
(***************************************************************************)
T == INSTANCE RoleOperations

Auto(op) == [op |-> op, transaction |-> TRUE]

\* Straight to the store: no cache, no lock, no queue.
Direct(op) == [op |-> op, transaction |-> FALSE]

\* The disk.

ExistRole == Direct(T!ExistRole)

StoreRole == Direct(T!StoreRole)

StoreRoleFromMiddleData == Direct(T!StoreRoleFromMiddleData)

ReadRole == Direct(T!ReadRole)

ReadRoleMiddleData == Direct(T!ReadRoleMiddleData)

DeleteRole == Direct(T!DeleteRole)

\* A transaction for one operation.

WriteFather == Auto(T!WriteFather)

ReadFather == Auto(T!ReadFather)

ResetFather == Auto(T!ResetFather)

ReadChildren == Auto(T!ReadChildren)

WriteChildren == Auto(T!WriteChildren)

ResetChildren == Auto(T!ResetChildren)

WriteChild == Auto(T!WriteChild)

DeleteChild == Auto(T!DeleteChild)

ExistChild == Auto(T!ExistChild)

ReadFriends == Auto(T!ReadFriends)

WriteFriends == Auto(T!WriteFriends)

ResetFriends == Auto(T!ResetFriends)

WriteFriend == Auto(T!WriteFriend)

DeleteFriend == Auto(T!DeleteFriend)

CreateContext == Auto(T!CreateContext)

ExistContext == Auto(T!ExistContext)

DropContext == Auto(T!DropContext)

ReadContext == Auto(T!ReadContext)

WriteContext == Auto(T!WriteContext)

DeleteContextBind == Auto(T!DeleteContextBind)

ReadContextSameBind == Auto(T!ReadContextSameBind)

ReadContextsName == Auto(T!ReadContextsName)

WriteFriendStatus == Auto(T!WriteFriendStatus)

ReadFriendStatus == Auto(T!ReadFriendStatus)

WriteContextStatus == Auto(T!WriteContextStatus)

ReadContextStatus == Auto(T!ReadContextStatus)

WriteContexts == Auto(T!WriteContexts)

ReadContexts == Auto(T!ReadContexts)

ResetContexts == Auto(T!ResetContexts)

WriteData == Auto(T!WriteData)

WriteDataFromByte == Auto(T!WriteDataFromByte)

ReadData == Auto(T!ReadData)

ReadDataToByte == Auto(T!ReadDataToByte)

Methods ==
    [ ExistRole |-> ExistRole, StoreRole |-> StoreRole, StoreRoleFromMiddleData |->
      StoreRoleFromMiddleData, ReadRole |-> ReadRole, ReadRoleMiddleData |->
      ReadRoleMiddleData, DeleteRole |-> DeleteRole, WriteFather |-> WriteFather, ReadFather
      |-> ReadFather, ResetFather |-> ResetFather, ReadChildren |-> ReadChildren,
      WriteChildren |-> WriteChildren, ResetChildren |-> ResetChildren, WriteChild |->
      WriteChild, DeleteChild |-> DeleteChild, ExistChild |-> ExistChild, ReadFriends |->
      ReadFriends, WriteFriends |-> WriteFriends, ResetFriends |-> ResetFriends, WriteFriend
      |-> WriteFriend, DeleteFriend |-> DeleteFriend, CreateContext |-> CreateContext,
      ExistContext |-> ExistContext, DropContext |-> DropContext, ReadContext |-> ReadContext,
      WriteContext |-> WriteContext, DeleteContextBind |-> DeleteContextBind,
      ReadContextSameBind |-> ReadContextSameBind, ReadContextsName |-> ReadContextsName,
      WriteFriendStatus |-> WriteFriendStatus, ReadFriendStatus |-> ReadFriendStatus,
      WriteContextStatus |-> WriteContextStatus, ReadContextStatus |-> ReadContextStatus,
      WriteContexts |-> WriteContexts, ReadContexts |-> ReadContexts, ResetContexts |->
      ResetContexts, WriteData |-> WriteData, WriteDataFromByte |-> WriteDataFromByte,
      ReadData |-> ReadData, ReadDataToByte |-> ReadDataToByte ]
=============================================================================
