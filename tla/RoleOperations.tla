-------------------------- MODULE RoleOperations --------------------------
(***************************************************************************)
(* The operations of a transaction on one role (src/drule2/trule2/         *)
(* transaction.go), as a table: what each does to the lock, to the role    *)
(* and to its be_change mark.  RoleStore says what becomes of them.        *)
(*                                                                         *)
(* Every operation refuses a transaction that is marked be_delete and      *)
(* renews its tran_time first, gets the role (getrole) with its lock mode, *)
(* and gives up on an error.  What it then does is its effect:             *)
(*   "none"     nothing;                                                   *)
(*   "replace"  the part gets a new value that shares nothing with the old;*)
(*   "extend"   a new value made of the old one;                           *)
(*   "modify"   a change inside the slice or map that is there;            *)
(*   "store", "delete"  the whole role is replaced, or marked deleted.     *)
(***************************************************************************)
Parts == {"father", "children", "friends", "contexts", "data"}

Operations ==
    [ part   : Parts \cup {"whole"},
      lock   : {"READ", "WRITE"},
      effect : {"none", "replace", "extend", "modify", "store", "delete"},
      marks  : BOOLEAN,     \* sets be_change
      fails  : BOOLEAN ]    \* may end in an error after getrole has succeeded

Reading(part) ==
    [part |-> part, lock |-> "READ", effect |-> "none", marks |-> FALSE, fails |-> FALSE]

Locking(part) == [Reading(part) EXCEPT !.lock = "WRITE"]

Writing(part, effect) ==
    [part |-> part, lock |-> "WRITE", effect |-> effect, marks |-> TRUE, fails |-> FALSE]

Replacing(part) == Writing(part, "replace")

Extending(part) == Writing(part, "extend")

Modifying(part) == Writing(part, "modify")

MayFail(op) == [op EXCEPT !.fails = TRUE]

----------------------------------------------------------------------------
\* What reads: the part of the role it returns.  A role that is not cached yet is
\* loaded, and stays in the cache without an occupier.

ExistRole == Reading("whole")

ReadFather == Reading("father")

ReadChildren == Reading("children")

ExistChild == Reading("children")

ReadFriends == Reading("friends")

ReadFriendStatus == MayFail(Reading("friends"))

ExistContext == Reading("contexts")

ReadContext == Reading("contexts")

ReadContextSameBind == MayFail(Reading("contexts"))

ReadContextsName == Reading("contexts")

ReadContextStatus == MayFail(Reading("contexts"))

ReadContexts == Reading("contexts")

ReadData == MayFail(Reading("data"))

ReadDataToByte == MayFail(Reading("data"))

\* What reads the whole role to write it back: it asks for the write lock.

ReadRole == MayFail(Locking("whole"))

ReadRoleMiddleData == Locking("whole")

ReadRoleByte == MayFail(Locking("whole"))

\* LockRole takes locks and nothing else; it is the one that neither looks at
\* be_delete nor renews tran_time.

LockRole == Locking("whole")

\* StoreRole puts a new role in the place of the one there is, or makes one, and
\* DeleteRole marks it: neither goes by the part.  DeleteRole does not set be_change.

StoreRole == Writing("whole", "store")

StoreRoleFromMiddleData == StoreRole

StoreRoleByte == StoreRole

DeleteRole == [Locking("whole") EXCEPT !.effect = "delete"]

\* What gives a part a new value: Father is a string, and the maps and the slice
\* given by the caller take the place of the old ones.

WriteFather == Replacing("father")

ResetFather == WriteFather

WriteChildren == Replacing("children")

ResetChildren == WriteChildren

WriteFriends == Replacing("friends")

ResetFriends == WriteFriends

WriteContexts == Replacing("contexts")

ResetContexts == WriteContexts

\* append makes a new slice of the children: one that was read from the disk has
\* no room to spare.

WriteChild == Extending("children")

\* What changes the slice or the map that is there.  The last of these mark the
\* role changed even when the change has failed.

DeleteChild == Modifying("children")

WriteFriendStatus == MayFail(Modifying("friends"))

WriteFriend == WriteFriendStatus

CreateContext == MayFail(Modifying("contexts"))

DropContext == Modifying("contexts")

DeleteContextBind == MayFail(Modifying("contexts"))

WriteContextStatus == MayFail(Modifying("contexts"))

WriteData == MayFail(Modifying("data"))

WriteDataFromByte == MayFail(Modifying("data"))

\* DeleteFriend deletes nothing: RoleMiddleData.DeleteFriend refuses a friend that
\* is there, and its error is dropped.

DeleteFriend == [Modifying("friends") EXCEPT !.effect = "none"]

\* WriteContext changes the map under the read lock and does not mark the role.

WriteContext == [Modifying("contexts") EXCEPT !.lock = "READ", !.marks = FALSE]

Methods ==
    [ ExistRole |-> ExistRole, ReadFather |-> ReadFather, ReadChildren |-> ReadChildren,
      ExistChild |-> ExistChild, ReadFriends |-> ReadFriends, ReadFriendStatus |->
      ReadFriendStatus, ExistContext |-> ExistContext, ReadContext |-> ReadContext,
      ReadContextSameBind |-> ReadContextSameBind, ReadContextsName |-> ReadContextsName,
      ReadContextStatus |-> ReadContextStatus, ReadContexts |-> ReadContexts, ReadData |->
      ReadData, ReadDataToByte |-> ReadDataToByte, ReadRole |-> ReadRole, ReadRoleMiddleData
      |-> ReadRoleMiddleData, ReadRoleByte |-> ReadRoleByte, LockRole |-> LockRole, StoreRole
      |-> StoreRole, StoreRoleFromMiddleData |-> StoreRoleFromMiddleData, StoreRoleByte |->
      StoreRoleByte, DeleteRole |-> DeleteRole, WriteFather |-> WriteFather, ResetFather |->
      ResetFather, WriteChildren |-> WriteChildren, ResetChildren |-> ResetChildren,
      WriteFriends |-> WriteFriends, ResetFriends |-> ResetFriends, WriteContexts |->
      WriteContexts, ResetContexts |-> ResetContexts, WriteChild |-> WriteChild, DeleteChild
      |-> DeleteChild, WriteFriendStatus |-> WriteFriendStatus, WriteFriend |-> WriteFriend,
      CreateContext |-> CreateContext, DropContext |-> DropContext, DeleteContextBind |->
      DeleteContextBind, WriteContextStatus |-> WriteContextStatus, WriteData |-> WriteData,
      WriteDataFromByte |-> WriteDataFromByte, DeleteFriend |-> DeleteFriend, WriteContext |->
      WriteContext ]

All == {Methods[m] : m \in DOMAIN Methods}

ASSUME OperationsTyped == All \subseteq Operations
=============================================================================
